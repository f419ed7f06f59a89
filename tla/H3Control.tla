----------------------------- MODULE H3Control ------------------------------
(***************************************************************************)
(* The HTTP/3 control plane (src/h3/control/mod.rs, ControlStreams): this  *)
(* endpoint's control and QPACK streams and the peer's.                    *)
(*                                                                         *)
(* A plane is a record.  opened counts the outbound streams poll_init has  *)
(* opened; control_buf, encoder_pending and decoder_pending are what       *)
(* poll_flush has still to write, wire what it has written.  The peer's    *)
(* side of it: unis are the streams it opened and nobody has accepted, by  *)
(* type; pending_uni the one being classified; inbound the streams with a  *)
(* role, with the items they hold ("fin" ends a stream).  torn: the peer   *)
(* has stopped the outbound streams; closed: the connection is gone.  The  *)
(* bytes that follow a type in the same chunk are read with the rest.      *)
(***************************************************************************)
EXTENDS Integers, Sequences, SequencesExt

Roles == {"control", "encoder", "decoder"}
NoUni == [type |-> "none", typed |-> FALSE]

NewControl ==
    [opened |-> 0, control_buf |-> <<>>, encoder_pending |-> <<>>, decoder_pending |-> <<>>,
     wire |-> [r \in Roles |-> <<>>], torn |-> FALSE, closed |-> FALSE,
     unis |-> <<>>, pending_uni |-> NoUni, known |-> {}, discard |-> FALSE,
     inbound |-> [r \in Roles |-> <<>>], goaway_event |-> FALSE,
     settings_received |-> FALSE, max_push_id |-> -1, goaway_sent |-> -1]

Done(c, r) == [c |-> c, r |-> r]

(***************************************************************************)
(* Outbound.                                                               *)
(***************************************************************************)

\* poll_init opens the streams one after the other; the first thing on each is its type.
open_uni(c) ==
    CASE c.opened = 0 -> [c EXCEPT !.opened = 1, !.control_buf = <<"type", "settings">>]
      [] c.opened = 1 -> [c EXCEPT !.opened = 2, !.encoder_pending = <<"type">>]
      [] OTHER        -> [c EXCEPT !.opened = 3, !.decoder_pending = <<"type">>]

Queued(c) == c.control_buf # <<>> \/ c.encoder_pending # <<>> \/ c.decoder_pending # <<>>

\* The control buffer is written whole, the QPACK streams a chunk at a time.
ControlWritten(c) == [c EXCEPT !.wire["control"] = @ \o c.control_buf, !.control_buf = <<>>]
MutEncoderWritten(c, n) ==
    [c EXCEPT !.wire["encoder"] = @ \o SubSeq(c.encoder_pending, 1, n), !.encoder_pending = <<>>]
EncoderWritten(c, n) ==
    [c EXCEPT !.wire["encoder"] = @ \o SubSeq(c.encoder_pending, 1, n),
              !.encoder_pending = SubSeq(@, n + 1, Len(@))]
DecoderWritten(c, n) ==
    [c EXCEPT !.wire["decoder"] = @ \o SubSeq(c.decoder_pending, 1, n),
              !.decoder_pending = SubSeq(@, n + 1, Len(@))]

\* What poll_flush may do: control first, then the encoder stream, then the decoder stream,
\* as far as the transport takes it.  On streams the peer has stopped the first write fails.
Blocked(c) == Done(c, "pending")
poll_flush(c) ==
    IF c.torn THEN { Done(c, IF Queued(c) THEN "transport" ELSE "ok") }
    ELSE {Done(DecoderWritten(EncoderWritten(ControlWritten(c), Len(c.encoder_pending)),
                              Len(c.decoder_pending)), "ok")}
         \cup (IF c.control_buf = <<>> THEN {} ELSE {Blocked(c)})
         \cup { Blocked(EncoderWritten(ControlWritten(c), n)) : n \in 0..(Len(c.encoder_pending) - 1) }
         \cup { Blocked(DecoderWritten(EncoderWritten(ControlWritten(c), Len(c.encoder_pending)), n)) :
                n \in 0..(Len(c.decoder_pending) - 1) }

send_goaway(c, id) ==
    IF c.goaway_sent # -1 THEN c
    ELSE [c EXCEPT !.control_buf = Append(@, "goaway"), !.goaway_sent = id]

queue_encoder_streams(c, q) == [c EXCEPT !.encoder_pending = @ \o q]

(***************************************************************************)
(* Inbound.  poll_read goes round its sources, one service each, until a   *)
(* round makes no progress.  A service is "ok", "idle" or an error.        *)
(***************************************************************************)

Sources == <<"uni", "classify", "control", "encoder", "decoder", "discard">>

PushId(f) == IF f = "max1" THEN 1 ELSE 2

\* A frame of the peer's control stream.
handle_control_frame(c, f) ==
    IF ~c.settings_received
    THEN IF f = "settings" THEN Done([c EXCEPT !.settings_received = TRUE], "ok")
         ELSE Done(c, "missing_settings")
    ELSE CASE f = "goaway" -> Done([c EXCEPT !.goaway_event = TRUE], "ok")
           [] f \in {"max1", "max2"} /\ PushId(f) >= c.max_push_id ->
                 Done([c EXCEPT !.max_push_id = PushId(f)], "ok")
           [] f \in {"max1", "max2"} /\ PushId(f) < c.max_push_id -> Done(c, "id_error")
           [] f = "cancel_push" -> Done(c, "id_error")
           [] OTHER -> Done(c, "unexpected")          \* SETTINGS again, DATA, HEADERS

\* A chunk of the peer's QPACK streams: instructions the codecs accept or refuse.  Those
\* of the encoder stream are acknowledged.
Fed(c, role, chunk) ==
    CASE chunk = "bad"    -> Done(c, "qpack")
      [] role = "encoder" -> Done([c EXCEPT !.decoder_pending = Append(@, "ack")], "ok")
      [] OTHER            -> Done(c, "ok")

Item(c, role, x) ==
    IF x = "fin" THEN Done(c, "closed_critical")
    ELSE IF role = "control" THEN handle_control_frame(c, x) ELSE Fed(c, role, x)

\* The type of the pending stream is complete: it gets its role.  Two streams of a role,
\* or a push stream, are an error; an unknown type never is.
Assigned(c, ty) ==
    CASE ty \in Roles \ c.known -> Done([c EXCEPT !.known = @ \cup {ty}], "ok")
      [] ty = "unknown"         -> Done([c EXCEPT !.discard = TRUE], "ok")
      [] OTHER                  -> Done(c, "stream_creation")

classify_uni(c) ==
    CASE c.pending_uni.typed -> Assigned([c EXCEPT !.pending_uni = NoUni], c.pending_uni.type)
      [] ~c.pending_uni.typed /\ c.pending_uni.type = "fin" ->
            Done([c EXCEPT !.pending_uni = NoUni], "stream_creation")
      [] c.closed /\ ~c.pending_uni.typed /\ c.pending_uni.type # "fin" -> Done(c, "transport")
      [] OTHER -> Done(c, "idle")

poll_read(c, source) ==
    CASE source = "uni" /\ c.pending_uni = NoUni /\ c.unis # <<>> ->
            Done([c EXCEPT !.pending_uni = Head(c.unis), !.unis = Tail(@)], "ok")
      [] source = "classify" /\ c.pending_uni # NoUni -> classify_uni(c)
      [] source \in c.known /\ c.inbound[source] # <<>> ->
            Item([c EXCEPT !.inbound[source] = Tail(@)], source, Head(c.inbound[source]))
      [] source = "discard" /\ c.discard /\ ~c.closed -> Done([c EXCEPT !.discard = FALSE], "ok")
      [] c.closed /\ (source \in c.known \/ (source = "discard" /\ c.discard)) -> Done(c, "transport")
      [] OTHER -> Done(c, "idle")

=============================================================================
