------------------------- MODULE H3ConnectionProofs -------------------------
(***************************************************************************)
(* Safety of the HTTP/3 connection driver and its control plane, for any   *)
(* number of requests, streams, items and instructions: the properties of  *)
(* H3Connection follow from one inductive invariant.                       *)
(***************************************************************************)
EXTENDS H3Connection, SequenceTheorems, TLAPS

\* What a control plane holds.
Token == {"type", "settings", "goaway", "ack"} \cup Nat
Uni == [type : UniTypes \cup {"none"}, typed : BOOLEAN]
Plane ==
    [opened : 0 .. 3, control_buf : Seq(Token), encoder_pending : Seq(Token),
     decoder_pending : Seq(Token), wire : [Roles -> Seq(Token)], torn : BOOLEAN,
     closed : BOOLEAN, unis : Seq(Uni), pending_uni : Uni, known : SUBSET Roles,
     discard : BOOLEAN, inbound : [Roles -> Seq(ControlItems \cup QpackItems)],
     goaway_event : BOOLEAN, settings_received : BOOLEAN, max_push_id : Int,
     goaway_sent : Int]

\* The codes a connection is closed with, and those that are errors.
Errors ==
    {"none", "missing_settings", "id_error", "unexpected", "qpack", "closed_critical",
     "stream_creation", "transport", "excessive_load"}
Codes == Errors \cup {"no_error"}

Places ==
    {"handshake", "init", "top", "flush", "read", "shutdown", "accept", "parked", "returned"}
TimerState == {"off", "armed", "fired"}
TaskStates == {"none", "opened", "run", "ended", "done", "rejected"}

\* The driver's locals.
Locals ==
    [shutdown : BOOLEAN, control_dead : BOOLEAN, closing_with : Errors,
     outcome : {"none", "ok", "timeout"}, last_request_id : Nat,
     flush_pending : BOOLEAN, source : Nat, progressed : BOOLEAN]

TypeInv ==
    /\ pc \in Places
    /\ c \in Plane
    /\ d \in Locals
    /\ timers \in [accept : TimerState, backstop : TimerState, grace : TimerState]
    /\ peer \in [requests : Nat, unis : Nat, items : Nat]
    /\ tasks \in [Ids -> TaskStates]
    /\ codecs \in [encoder_stream : Seq(Token), all : Seq(Token)]
    /\ state \in [local_error_resets : Nat, pending_accept_resets : Nat,
                  close_code : Errors]
    /\ result \in [ret : {"none", "ok", "timeout", "error"}, code : Codes]

\* The GOAWAY of this endpoint is on the wire, or still to be written.
Announced(cc) == "goaway" \in ToSet(cc.wire["control"])
Announcing(cc) == Announced(cc) \/ "goaway" \in ToSet(cc.control_buf)

\* Every request that was accepted is counted, GOAWAY is queued only in a
\* shutdown and before the first request is accepted during one.
GoawayInv ==
    /\ \A i \in Ids :
          tasks[i] \in {"run", "ended", "done", "rejected"} => i <= d.last_request_id
    /\ GoawayTruthful
    /\ c.goaway_sent # None => d.shutdown /\ Announcing(c)
    /\ pc = "accept" /\ d.shutdown => c.goaway_sent # None

\* Past the top of the loop no recorded error waits, past the flush a GOAWAY is
\* written, or cannot be; the grace window is only opened after a GOAWAY.
CloseInv ==
    /\ d.control_dead => d.shutdown
    /\ timers.grace # "off" => c.goaway_sent # None
    /\ pc \in {"flush", "read", "shutdown", "accept"} => state.close_code = "none"
    /\ pc \in {"read", "shutdown"} /\ c.goaway_sent # None =>
          Announced(c) \/ d.control_dead \/ d.flush_pending
    /\ result.code # "none" => pc = "returned"
    /\ CloseIsClean

\* Before the loop nothing is encoded, in the loop all streams are open.
StreamsInv ==
    /\ pc \in {"handshake", "init"} =>
          codecs.encoder_stream = <<>> /\ codecs.all = <<>> /\ ~d.shutdown
    /\ pc \notin {"handshake", "init", "returned"} => c.opened = 3
    /\ c.opened < 2 => c.wire["encoder"] = <<>>
    /\ InstructionsInOrder

DriverInv == TypeInv /\ GoawayInv /\ CloseInv /\ StreamsInv
-----------------------------------------------------------------------------
(* The control plane: what its operators change and what they keep. *)

\* The elements of a concatenation.
LEMMA ToSetConcat ==
    ASSUME NEW S, NEW s \in Seq(S), NEW t \in Seq(S), NEW x
    PROVE  x \in ToSet(s \o t) <=> x \in ToSet(s) \/ x \in ToSet(t)
<1>1. /\ DOMAIN (s \o t) = 1 .. Len(s) + Len(t) /\ DOMAIN s = 1 .. Len(s)
      /\ DOMAIN t = 1 .. Len(t) /\ Len(s) \in Nat /\ Len(t) \in Nat
      /\ \A i \in 1 .. Len(s) : (s \o t)[i] = s[i]
      /\ \A i \in 1 .. Len(t) : (s \o t)[i + Len(s)] = t[i]
    BY ConcatProperties, LenProperties
<1>2. ASSUME x \in ToSet(s \o t)
      PROVE  x \in ToSet(s) \/ x \in ToSet(t)
    <2>1. PICK i \in 1 .. Len(s) + Len(t) : x = (s \o t)[i]
        BY <1>1, <1>2 DEF ToSet
    <2>2. CASE i <= Len(s)
        BY <1>1, <2>1, <2>2 DEF ToSet
    <2>3. CASE i > Len(s)
        <3>1. i - Len(s) \in 1 .. Len(t) /\ (i - Len(s)) + Len(s) = i
            BY <1>1, <2>3
        <3>2. x = t[i - Len(s)]
            BY <1>1, <2>1, <3>1
        <3> QED BY <1>1, <3>1, <3>2 DEF ToSet
    <2> QED BY <1>1, <2>2, <2>3
<1>3. ASSUME x \in ToSet(s)
      PROVE  x \in ToSet(s \o t)
    BY <1>1, <1>3 DEF ToSet
<1>4. ASSUME x \in ToSet(t)
      PROVE  x \in ToSet(s \o t)
    <2>1. PICK i \in 1 .. Len(t) : x = t[i]
        BY <1>1, <1>4 DEF ToSet
    <2>2. i + Len(s) \in DOMAIN (s \o t) /\ x = (s \o t)[i + Len(s)]
        BY <1>1, <2>1
    <2> QED BY <2>2 DEF ToSet
<1> QED BY <1>2, <1>3, <1>4

\* A sequence is what is cut off it and the rest.
LEMMA CutAndRest ==
    ASSUME NEW S, NEW w \in Seq(S), NEW p \in Seq(S), NEW n \in 0 .. Len(p)
    PROVE  /\ SubSeq(p, 1, n) \in Seq(S) /\ SubSeq(p, n + 1, Len(p)) \in Seq(S)
           /\ (w \o SubSeq(p, 1, n)) \o SubSeq(p, n + 1, Len(p)) = w \o p
<1>1. Len(p) \in Nat /\ \A i \in 1 .. Len(p) : p[i] \in S
    BY LenProperties
<1>2. SubSeq(p, 1, n) \in Seq(S)
    BY <1>1, SubSeqProperties
<1>3. SubSeq(p, n + 1, Len(p)) \in Seq(S)
    BY <1>1, SubSeqProperties
<1>4. SubSeq(p, 1, n) \o SubSeq(p, n + 1, Len(p)) = SubSeq(p, 1, Len(p))
    <2>1. 1 \in 1 .. Len(p) + 1 /\ n \in 1 - 1 .. Len(p) /\ Len(p) \in n .. Len(p)
        BY <1>1
    <2> QED BY ONLY <2>1, p \in Seq(S), ConcatAdjacentSubSeq, Zenon
<1>5. SubSeq(p, 1, Len(p)) = p
    BY SubSeqFull
<1> DEFINE a == SubSeq(p, 1, n)
           b == SubSeq(p, n + 1, Len(p))
<1>6. a \in Seq(S) /\ b \in Seq(S) /\ a \o b = p
    BY <1>2, <1>3, <1>4, <1>5, Zenon
<1> HIDE DEF a, b
<1>7. \A x, y \in Seq(S) : (w \o x) \o y = w \o (x \o y)
    BY ConcatAssociative, SMTT(60)
<1>8. (w \o a) \o b = w \o p
    BY <1>6, <1>7, Zenon
<1> QED BY <1>2, <1>3, <1>8, Zenon DEF a, b

\* The encoder instructions on their way, as far as the control plane has them.
Pipeline(cc) == cc.wire["encoder"] \o cc.encoder_pending

\* Planes that agree on what is queued, written and announced.
SameOut(cc, k) ==
    /\ k \in Plane /\ k.opened = cc.opened /\ k.goaway_sent = cc.goaway_sent
    /\ k.wire["encoder"] \o k.encoder_pending = Pipeline(cc)
    /\ Announcing(k) <=> Announcing(cc)

\* The control buffer is written.
LEMMA ControlWrittenFacts ==
    ASSUME NEW cc \in Plane
    PROVE  /\ SameOut(cc, ControlWritten(cc))
           /\ Announced(ControlWritten(cc)) <=> Announcing(cc)
           /\ ControlWritten(cc).encoder_pending = cc.encoder_pending
           /\ ControlWritten(cc).decoder_pending = cc.decoder_pending
<1> DEFINE k == ControlWritten(cc)
<1>1. /\ cc.wire["control"] \in Seq(Token) /\ cc.control_buf \in Seq(Token)
      /\ cc.wire["control"] \o cc.control_buf \in Seq(Token)
    BY DEF Plane, Roles
<1> DEFINE w == [cc.wire EXCEPT !["control"] = cc.wire["control"] \o cc.control_buf]
<1>5. /\ w \in [Roles -> Seq(Token)] /\ w["encoder"] = cc.wire["encoder"]
      /\ w["control"] = cc.wire["control"] \o cc.control_buf
    BY <1>1, Zenon DEF Plane, Roles
<1>6. k = [cc EXCEPT !.wire = w, !.control_buf = <<>>]
    BY DEF ControlWritten, Plane
<1> HIDE DEF w, k
<1>2. /\ k \in Plane /\ k.opened = cc.opened /\ k.goaway_sent = cc.goaway_sent
      /\ k.control_buf = <<>> /\ k.wire["control"] = cc.wire["control"] \o cc.control_buf
      /\ k.wire["encoder"] = cc.wire["encoder"]
      /\ k.encoder_pending = cc.encoder_pending /\ k.decoder_pending = cc.decoder_pending
    BY <1>5, <1>6, EmptySeq, Zenon DEF Plane
<1>3. Announced(k) <=> Announcing(cc)
    BY <1>1, <1>2, ToSetConcat DEF Announced, Announcing
<1>4. Announcing(k) <=> Announcing(cc)
    BY <1>2, <1>3 DEF Announcing, ToSet
<1> QED BY <1>2, <1>3, <1>4 DEF SameOut, Pipeline, k

\* Some of the encoder's instructions are written.
LEMMA EncoderWrittenFacts ==
    ASSUME NEW cc \in Plane, NEW n \in 0 .. Len(cc.encoder_pending)
    PROVE  /\ SameOut(cc, EncoderWritten(cc, n))
           /\ Announced(EncoderWritten(cc, n)) <=> Announced(cc)
           /\ EncoderWritten(cc, n).decoder_pending = cc.decoder_pending
<1> DEFINE k == EncoderWritten(cc, n)
           p == cc.encoder_pending
           w == cc.wire["encoder"]
<1>1. p \in Seq(Token) /\ w \in Seq(Token)
    BY DEF Plane, Roles
<1>2. /\ SubSeq(p, 1, n) \in Seq(Token) /\ SubSeq(p, n + 1, Len(p)) \in Seq(Token)
      /\ (w \o SubSeq(p, 1, n)) \o SubSeq(p, n + 1, Len(p)) = w \o p
    BY <1>1, CutAndRest, ZenonT(40)
<1>3. w \o SubSeq(p, 1, n) \in Seq(Token)
    BY <1>1, <1>2
<1>4. /\ k \in Plane /\ k.opened = cc.opened /\ k.goaway_sent = cc.goaway_sent
      /\ k.control_buf = cc.control_buf /\ k.wire["control"] = cc.wire["control"]
      /\ k.wire["encoder"] = w \o SubSeq(p, 1, n)
      /\ k.encoder_pending = SubSeq(p, n + 1, Len(p))
      /\ k.decoder_pending = cc.decoder_pending
    BY <1>2, <1>3, Zenon DEF EncoderWritten, Plane, Roles
<1> QED BY <1>2, <1>4, Zenon DEF SameOut, Pipeline, Announced, Announcing

\* Some of the decoder's acknowledgements are written.
LEMMA DecoderWrittenFacts ==
    ASSUME NEW cc \in Plane, NEW n \in 0 .. Len(cc.decoder_pending)
    PROVE  /\ SameOut(cc, DecoderWritten(cc, n))
           /\ Announced(DecoderWritten(cc, n)) <=> Announced(cc)
<1> DEFINE k == DecoderWritten(cc, n)
           p == cc.decoder_pending
           w == cc.wire["decoder"]
<1>1. p \in Seq(Token) /\ w \in Seq(Token)
    BY DEF Plane, Roles
<1>2. SubSeq(p, 1, n) \in Seq(Token) /\ SubSeq(p, n + 1, Len(p)) \in Seq(Token)
    BY <1>1, CutAndRest
<1>3. w \o SubSeq(p, 1, n) \in Seq(Token)
    BY <1>1, <1>2
<1>4. /\ k \in Plane /\ k.opened = cc.opened /\ k.goaway_sent = cc.goaway_sent
      /\ k.control_buf = cc.control_buf /\ k.wire["control"] = cc.wire["control"]
      /\ k.wire["encoder"] = cc.wire["encoder"] /\ k.encoder_pending = cc.encoder_pending
    BY <1>2, <1>3, Zenon DEF DecoderWritten, Plane, Roles
<1> QED BY <1>4 DEF SameOut, Pipeline, Announced, Announcing

\* poll_flush loses, repeats and reorders nothing, and when it is through the
\* GOAWAY is written.
LEMMA FlushFacts ==
    ASSUME NEW cc \in Plane, NEW f \in poll_flush(cc)
    PROVE  /\ SameOut(cc, f.c) /\ f.r \in {"ok", "pending", "transport"}
           /\ f.r = "ok" => (Announced(f.c) <=> Announcing(cc))
<1> DEFINE m == ControlWritten(cc)
           k == EncoderWritten(m, Len(cc.encoder_pending))
<1>0. Len(cc.encoder_pending) \in Nat /\ Len(cc.decoder_pending) \in Nat
    BY DEF Plane
<1>1. /\ SameOut(cc, m) /\ m \in Plane
      /\ Announced(m) <=> Announcing(cc)
      /\ m.encoder_pending = cc.encoder_pending /\ m.decoder_pending = cc.decoder_pending
    BY ControlWrittenFacts, Zenon DEF SameOut
<1> HIDE DEF m
<1>2. /\ SameOut(m, k) /\ k \in Plane
      /\ Announced(k) <=> Announced(m)
      /\ k.decoder_pending = cc.decoder_pending
    <2>1. Len(cc.encoder_pending) \in 0 .. Len(m.encoder_pending)
        BY <1>0, <1>1
    <2> QED BY <1>1, <2>1, EncoderWrittenFacts, Zenon DEF SameOut
<1> HIDE DEF k
<1>3. SameOut(cc, cc)
    BY DEF SameOut, Pipeline
<1>4. CASE f = Done(DecoderWritten(k, Len(cc.decoder_pending)), "ok")
    <2>1. /\ SameOut(k, DecoderWritten(k, Len(cc.decoder_pending)))
          /\ Announced(DecoderWritten(k, Len(cc.decoder_pending))) <=> Announced(k)
        BY <1>0, <1>2, DecoderWrittenFacts
    <2> QED BY <1>1, <1>2, <1>4, <2>1, Zenon DEF SameOut, Pipeline, Done
<1>5. CASE f = Blocked(cc)
    BY <1>3, <1>5 DEF Blocked, Done
<1>6. ASSUME NEW n \in 0 .. Len(cc.encoder_pending) - 1, f = Blocked(EncoderWritten(m, n))
      PROVE  SameOut(cc, f.c) /\ f.r = "pending"
    <2>1. SameOut(m, EncoderWritten(m, n))
        BY <1>0, <1>1, EncoderWrittenFacts
    <2> QED BY <1>1, <1>6, <2>1, Zenon DEF SameOut, Pipeline, Done, Blocked
<1>7. ASSUME NEW n \in 0 .. Len(cc.decoder_pending) - 1, f = Blocked(DecoderWritten(k, n))
      PROVE  SameOut(cc, f.c) /\ f.r = "pending"
    <2>1. SameOut(k, DecoderWritten(k, n))
        BY <1>0, <1>2, DecoderWrittenFacts
    <2> QED BY <1>1, <1>2, <1>7, <2>1, Zenon DEF SameOut, Pipeline, Done, Blocked
<1>8. CASE cc.torn
    <2>1. f = Done(cc, IF Queued(cc) THEN "transport" ELSE "ok")
        BY <1>8 DEF poll_flush
    <2>2. ~Queued(cc) => (Announced(cc) <=> Announcing(cc))
        BY DEF Queued, Announcing, ToSet
    <2> QED BY <1>3, <2>1, <2>2, Zenon DEF Done
<1>9. CASE ~cc.torn
    <2>1. \/ f = Done(DecoderWritten(k, Len(cc.decoder_pending)), "ok")
          \/ f = Blocked(cc)
          \/ \E n \in 0 .. Len(cc.encoder_pending) - 1 : f = Blocked(EncoderWritten(m, n))
          \/ \E n \in 0 .. Len(cc.decoder_pending) - 1 : f = Blocked(DecoderWritten(k, n))
        BY <1>9 DEF poll_flush, k, m
    <2> QED BY <1>4, <1>5, <1>6, <1>7, <2>1, Zenon
<1> QED BY <1>8, <1>9
\* A plane whose outbound half is the same.
Keeps(cc, k) ==
    /\ k \in Plane /\ k.opened = cc.opened /\ k.goaway_sent = cc.goaway_sent
    /\ k.wire = cc.wire /\ k.control_buf = cc.control_buf
    /\ k.encoder_pending = cc.encoder_pending

\* A frame of the peer's control stream is handled without touching the outbound half.
LEMMA ControlFrameFacts ==
    ASSUME NEW cc \in Plane, NEW f
    PROVE  /\ Keeps(cc, handle_control_frame(cc, f).c)
           /\ handle_control_frame(cc, f).r \in Errors \cup {"ok"}
<1> DEFINE h == handle_control_frame(cc, f)
<1>1. PushId(f) \in Int
    BY DEF PushId
<1>2. \/ h = Done([cc EXCEPT !.settings_received = TRUE], "ok")
      \/ h = Done(cc, "missing_settings")
      \/ h = Done([cc EXCEPT !.goaway_event = TRUE], "ok")
      \/ h = Done([cc EXCEPT !.max_push_id = PushId(f)], "ok")
      \/ h = Done(cc, "id_error")
      \/ h = Done(cc, "unexpected")
    BY DEF handle_control_frame
<1> HIDE DEF h
<1>3. h.r \in Errors \cup {"ok"}
    BY <1>2 DEF Done, Errors
<1>4. Keeps(cc, h.c)
    <2>1. CASE h = Done([cc EXCEPT !.settings_received = TRUE], "ok")
        BY <2>1, Zenon DEF Done, Keeps, Plane
    <2>2. CASE h = Done([cc EXCEPT !.goaway_event = TRUE], "ok")
        BY <2>2, Zenon DEF Done, Keeps, Plane
    <2>3. CASE h = Done([cc EXCEPT !.max_push_id = PushId(f)], "ok")
        BY <1>1, <2>3, Zenon DEF Done, Keeps, Plane
    <2>4. ASSUME h.c = cc
          PROVE  Keeps(cc, h.c)
        BY <2>4 DEF Keeps
    <2> QED BY <1>2, <2>1, <2>2, <2>3, <2>4 DEF Done
<1> QED BY <1>3, <1>4 DEF h

\* An item of one of the peer's streams leaves the outbound half alone, but for the
\* acknowledgement.
LEMMA ItemFacts ==
    ASSUME NEW cc \in Plane, NEW role, NEW x
    PROVE  Keeps(cc, Item(cc, role, x).c) /\ Item(cc, role, x).r \in Errors \cup {"ok"}
<1>1. CASE x # "fin" /\ role = "control"
    BY <1>1, ControlFrameFacts DEF Item
<1>2. CASE ~(x # "fin" /\ role = "control")
    <2> DEFINE h == Item(cc, role, x)
    <2>1. \/ h = Done(cc, "closed_critical") \/ h = Done(cc, "qpack") \/ h = Done(cc, "ok")
          \/ h = Done([cc EXCEPT !.decoder_pending = Append(cc.decoder_pending, "ack")], "ok")
        BY <1>2 DEF Item, Fed
    <2> HIDE DEF h
    <2>2. h.r \in Errors \cup {"ok"}
        BY <2>1 DEF Done, Errors
    <2>3. ASSUME h = Done([cc EXCEPT !.decoder_pending = Append(cc.decoder_pending, "ack")], "ok")
          PROVE  Keeps(cc, h.c)
        <3>1. Append(cc.decoder_pending, "ack") \in Seq(Token)
            BY DEF Plane, Token
        <3> QED BY <2>3, <3>1, Zenon DEF Done, Keeps, Plane
    <2>4. ASSUME h.c = cc
          PROVE  Keeps(cc, h.c)
        BY <2>4 DEF Keeps
    <2>5. Keeps(cc, h.c)
        BY <2>1, <2>3, <2>4 DEF Done
    <2> QED BY <2>2, <2>5 DEF h
<1> QED BY <1>1, <1>2

\* A stream of the peer gets its role without touching the outbound half.
LEMMA ClassifyFacts ==
    ASSUME NEW cc \in Plane
    PROVE  Keeps(cc, classify_uni(cc).c) /\ classify_uni(cc).r \in Errors \cup {"ok", "idle"}
<1> DEFINE h == classify_uni(cc)
           k == [cc EXCEPT !.pending_uni = NoUni]
           ty == cc.pending_uni.type
<1>1. Keeps(cc, k) /\ k \in Plane
    <2>1. NoUni \in Uni
        BY DEF NoUni, Uni
    <2> QED BY <2>1, Zenon DEF Keeps, Plane
<1> HIDE DEF k
<1>2. \/ h = Assigned(k, ty) \/ h = Done(k, "stream_creation")
      \/ h = Done(cc, "transport") \/ h = Done(cc, "idle")
    BY DEF classify_uni, k
<1> HIDE DEF h
<1>3. /\ Keeps(cc, Assigned(k, ty).c) /\ Assigned(k, ty).r \in Errors \cup {"ok"}
    <2> DEFINE a == Assigned(k, ty)
    <2>1. \/ ty \in Roles /\ a = Done([k EXCEPT !.known = k.known \cup {ty}], "ok")
          \/ a = Done([k EXCEPT !.discard = TRUE], "ok")
          \/ a = Done(k, "stream_creation")
        BY DEF Assigned
    <2> SUFFICES Keeps(cc, a.c) /\ a.r \in Errors \cup {"ok"}
        OBVIOUS
    <2> HIDE DEF a
    <2>2. a.r \in Errors \cup {"ok"}
        BY <2>1 DEF Done, Errors
    <2>3. CASE ty \in Roles /\ a = Done([k EXCEPT !.known = k.known \cup {ty}], "ok")
        <3>1. k.known \cup {ty} \in SUBSET Roles
            BY <1>1, <2>3 DEF Plane
        <3> QED BY <1>1, <2>3, <3>1, Zenon DEF Done, Keeps, Plane
    <2>4. CASE a = Done([k EXCEPT !.discard = TRUE], "ok")
        BY <1>1, <2>4, Zenon DEF Done, Keeps, Plane
    <2>5. CASE a = Done(k, "stream_creation")
        BY <1>1, <2>2, <2>5, Zenon DEF Done
    <2> QED BY <2>1, <2>2, <2>3, <2>4, <2>5, Zenon
<1>4. Keeps(cc, cc)
    BY DEF Keeps
<1>5. Keeps(cc, h.c)
    BY <1>1, <1>2, <1>3, <1>4 DEF Done
<1>6. h.r \in Errors \cup {"ok", "idle"}
    BY <1>2, <1>3 DEF Done, Errors
<1> QED BY <1>5, <1>6 DEF h

\* One service of poll_read leaves the outbound half alone.
LEMMA ReadFacts ==
    ASSUME NEW cc \in Plane, NEW source
    PROVE  /\ Keeps(cc, poll_read(cc, source).c)
           /\ poll_read(cc, source).r \in Errors \cup {"ok", "idle"}
<1> DEFINE h == poll_read(cc, source)
           k == [cc EXCEPT !.pending_uni = Head(cc.unis), !.unis = Tail(cc.unis)]
           m == [cc EXCEPT !.inbound[source] = Tail(@)]
           x == Head(cc.inbound[source])
<1>1. \/ cc.unis # <<>> /\ h = Done(k, "ok")
      \/ h = classify_uni(cc)
      \/ source \in cc.known /\ cc.inbound[source] # <<>> /\ h = Item(m, source, x)
      \/ h = Done([cc EXCEPT !.discard = FALSE], "ok")
      \/ h = Done(cc, "transport") \/ h = Done(cc, "idle")
    BY DEF poll_read
<1> SUFFICES Keeps(cc, h.c) /\ h.r \in Errors \cup {"ok", "idle"}
    OBVIOUS
<1> HIDE DEF h
<1>2. CASE cc.unis # <<>> /\ h = Done(k, "ok")
    <2>1. cc.unis \in Seq(Uni)
        BY DEF Plane
    <2>2. Head(cc.unis) \in Uni /\ Tail(cc.unis) \in Seq(Uni)
        BY <1>2, <2>1
    <2> QED BY <1>2, <2>2, Zenon DEF Done, Keeps, Plane
<1>3. CASE h = classify_uni(cc)
    BY <1>3, ClassifyFacts, Zenon
<1>4. CASE source \in cc.known /\ cc.inbound[source] # <<>> /\ h = Item(m, source, x)
    <2>1. source \in Roles /\ cc.inbound[source] \in Seq(ControlItems \cup QpackItems)
        BY <1>4 DEF Plane
    <2>2. Tail(cc.inbound[source]) \in Seq(ControlItems \cup QpackItems)
        BY <1>4, <2>1
    <2>3. [cc.inbound EXCEPT ![source] = Tail(cc.inbound[source])]
            \in [Roles -> Seq(ControlItems \cup QpackItems)]
        BY <2>1, <2>2 DEF Plane
    <2>4. Keeps(cc, m) /\ m \in Plane
        BY <2>3, Zenon DEF Keeps, Plane
    <2> HIDE DEF m, x
    <2> QED BY <1>4, <2>4, ItemFacts DEF Keeps
<1>5. CASE h = Done([cc EXCEPT !.discard = FALSE], "ok")
    BY <1>5, Zenon DEF Done, Keeps, Plane
<1>6. CASE h = Done(cc, "transport") \/ h = Done(cc, "idle")
    BY <1>6 DEF Done, Keeps, Errors
<1> QED BY <1>1, <1>2, <1>3, <1>4, <1>5, <1>6, Zenon
-----------------------------------------------------------------------------
(* What happens while the driver is parked, or before its loop. *)

\* A step of the environment: the driver, its outbound half and its verdict are
\* left alone, a request arrives or its task ends.
Calm ==
    /\ pc' = pc /\ result' = result /\ d' = d /\ pc \in {"handshake", "init", "parked"}
    /\ Keeps(c, c') /\ (timers'.grace # "off" => timers.grace # "off")
    /\ \A i \in Ids : \/ tasks'[i] = tasks[i] \/ tasks'[i] = "opened"
                      \/ tasks[i] = "run" /\ tasks'[i] = "ended"

\* Such a step keeps what GOAWAY and the close promise.
LEMMA CalmKeeps ==
    ASSUME GoawayInv, CloseInv, Calm
    PROVE  GoawayInv' /\ CloseInv'
<1>1. /\ c'.goaway_sent = c.goaway_sent
      /\ Announcing(c) <=> Announcing(c)'
    BY DEF Calm, Keeps, Announcing, Announced
<1>2. GoawayInv'
    <2>1. GoawayTruthful'
        BY <1>1 DEF GoawayInv, GoawayTruthful, Calm
    <2>2. \A i \in Ids :
            tasks'[i] \in {"run", "ended", "done", "rejected"} => i <= d'.last_request_id
        BY DEF GoawayInv, Calm
    <2> QED BY <1>1, <2>1, <2>2, Zenon DEF GoawayInv, Calm
<1>3. result.code = "none" /\ result' = result
    BY DEF CloseInv, Calm
<1>4. CloseIsClean'
    BY <1>3 DEF CloseIsClean
<1> QED BY <1>1, <1>2, <1>3, <1>4, Zenon DEF CloseInv, Calm

\* ... and, when no task encodes, the order of the encoder's instructions.
LEMMA CalmStreams ==
    ASSUME StreamsInv, Calm, codecs' = codecs
    PROVE  StreamsInv'
BY Zenon DEF StreamsInv, InstructionsInOrder, Calm, Keeps

\* A task's instruction joins the end of the queue.
LEMMA EncodesKeeps ==
    ASSUME TypeInv, StreamsInv, Calm, codecs' = Encodes(codecs), pc = "parked"
    PROVE  StreamsInv'
<1> DEFINE n == Len(codecs.all) + 1
           q == c.wire["encoder"] \o c.encoder_pending
<1>0. /\ c.wire \in [Roles -> Seq(Token)] /\ c.encoder_pending \in Seq(Token)
      /\ codecs.all \in Seq(Token) /\ codecs.encoder_stream \in Seq(Token)
    BY DEF TypeInv, Plane
<1>1. /\ codecs.all \in Seq(Token) /\ codecs.encoder_stream \in Seq(Token)
      /\ q \in Seq(Token) /\ n \in Token /\ <<"type">> \in Seq(Token)
    <2>1. c.wire["encoder"] \in Seq(Token)
        BY <1>0, Zenon DEF Roles
    <2>2. n \in Nat
        BY <1>0
    <2>3. "type" \in Token
        BY DEF Token
    <2> QED BY <1>0, <2>1, <2>2, <2>3 DEF Token
<1>2. /\ codecs'.encoder_stream = Append(codecs.encoder_stream, n)
      /\ codecs'.all = Append(codecs.all, n)
    BY DEF Encodes, TypeInv
<1>3. c.opened = 3 /\ q \o codecs.encoder_stream = <<"type">> \o codecs.all
    <2>1. c.opened = 3
        BY DEF StreamsInv
    <2>2. c.opened >= 2
        BY <2>1
    <2> QED BY <2>1, <2>2, Zenon DEF StreamsInv, InstructionsInOrder
<1>4. /\ c'.opened = c.opened /\ c'.wire["encoder"] \o c'.encoder_pending = q
      /\ pc' = "parked"
    BY DEF Calm, Keeps
<1> HIDE DEF n, q
<1>5. \A s, t \in Seq(Token) : s \o Append(t, n) = Append(s \o t, n)
    BY <1>1
<1>6. q \o codecs'.encoder_stream = <<"type">> \o codecs'.all
    BY <1>1, <1>2, <1>3, <1>5, Zenon
<1> QED BY <1>3, <1>4, <1>6 DEF StreamsInv, InstructionsInOrder

\* What a task does to ConnResetState stays in range.
LEMMA EndedFacts ==
    ASSUME TypeInv, NEW v, NEW st \in Ended(v)
    PROVE  st \in [local_error_resets : Nat, pending_accept_resets : Nat,
                   close_code : Errors]
<1>1. \/ st = note_local_error_reset(state)
      \/ \E b \in 0 .. state.pending_accept_resets : st = note_pending_accept_reset(state, b)
      \/ st = [state EXCEPT !.close_code = "qpack"]
      \/ st = state
    BY DEF Ended
<1>2. CASE st = note_local_error_reset(state)
    <2>1. /\ state \in [local_error_resets : Nat, pending_accept_resets : Nat,
                          close_code : Errors]
          /\ "excessive_load" \in Errors /\ state.local_error_resets + 1 \in Nat
        BY DEF TypeInv, Errors
    <2>2. CASE st = [state EXCEPT !.close_code = "excessive_load"]
        BY <2>1, <2>2, Zenon
    <2>3. CASE st = [state EXCEPT !.local_error_resets = state.local_error_resets + 1]
        BY <2>1, <2>3, Zenon
    <2> QED BY <1>2, <2>1, <2>2, <2>3, Zenon DEF note_local_error_reset
<1>3. CASE \E b \in 0 .. state.pending_accept_resets : st = note_pending_accept_reset(state, b)
    <2>1. PICK b \in 0 .. state.pending_accept_resets : st = note_pending_accept_reset(state, b)
        BY <1>3
    <2>2. b + 1 \in Nat
        BY <2>1 DEF TypeInv
    <2> QED BY <2>1, <2>2, Zenon DEF TypeInv, note_pending_accept_reset, Errors
<1>4. CASE st = [state EXCEPT !.close_code = "qpack"]
    BY <1>4, Zenon DEF TypeInv, Errors
<1>5. CASE st = state
    BY <1>5 DEF TypeInv
<1> QED BY <1>1, <1>2, <1>3, <1>4, <1>5, Zenon

\* The peer's steps are calm.
LEMMA PeerKeeps ==
    ASSUME TypeInv,
           \/ PeerOpensRequest \/ PeerTypes \/ PeerStops \/ ConnectionCloses
           \/ \E ty \in UniTypes, typed \in BOOLEAN : PeerOpensUni(ty, typed)
           \/ \E x \in ControlItems : PeerSends("control", x)
           \/ \E r \in {"encoder", "decoder"}, x \in QpackItems : PeerSends(r, x)
    PROVE  TypeInv' /\ Calm /\ codecs' = codecs
<1>0. Keeps(c, c)
    BY DEF Keeps, TypeInv
<1>1. CASE PeerOpensRequest
    <2>1. peer.requests \in Ids
        BY <1>1, H3BoundsAssumption DEF PeerOpensRequest, TypeInv, Ids
    <2>2. /\ tasks' \in [Ids -> TaskStates]
          /\ \A i \in Ids : tasks'[i] = tasks[i] \/ tasks'[i] = "opened"
        BY <1>1, <2>1 DEF PeerOpensRequest, TypeInv, TaskStates
    <2>3. peer' \in [requests : Nat, unis : Nat, items : Nat]
        BY <1>1, SMTT(30) DEF PeerOpensRequest, TypeInv
    <2> QED BY <1>0, <1>1, <2>2, <2>3, Zenon DEF PeerOpensRequest, Event, TypeInv, Calm
<1>2. CASE PeerTypes
    <2>1. [c.pending_uni EXCEPT !.typed = TRUE] \in Uni
        BY Zenon DEF TypeInv, Plane, Uni
    <2>2. c' = [c EXCEPT !.pending_uni = [c.pending_uni EXCEPT !.typed = TRUE]]
        BY <1>2 DEF PeerTypes, TypeInv, Plane
    <2>3. Keeps(c, c') /\ c' \in Plane
        BY <2>1, <2>2, Zenon DEF TypeInv, Keeps, Plane
    <2> QED BY <1>2, <2>3 DEF PeerTypes, Event, shared, TypeInv, Calm
<1>3. CASE PeerStops
    <2>1. Keeps(c, c') /\ c' \in Plane
        BY <1>3, Zenon DEF PeerStops, TypeInv, Keeps, Plane
    <2> QED BY <1>3, <2>1 DEF PeerStops, Event, shared, TypeInv, Calm
<1>4. CASE ConnectionCloses
    <2>1. Keeps(c, c') /\ c' \in Plane
        BY <1>4, Zenon DEF ConnectionCloses, TypeInv, Keeps, Plane
    <2> QED BY <1>4, <2>1 DEF ConnectionCloses, Event, shared, TypeInv, Calm
<1>5. ASSUME NEW ty \in UniTypes, NEW typed \in BOOLEAN, PeerOpensUni(ty, typed)
      PROVE  TypeInv' /\ Calm /\ codecs' = codecs
    <2>1. [type |-> ty, typed |-> typed /\ ty # "fin"] \in Uni
        BY DEF Uni
    <2>2. Append(c.unis, [type |-> ty, typed |-> typed /\ ty # "fin"]) \in Seq(Uni)
        BY <2>1 DEF TypeInv, Plane
    <2>3. Keeps(c, c') /\ c' \in Plane
        BY <1>5, <2>2, Zenon DEF PeerOpensUni, TypeInv, Keeps, Plane
    <2>4. peer' \in [requests : Nat, unis : Nat, items : Nat]
        <3>1. peer \in [requests : Nat, unis : Nat, items : Nat]
            BY DEF TypeInv
        <3> QED BY <1>5, <3>1 DEF PeerOpensUni
    <2> QED BY <1>5, <2>3, <2>4, Zenon DEF PeerOpensUni, Event, TypeInv, Calm
<1>6. ASSUME NEW r \in Roles, NEW x \in ControlItems \cup QpackItems, PeerSends(r, x)
      PROVE  TypeInv' /\ Calm /\ codecs' = codecs
    <2>1. [c.inbound EXCEPT ![r] = Append(c.inbound[r], x)]
            \in [Roles -> Seq(ControlItems \cup QpackItems)]
        <3>1. c.inbound \in [Roles -> Seq(ControlItems \cup QpackItems)]
            BY Zenon DEF TypeInv, Plane
        <3>2. Append(c.inbound[r], x) \in Seq(ControlItems \cup QpackItems)
            BY <3>1
        <3> QED BY <3>1, <3>2
    <2>2. c' = [c EXCEPT !.inbound = [c.inbound EXCEPT ![r] = Append(c.inbound[r], x)]]
        BY <1>6 DEF PeerSends, TypeInv, Plane
    <2>3. Keeps(c, c') /\ c' \in Plane
        BY <2>1, <2>2, Zenon DEF TypeInv, Keeps, Plane
    <2>4. peer' \in [requests : Nat, unis : Nat, items : Nat]
        <3>1. peer \in [requests : Nat, unis : Nat, items : Nat]
            BY DEF TypeInv
        <3> QED BY <1>6, <3>1 DEF PeerSends
    <2> QED BY <1>6, <2>3, <2>4, Zenon DEF PeerSends, Event, TypeInv, Calm
<1> QED BY <1>1, <1>2, <1>3, <1>4, <1>5, <1>6, Zenon DEF Roles
\* Nothing the peer, the timers, the application or the tasks do breaks the invariant.
LEMMA EnvironmentKeeps ==
    ASSUME DriverInv, Environment
    PROVE  DriverInv'
<1> USE DEF DriverInv
<1>0. Keeps(c, c)
    BY DEF Keeps, TypeInv
<1>1. ASSUME TypeInv', Calm, codecs' = codecs
      PROVE  DriverInv'
    BY <1>1, CalmKeeps, CalmStreams, Zenon
<1>2. CASE Writable
    BY <1>0, <1>1, <1>2, Zenon DEF Writable, Event, shared, TypeInv, Calm
<1>3. CASE Cancel
    BY <1>0, <1>1, <1>3, Zenon DEF Cancel, Event, TypeInv, Calm
<1>4. ASSUME NEW t \in {"accept", "backstop", "grace"}, TimerFires(t)
      PROVE  DriverInv'
    <2>1. timers \in [accept : TimerState, backstop : TimerState, grace : TimerState]
        BY DEF TypeInv
    <2>2. timers' \in [accept : TimerState, backstop : TimerState, grace : TimerState]
        BY <1>4, <2>1 DEF TimerFires, TimerState
    <2>3. timers'.grace # "off" => timers.grace # "off"
        BY <1>4, <2>1, Zenon DEF TimerFires
    <2>4. TypeInv' /\ codecs' = codecs
        BY <1>4, <2>2 DEF TimerFires, Event, shared, TypeInv
    <2>5. Calm
        BY <1>0, <1>4, <2>3, Zenon DEF TimerFires, Event, shared, Calm
    <2> QED BY <1>1, <2>4, <2>5, Zenon
<1>5. ASSUME NEW i \in Ids, TaskEncodes(i)
      PROVE  DriverInv'
    <2>1. Calm
        BY <1>0, <1>5 DEF TaskEncodes, Event, Calm
    <2>2. StreamsInv'
        BY <1>5, <2>1, EncodesKeeps DEF TaskEncodes, Event
    <2>3. codecs' \in [encoder_stream : Seq(Token), all : Seq(Token)]
        <3>1. codecs \in [encoder_stream : Seq(Token), all : Seq(Token)]
            BY DEF TypeInv
        <3>2. Len(codecs.all) + 1 \in Token
            BY <3>1 DEF Token
        <3>3. /\ Append(codecs.all, Len(codecs.all) + 1) \in Seq(Token)
              /\ Append(codecs.encoder_stream, Len(codecs.all) + 1) \in Seq(Token)
            BY <3>1, <3>2
        <3> QED BY <1>5, <3>1, <3>3, Zenon DEF TaskEncodes, Encodes
    <2>4. TypeInv'
        BY <1>5, <2>3 DEF TaskEncodes, Event, TypeInv
    <2> QED BY <2>1, <2>2, <2>4, CalmKeeps, Zenon
<1>6. ASSUME NEW i \in Ids, TaskReports(i)
      PROVE  DriverInv'
    <2>1. TypeInv'
        BY <1>6, Zenon DEF TaskReports, Event, shared, TypeInv, Errors
    <2>2. Calm /\ codecs' = codecs
        BY <1>0, <1>6 DEF TaskReports, Event, shared, Calm
    <2> QED BY <1>1, <2>1, <2>2
<1>7. ASSUME NEW i \in Ids, TaskEnds(i)
      PROVE  DriverInv'
    <2>1. tasks' \in [Ids -> TaskStates]
        BY <1>7 DEF TaskEnds, TypeInv, TaskStates
    <2>2. state' \in [local_error_resets : Nat, pending_accept_resets : Nat,
                      close_code : Errors]
        BY <1>7, EndedFacts DEF TaskEnds
    <2>3. TypeInv'
        BY <1>7, <2>1, <2>2, Zenon DEF TaskEnds, Event, shared, TypeInv
    <2>4. Calm /\ codecs' = codecs
        BY <1>0, <1>7 DEF TaskEnds, Event, shared, TypeInv, Calm
    <2> QED BY <1>1, <2>3, <2>4
<1>8. CASE \/ PeerOpensRequest \/ PeerTypes \/ PeerStops \/ ConnectionCloses
           \/ \E ty \in UniTypes, typed \in BOOLEAN : PeerOpensUni(ty, typed)
           \/ \E x \in ControlItems : PeerSends("control", x)
           \/ \E r \in {"encoder", "decoder"}, x \in QpackItems : PeerSends(r, x)
    BY <1>1, <1>8, PeerKeeps, Zenon
<1> QED BY <1>2, <1>3, <1>4, <1>5, <1>6, <1>7, <1>8, Zenon DEF Environment
-----------------------------------------------------------------------------
(* Before the loop. *)

\* Before the loop no GOAWAY is queued.
LEMMA NoGoawayYet ==
    ASSUME DriverInv, pc \in {"handshake", "init"}
    PROVE  c.goaway_sent = None /\ ~d.shutdown /\ timers.grace = "off" /\ ~d.control_dead
BY DEF DriverInv, GoawayInv, CloseInv, StreamsInv

\* poll_init opens the three streams in order, with nothing in them but their type.
LEMMA OpenUniKeeps ==
    ASSUME DriverInv, OpenUni
    PROVE  DriverInv'
<1> USE DEF DriverInv
<1>0. /\ pc = "init" /\ pc' = pc /\ d' = d /\ timers' = timers /\ tasks' = tasks
      /\ state' = state /\ result' = result /\ peer' = peer /\ codecs' = codecs
      /\ c' = open_uni(c) /\ c.opened < 3
    BY DEF OpenUni, shared
<1>1. c \in Plane /\ c.opened \in 0 .. 3
    BY Zenon DEF TypeInv, Plane
<1>2. \/ c.opened = 0 /\ c' = [c EXCEPT !.opened = 1, !.control_buf = <<"type", "settings">>]
      \/ c.opened = 1 /\ c' = [c EXCEPT !.opened = 2, !.encoder_pending = <<"type">>]
      \/ c.opened = 2 /\ c' = [c EXCEPT !.opened = 3, !.decoder_pending = <<"type">>]
    BY <1>0, <1>1 DEF open_uni
<1>3. <<"type">> \in Seq(Token) /\ <<"type", "settings">> \in Seq(Token)
    BY DEF Token
<1>4. /\ c' \in Plane /\ c'.goaway_sent = c.goaway_sent /\ c'.wire = c.wire
      /\ c.opened = 1 => c'.encoder_pending = <<"type">>
      /\ c.opened # 1 => c'.encoder_pending = c.encoder_pending
      /\ c'.opened = c.opened + 1
    <2>0. 1 \in 0 .. 3 /\ 2 \in 0 .. 3 /\ 3 \in 0 .. 3
        OBVIOUS
    <2>1. ASSUME NEW a \in Seq(Token), c' = [c EXCEPT !.opened = 1, !.control_buf = a]
          PROVE  /\ c' \in Plane /\ c'.goaway_sent = c.goaway_sent /\ c'.wire = c.wire
                 /\ c'.encoder_pending = c.encoder_pending /\ c'.opened = 1
        BY <1>1, <2>0, <2>1, Zenon DEF Plane
    <2>2. ASSUME NEW a \in Seq(Token), c' = [c EXCEPT !.opened = 2, !.encoder_pending = a]
          PROVE  /\ c' \in Plane /\ c'.goaway_sent = c.goaway_sent /\ c'.wire = c.wire
                 /\ c'.encoder_pending = a /\ c'.opened = 2
        BY <1>1, <2>0, <2>2, Zenon DEF Plane
    <2>3. ASSUME NEW a \in Seq(Token), c' = [c EXCEPT !.opened = 3, !.decoder_pending = a]
          PROVE  /\ c' \in Plane /\ c'.goaway_sent = c.goaway_sent /\ c'.wire = c.wire
                 /\ c'.encoder_pending = c.encoder_pending /\ c'.opened = 3
        BY <1>1, <2>0, <2>3, Zenon DEF Plane
    <2>4. CASE c.opened = 0
        <3>1. c' = [c EXCEPT !.opened = 1, !.control_buf = <<"type", "settings">>]
            BY <1>2, <2>4
        <3>2. /\ c' \in Plane /\ c'.goaway_sent = c.goaway_sent /\ c'.wire = c.wire
              /\ c'.encoder_pending = c.encoder_pending /\ c'.opened = 1
            BY <1>3, <2>1, <3>1, Zenon
        <3> QED BY <2>4, <3>2
    <2>5. CASE c.opened = 1
        <3>1. c' = [c EXCEPT !.opened = 2, !.encoder_pending = <<"type">>]
            BY <1>2, <2>5
        <3>2. /\ c' \in Plane /\ c'.goaway_sent = c.goaway_sent /\ c'.wire = c.wire
              /\ c'.encoder_pending = <<"type">> /\ c'.opened = 2
            BY <1>3, <2>2, <3>1, Zenon
        <3> QED BY <2>5, <3>2
    <2>6. CASE c.opened = 2
        <3>1. c' = [c EXCEPT !.opened = 3, !.decoder_pending = <<"type">>]
            BY <1>2, <2>6
        <3>2. /\ c' \in Plane /\ c'.goaway_sent = c.goaway_sent /\ c'.wire = c.wire
              /\ c'.encoder_pending = c.encoder_pending /\ c'.opened = 3
            BY <1>3, <2>3, <3>1, Zenon
        <3> QED BY <2>6, <3>2
    <2> QED BY <1>2, <2>4, <2>5, <2>6, Zenon
<1>5. TypeInv'
    BY <1>0, <1>4, Zenon DEF TypeInv
<1>6. GoawayInv' /\ CloseInv'
    <2>1. c'.goaway_sent = None /\ ~d'.shutdown /\ result'.code = "none"
        BY <1>0, <1>4, NoGoawayYet, Zenon DEF CloseInv
    <2>2. GoawayTruthful' /\ CloseIsClean'
        BY <1>0, <1>4, <2>1, Zenon DEF GoawayInv, GoawayTruthful, CloseIsClean
    <2> QED BY <1>0, <1>4, <2>1, <2>2, Zenon DEF GoawayInv, CloseInv
<1>7. InstructionsInOrder'
    <2>1. /\ codecs'.encoder_stream = <<>> /\ codecs'.all = <<>>
          /\ codecs.encoder_stream = <<>> /\ codecs.all = <<>>
        BY <1>0, Zenon DEF StreamsInv
    <2>2. CASE c.opened = 0
        BY <1>4, <2>2 DEF InstructionsInOrder
    <2>3. CASE c.opened = 1
        <3>1. c'.wire["encoder"] = <<>> /\ c'.encoder_pending = <<"type">>
            BY <1>4, <2>3 DEF StreamsInv
        <3>2. <<>> \o <<"type">> \o <<>> = <<"type">> \o <<>>
            BY <1>3
        <3> QED BY <2>1, <3>1, <3>2, Zenon DEF InstructionsInOrder
    <2>4. CASE c.opened = 2
        <3>1. c'.encoder_pending = c.encoder_pending /\ c'.wire = c.wire
            BY <1>4, <2>4
        <3>2. c.opened >= 2
            BY <2>4
        <3> QED BY <1>0, <3>1, <3>2, Zenon DEF StreamsInv, InstructionsInOrder
    <2>5. c.opened \in {0, 1, 2}
        BY <1>0, <1>1
    <2> QED BY <2>2, <2>3, <2>4, <2>5, Zenon
<1>8. StreamsInv'
    BY <1>0, <1>1, <1>4, <1>7 DEF StreamsInv
<1> QED BY <1>5, <1>6, <1>8, Zenon
-----------------------------------------------------------------------------
(* The driver's own steps. *)

\* A step that queues no GOAWAY and accepts nothing, and goes to the next section of the
\* loop with what that section relies on.
Section ==
    /\ c'.goaway_sent = c.goaway_sent /\ (Announcing(c) => Announcing(c'))
    /\ tasks' = tasks /\ d'.last_request_id = d.last_request_id
    /\ (d.shutdown => d'.shutdown) /\ (d'.control_dead => d'.shutdown)
    /\ timers'.grace = timers.grace
    /\ (pc' = "accept" /\ d'.shutdown => c.goaway_sent # None)
    /\ (pc' \in {"flush", "read", "shutdown", "accept"} => state'.close_code = "none")
    /\ (pc' \in {"read", "shutdown"} /\ c.goaway_sent # None =>
            Announced(c') \/ d'.control_dead \/ d'.flush_pending)
    /\ result'.code # "no_error" /\ (result'.code # "none" => pc' = "returned")

\* Such a step keeps what was announced.
LEMMA SectionKeeps ==
    ASSUME GoawayInv, CloseInv, Section
    PROVE  GoawayInv' /\ CloseInv'
<1>1. GoawayTruthful'
    BY Zenon DEF GoawayInv, GoawayTruthful, Section
<1>2. GoawayInv'
    BY <1>1, Zenon DEF GoawayInv, Section
<1>3. CloseIsClean'
    BY Zenon DEF CloseIsClean, Section
<1> QED BY <1>2, <1>3, Zenon DEF CloseInv, Section

\* A step in the loop that moves instructions along their way, and no further, keeps them
\* in order.
LEMMA SectionStreams ==
    ASSUME StreamsInv, c.opened = 3, SameOut(c, c'), codecs' = codecs,
           pc' \notin {"handshake", "init"} \/ (pc = "init" /\ d' = d)
    PROVE  StreamsInv'
<1>1. c'.opened = 3 /\ c'.wire["encoder"] \o c'.encoder_pending = c.wire["encoder"] \o c.encoder_pending
    BY DEF SameOut, Pipeline
<1>2. c.opened >= 2
    OBVIOUS
<1>3. InstructionsInOrder'
    <2>1. c.wire["encoder"] \o c.encoder_pending \o codecs.encoder_stream = <<"type">> \o codecs.all
        BY <1>2, Zenon DEF StreamsInv, InstructionsInOrder
    <2>2. c'.wire["encoder"] \o c'.encoder_pending \o codecs'.encoder_stream
            = <<"type">> \o codecs'.all
        BY <1>1, <2>1, Zenon
    <2> QED BY <2>2 DEF InstructionsInOrder
<1> QED BY <1>1, <1>3 DEF StreamsInv

\* A plane that keeps its outbound half has the same things under way.
LEMMA KeepsIsSameOut ==
    ASSUME NEW cc, NEW k, Keeps(cc, k)
    PROVE  /\ SameOut(cc, k)
           /\ Announced(k) <=> Announced(cc)
BY DEF Keeps, SameOut, Pipeline, Announcing, Announced

\* In the loop nothing has been returned, and all streams are open.
LEMMA InLoop ==
    ASSUME DriverInv, pc \notin {"handshake", "init", "returned"}
    PROVE  c.opened = 3 /\ result.code = "none"
BY DEF DriverInv, StreamsInv, CloseInv

\* The handshake changes nothing the invariant is about.
LEMMA HandshakeKeeps ==
    ASSUME DriverInv, HandshakeCompletes \/ HandshakeTimesOut
    PROVE  DriverInv'
<1> USE DEF DriverInv
<1>0. /\ pc = "handshake" /\ c' = c /\ d' = d /\ timers' = timers /\ tasks' = tasks
      /\ state' = state /\ peer' = peer /\ codecs' = codecs
      /\ \/ pc' = "init" /\ result' = result
         \/ pc' = "returned" /\ result' = [ret |-> "timeout", code |-> "none"]
    BY DEF HandshakeCompletes, HandshakeTimesOut, Goto, Returns, shared
<1>1. result.code = "none" /\ result'.code = "none"
    BY <1>0 DEF CloseInv
<1>2. Section
    <2>1. Announcing(c) => Announcing(c')
        BY <1>0, Zenon
    <2>2. d.control_dead => d.shutdown
        BY DEF CloseInv
    <2> QED BY <1>0, <1>1, <2>1, <2>2, Zenon DEF Section
<1>3. StreamsInv'
    BY <1>0, Zenon DEF StreamsInv, InstructionsInOrder
<1>4. TypeInv'
    BY <1>0 DEF TypeInv, Places, Codes, Errors
<1> QED BY <1>2, <1>3, <1>4, SectionKeeps, Zenon

\* The types and SETTINGS are flushed before the loop starts.
LEMMA FlushInitKeeps ==
    ASSUME DriverInv, FlushInit
    PROVE  DriverInv'
<1> USE DEF DriverInv
<1>0. /\ pc = "init" /\ c.opened = 3 /\ d' = d /\ timers' = timers /\ tasks' = tasks
      /\ state' = state /\ peer' = peer /\ codecs' = codecs
      /\ \/ pc' \in {"top", "init"} /\ result' = result
         \/ pc' = "returned" /\ result' = [ret |-> "error", code |-> "none"]
    BY DEF FlushInit, Goto, Returns, shared
<1>1. result.code = "none" /\ result'.code = "none" /\ c \in Plane
    BY <1>0 DEF CloseInv, TypeInv
<1>2. PICK f \in poll_flush(c) : c' = f.c
    BY DEF FlushInit
<1>3. SameOut(c, c') /\ c' \in Plane
    BY <1>1, <1>2, FlushFacts, Zenon DEF SameOut
<1>4. Section
    <2>1. c'.goaway_sent = c.goaway_sent /\ (Announcing(c) => Announcing(c'))
        BY <1>3 DEF SameOut
    <2>2. d.control_dead => d.shutdown
        BY DEF CloseInv
    <2> QED BY <1>0, <1>1, <2>1, <2>2, Zenon DEF Section
<1>5. StreamsInv'
    BY <1>0, <1>3, SectionStreams, Zenon
<1>6. TypeInv'
    BY <1>0, <1>3 DEF TypeInv, Places, Codes, Errors
<1> QED BY <1>4, <1>5, <1>6, SectionKeeps, Zenon
\* Taking a recorded error and the triggers of the graceful shutdown only ever start one.
LEMMA TriggerFacts ==
    ASSUME TypeInv, NEW code \in Errors
    PROVE  LET t == Triggered(Taken(d, code))
           IN  /\ t \in Locals
               /\ t.last_request_id = d.last_request_id
               /\ d.shutdown => t.shutdown
               /\ t.control_dead => d.control_dead \/ t.shutdown
<1> DEFINE k == Taken(d, code)
           t == Triggered(k)
<1>1. d \in Locals
    BY DEF TypeInv
<1>2. /\ k \in Locals /\ k.last_request_id = d.last_request_id /\ (d.shutdown => k.shutdown)
      /\ (k.control_dead => d.control_dead \/ k.shutdown)
    BY <1>1, Zenon DEF Taken, Locals
<1> HIDE DEF k
<1>3. \/ t = k
      \/ t = [k EXCEPT !.shutdown = TRUE, !.outcome = "ok"]
      \/ t = [k EXCEPT !.shutdown = TRUE, !.outcome = "timeout"]
    BY DEF Triggered
<1> HIDE DEF t
<1>4. /\ t \in Locals /\ t.last_request_id = k.last_request_id /\ (k.shutdown => t.shutdown)
      /\ (t.control_dead => k.control_dead)
    BY <1>2, <1>3, Zenon DEF Locals
<1> QED BY <1>2, <1>4, Zenon DEF t, k

\* The top of the loop.
LEMMA TopKeeps ==
    ASSUME DriverInv, Top
    PROVE  DriverInv'
<1> USE DEF DriverInv
<1>0. /\ pc \in {"top", "parked"} /\ pc' = "flush" /\ result' = result /\ c' = c
      /\ tasks' = tasks /\ peer' = peer /\ codecs' = codecs
      /\ d' = Triggered(Taken(d, state.close_code)) /\ timers' = Rearmed(timers)
      /\ state' = [state EXCEPT !.close_code = "none"]
    BY DEF Top, Goto, shared
<1>1. c.opened = 3 /\ result.code = "none"
    BY <1>0, InLoop, Zenon
<1>2. state.close_code \in Errors
    BY DEF TypeInv
<1>3. /\ d' \in Locals
      /\ d'.last_request_id = d.last_request_id /\ (d.shutdown => d'.shutdown)
      /\ (d'.control_dead => d.control_dead \/ d'.shutdown)
    BY <1>0, <1>2, TriggerFacts, Zenon
<1>4. /\ timers' \in [accept : TimerState, backstop : TimerState, grace : TimerState]
      /\ timers'.grace = timers.grace
    <2>1. timers \in [accept : TimerState, backstop : TimerState, grace : TimerState]
        BY DEF TypeInv
    <2>2. Window(timers.accept) \in TimerState
        BY <2>1 DEF Window, TimerState
    <2> QED BY <1>0, <2>1, <2>2, Zenon DEF Rearmed, TimerState
<1>5. /\ state' \in [local_error_resets : Nat, pending_accept_resets : Nat,
                     close_code : Errors]
      /\ state'.close_code = "none"
    BY <1>0, Zenon DEF TypeInv, Errors
<1>6. Section
    <2>1. Announcing(c) => Announcing(c')
        BY <1>0, Zenon
    <2>2. d'.control_dead => d'.shutdown
        BY <1>3 DEF CloseInv
    <2> QED BY <1>0, <1>1, <1>3, <1>4, <1>5, <2>1, <2>2, Zenon DEF Section
<1>7. SameOut(c, c')
    BY <1>0 DEF TypeInv, SameOut, Pipeline
<1>8. StreamsInv'
    BY <1>0, <1>1, <1>7, SectionStreams, Zenon
<1>9. TypeInv'
    BY <1>0, <1>3, <1>4, <1>5, Zenon DEF TypeInv, Places
<1> QED BY <1>6, <1>8, <1>9, SectionKeeps, Zenon

\* The tasks' instructions join the control plane's queue, and nothing else changes.
LEMMA QueueFacts ==
    ASSUME TypeInv
    PROVE  LET k == queue_encoder_streams(c, codecs.encoder_stream)
           IN  /\ k \in Plane /\ k.opened = c.opened /\ k.goaway_sent = c.goaway_sent
               /\ k.wire = c.wire /\ k.control_buf = c.control_buf
               /\ Pipeline(k) = Pipeline(c) \o codecs.encoder_stream
<1> DEFINE k == queue_encoder_streams(c, codecs.encoder_stream)
           q == c.encoder_pending \o codecs.encoder_stream
<1>1. /\ c.wire["encoder"] \in Seq(Token) /\ c.encoder_pending \in Seq(Token)
      /\ codecs.encoder_stream \in Seq(Token)
    BY DEF TypeInv, Plane, Roles
<1>2. q \in Seq(Token)
    BY <1>1
<1>3. c.wire["encoder"] \o q = (c.wire["encoder"] \o c.encoder_pending) \o codecs.encoder_stream
    <2>1. \A x, y, z \in Seq(Token) : x \o (y \o z) = (x \o y) \o z
        BY ConcatAssociative, SMTT(60)
    <2> QED BY <1>1, <2>1, Zenon
<1>4. k = [c EXCEPT !.encoder_pending = q]
    BY DEF queue_encoder_streams, TypeInv, Plane
<1> HIDE DEF k, q
<1>5. /\ k \in Plane /\ k.opened = c.opened /\ k.goaway_sent = c.goaway_sent
      /\ k.wire = c.wire /\ k.control_buf = c.control_buf /\ k.encoder_pending = q
    BY <1>2, <1>4, Zenon DEF TypeInv, Plane
<1> QED BY <1>3, <1>5, Zenon DEF Pipeline, k
\* Instructions that leave the tasks' queue are in the control plane's.
LEMMA QueuedStreams ==
    ASSUME TypeInv, StreamsInv, c.opened = 3, c' \in Plane, c'.opened = 3,
           c'.wire["encoder"] \o c'.encoder_pending = Pipeline(c) \o codecs.encoder_stream,
           codecs' = [codecs EXCEPT !.encoder_stream = <<>>],
           pc' \notin {"handshake", "init"}
    PROVE  StreamsInv' /\ codecs' \in [encoder_stream : Seq(Token), all : Seq(Token)]
<1> DEFINE q == c'.wire["encoder"] \o c'.encoder_pending
<1>1. /\ codecs'.encoder_stream = <<>> /\ codecs'.all = codecs.all
      /\ codecs' \in [encoder_stream : Seq(Token), all : Seq(Token)]
    <2>1. codecs \in [encoder_stream : Seq(Token), all : Seq(Token)]
        BY DEF TypeInv
    <2> QED BY <2>1, EmptySeq, Zenon
<1>2. q \in Seq(Token)
    <2>1. c'.wire["encoder"] \in Seq(Token) /\ c'.encoder_pending \in Seq(Token)
        BY DEF Plane, Roles
    <2>2. \A x, y \in Seq(Token) : x \o y \in Seq(Token)
        OBVIOUS
    <2> QED BY <2>1, <2>2, Zenon
<1>3. c.opened >= 2
    OBVIOUS
<1>4. q = <<"type">> \o codecs.all
    BY <1>3, Zenon DEF StreamsInv, InstructionsInOrder, Pipeline
<1>5. q \o <<>> = q
    <2> HIDE DEF q
    <2> QED BY <1>2
<1>6. q \o codecs'.encoder_stream = <<"type">> \o codecs'.all
    <2> HIDE DEF q
    <2> QED BY <1>1, <1>4, <1>5, Zenon
<1>7. InstructionsInOrder'
    BY <1>6 DEF InstructionsInOrder
<1> QED BY <1>1, <1>7 DEF StreamsInv

\* A control error, whatever it is, is the code of the close or comes during a shutdown.
LEMMA ControlFailedFacts ==
    ASSUME NEW dd \in Locals,
           NEW err \in Errors
    PROVE  LET k == ControlFailed(dd, err)
           IN  /\ k \in Locals
               /\ k.last_request_id = dd.last_request_id
               /\ k.shutdown = TRUE /\ k.control_dead = TRUE
BY Zenon DEF ControlFailed, Locals

\* The queue of the tasks is drained into the control plane, and that flushed.
LEMMA FlushKeeps ==
    ASSUME DriverInv, Flush
    PROVE  DriverInv'
<1> USE DEF DriverInv
<1> DEFINE k == queue_encoder_streams(c, codecs.encoder_stream)
<1>0. /\ pc = "flush" /\ pc' = "read" /\ result' = result /\ timers' = timers
      /\ tasks' = tasks /\ state' = state /\ peer' = peer
      /\ codecs' = [codecs EXCEPT !.encoder_stream = <<>>]
    BY DEF Flush, Goto
<1>1. c.opened = 3 /\ result.code = "none" /\ state.close_code = "none"
    BY <1>0, InLoop DEF CloseInv
<1>2. PICK f \in poll_flush(k) :
        /\ c' = f.c
        /\ d' = IF f.r = "transport"
                THEN ControlFailed([d EXCEPT !.flush_pending = (f.r = "pending")], f.r)
                ELSE [d EXCEPT !.flush_pending = (f.r = "pending")]
    BY Zenon DEF Flush
<1>3. /\ k \in Plane /\ k.opened = c.opened /\ k.goaway_sent = c.goaway_sent
      /\ Pipeline(k) = Pipeline(c) \o codecs.encoder_stream
      /\ Announcing(k) <=> Announcing(c)
    BY QueueFacts DEF Announcing, Announced
<1> HIDE DEF k
<1>4. /\ SameOut(k, c') /\ f.r \in {"ok", "pending", "transport"}
      /\ f.r = "ok" => (Announced(c') <=> Announcing(k))
    BY <1>2, <1>3, FlushFacts, Zenon
<1>5. /\ c' \in Plane /\ c'.opened = 3 /\ c'.goaway_sent = c.goaway_sent
      /\ c'.wire["encoder"] \o c'.encoder_pending = Pipeline(c) \o codecs.encoder_stream
      /\ Announcing(c') <=> Announcing(c)
    BY <1>1, <1>3, <1>4, Zenon DEF SameOut
<1>6. StreamsInv' /\ codecs' \in [encoder_stream : Seq(Token), all : Seq(Token)]
    BY <1>0, <1>1, <1>5, QueuedStreams, Zenon
<1> DEFINE dd == [d EXCEPT !.flush_pending = (f.r = "pending")]
<1>7. /\ dd \in Locals /\ dd.last_request_id = d.last_request_id /\ dd.shutdown = d.shutdown
      /\ dd.control_dead = d.control_dead /\ dd.flush_pending = (f.r = "pending")
    <2>1. d \in Locals
        BY DEF TypeInv
    <2> QED BY <2>1, Zenon DEF Locals
<1>8. /\ d' \in Locals /\ d'.last_request_id = d.last_request_id /\ (d.shutdown => d'.shutdown)
      /\ (d'.control_dead => d'.shutdown)
      /\ (f.r = "transport" => d'.control_dead) /\ (f.r = "pending" => d'.flush_pending)
    <2>1. CASE f.r = "transport"
        <3>1. d' = ControlFailed(dd, "transport") /\ "transport" \in Errors
            BY <1>2, <2>1 DEF Errors
        <3> HIDE DEF dd
        <3>2. /\ d' \in Locals /\ d'.last_request_id = dd.last_request_id
              /\ d'.shutdown = TRUE /\ d'.control_dead = TRUE
            BY <1>7, <3>1, ControlFailedFacts, Zenon
        <3> QED BY <1>7, <2>1, <3>2, Zenon
    <2>2. CASE f.r # "transport"
        <3>1. d' = dd
            BY <1>2, <2>2, Zenon
        <3> HIDE DEF dd
        <3>2. d.control_dead => d.shutdown
            BY DEF CloseInv
        <3> QED BY <1>7, <2>2, <3>1, <3>2, Zenon
    <2> QED BY <2>1, <2>2, Zenon
<1>9. Section
    <2>1. c.goaway_sent # None => Announcing(c)
        BY DEF GoawayInv
    <2>2. c.goaway_sent # None => Announced(c') \/ d'.control_dead \/ d'.flush_pending
        BY <1>3, <1>4, <1>8, <2>1, Zenon
    <2> QED BY <1>0, <1>1, <1>5, <1>8, <2>2, Zenon DEF Section
<1>10. TypeInv'
    BY <1>0, <1>5, <1>6, <1>8, Zenon DEF TypeInv, Places
<1> QED BY <1>6, <1>9, <1>10, SectionKeeps, Zenon

\* A dead control plane is not flushed.
LEMMA FlushNothingKeeps ==
    ASSUME DriverInv, FlushNothing
    PROVE  DriverInv'
<1> USE DEF DriverInv
<1>0. /\ pc = "flush" /\ pc' = "shutdown" /\ result' = result /\ timers' = timers
      /\ tasks' = tasks /\ state' = state /\ peer' = peer /\ d.control_dead
      /\ codecs' = [codecs EXCEPT !.encoder_stream = <<>>]
      /\ d' = [d EXCEPT !.flush_pending = FALSE]
      /\ c' = queue_encoder_streams(c, codecs.encoder_stream)
    BY DEF FlushNothing, Goto
<1>1. c.opened = 3 /\ result.code = "none" /\ state.close_code = "none"
    BY <1>0, InLoop, Zenon DEF CloseInv
<1>2. /\ c' \in Plane /\ c'.opened = c.opened /\ c'.goaway_sent = c.goaway_sent
      /\ c'.wire = c.wire /\ c'.control_buf = c.control_buf
      /\ c'.wire["encoder"] \o c'.encoder_pending = Pipeline(c) \o codecs.encoder_stream
    BY <1>0, QueueFacts, Zenon DEF Pipeline
<1>3. Announcing(c) => Announcing(c')
    BY <1>2 DEF Announcing, Announced
<1>4. /\ d' \in Locals
      /\ d'.last_request_id = d.last_request_id /\ d'.shutdown /\ d'.control_dead
    BY <1>0, Zenon DEF TypeInv, CloseInv, Locals
<1>5. Section
    BY <1>0, <1>1, <1>2, <1>3, <1>4, Zenon DEF Section
<1>6. StreamsInv' /\ codecs' \in [encoder_stream : Seq(Token), all : Seq(Token)]
    BY <1>0, <1>1, <1>2, QueuedStreams, Zenon
<1>7. TypeInv'
    BY <1>0, <1>2, <1>4, <1>6, Zenon DEF TypeInv, Places
<1> QED BY <1>5, <1>6, <1>7, SectionKeeps, Zenon
\* One source of the control plane is served.
LEMMA ReadOneKeeps ==
    ASSUME DriverInv, ReadOne
    PROVE  DriverInv'
<1> USE DEF DriverInv
<1>0. /\ pc = "read" /\ pc' = pc /\ result' = result /\ timers' = timers
      /\ tasks' = tasks /\ state' = state /\ peer' = peer /\ codecs' = codecs
    BY Zenon DEF ReadOne, shared
<1>1. c.opened = 3 /\ result.code = "none" /\ state.close_code = "none" /\ c \in Plane /\ d \in Locals
    BY <1>0, InLoop, Zenon DEF CloseInv, TypeInv
<1>2. PICK i \in Busy :
        /\ c' = poll_read(c, Sources[i]).c
        /\ d' = IF poll_read(c, Sources[i]).r = "ok"
                THEN [d EXCEPT !.source = i + 1, !.progressed = TRUE]
                ELSE ControlFailed(d, poll_read(c, Sources[i]).r)
    BY Zenon DEF ReadOne
<1> DEFINE r == poll_read(c, Sources[i]).r
<1>3. /\ Keeps(c, c') /\ r \in Errors \cup {"ok", "idle"}
    BY <1>1, <1>2, ReadFacts, Zenon
<1>4. i \in Nat /\ r # "idle"
    <2>1. d.source \in Nat /\ Len(Sources) \in Nat
        BY <1>1 DEF Sources, Locals
    <2> QED BY <2>1 DEF Busy
<1> HIDE DEF r
<1>5. /\ d' \in Locals /\ d'.last_request_id = d.last_request_id
      /\ \/ d'.shutdown = d.shutdown /\ d'.control_dead = d.control_dead
            /\ d'.flush_pending = d.flush_pending
         \/ d'.shutdown = TRUE /\ d'.control_dead = TRUE
    <2>1. CASE r = "ok"
        <3>1. d' = [d EXCEPT !.source = i + 1, !.progressed = TRUE]
            BY <1>2, <2>1, Zenon DEF r
        <3>2. i + 1 \in Nat
            BY <1>4
        <3> QED BY <1>1, <3>1, <3>2, Zenon DEF Locals
    <2>2. CASE r # "ok"
        <3>1. d' = ControlFailed(d, r) /\ r \in Errors
            BY <1>2, <1>3, <1>4, <2>2 DEF r
        <3> QED BY <1>1, <3>1, ControlFailedFacts, Zenon
    <2> QED BY <2>1, <2>2, Zenon
<1>6. SameOut(c, c') /\ (Announced(c') <=> Announced(c))
    BY <1>3, KeepsIsSameOut, Zenon
<1>7. Section
    <2>1. c'.goaway_sent = c.goaway_sent /\ (Announcing(c) => Announcing(c'))
        BY <1>6, Zenon DEF SameOut
    <2>2. (d.shutdown => d'.shutdown) /\ (d'.control_dead => d'.shutdown)
        BY <1>5, Zenon DEF CloseInv
    <2>3. c.goaway_sent # None => Announced(c') \/ d'.control_dead \/ d'.flush_pending
        BY <1>0, <1>5, <1>6, Zenon DEF CloseInv
    <2> QED BY <1>0, <1>1, <1>5, <2>1, <2>2, <2>3, Zenon DEF Section
<1>8. StreamsInv'
    BY <1>0, <1>1, <1>6, SectionStreams, Zenon
<1>9. TypeInv'
    BY <1>0, <1>3, <1>5, Zenon DEF TypeInv, Keeps
<1> QED BY <1>7, <1>8, <1>9, SectionKeeps, Zenon

\* The round is over: the peer's GOAWAY starts a shutdown, or the loop goes on.
LEMMA ReadOverKeeps ==
    ASSUME DriverInv, ReadAgain \/ ReadNothing
    PROVE  DriverInv'
<1> USE DEF DriverInv
<1>0. /\ pc = "read" /\ result' = result /\ timers' = timers
      /\ tasks' = tasks /\ state' = state /\ peer' = peer /\ codecs' = codecs
      /\ \/ pc' = pc \/ pc' = IF d.shutdown THEN "shutdown" ELSE "accept"
    BY Zenon DEF ReadAgain, ReadNothing, Goto, shared
<1>1. c.opened = 3 /\ result.code = "none" /\ state.close_code = "none" /\ c \in Plane /\ d \in Locals
    BY <1>0, InLoop, Zenon DEF CloseInv, TypeInv
<1>2. Keeps(c, c')
    <2>1. CASE c' = [c EXCEPT !.goaway_event = FALSE]
        BY <1>1, <2>1, Zenon DEF Keeps, Plane
    <2>2. CASE c' = c
        BY <1>1, <2>2, Zenon DEF Keeps
    <2> QED BY <2>1, <2>2, Zenon DEF ReadAgain, ReadNothing
<1>3. /\ d' \in Locals /\ d'.last_request_id = d.last_request_id
      /\ d'.control_dead = d.control_dead /\ d'.flush_pending = d.flush_pending
      /\ d.shutdown => d'.shutdown
      /\ pc' = "accept" => ~d'.shutdown
    <2>1. CASE ReadAgain
        <3>1. c.goaway_event \in BOOLEAN
            BY <1>1 DEF Plane
        <3>2. pc' = "read"
            BY <1>0, <2>1 DEF ReadAgain
        <3> QED BY <1>1, <2>1, <3>1, <3>2, Zenon DEF ReadAgain, Locals
    <2>2. CASE ReadNothing
        <3>1. /\ d' = [d EXCEPT !.source = 1, !.progressed = FALSE]
              /\ pc' = IF d.shutdown THEN "shutdown" ELSE "accept"
            BY <2>2 DEF ReadNothing, Goto
        <3> QED BY <1>1, <3>1, Zenon DEF Locals
    <2> QED BY <2>1, <2>2, Zenon
<1>6. SameOut(c, c') /\ (Announced(c') <=> Announced(c))
    BY <1>2, KeepsIsSameOut, Zenon
<1>7. Section
    <2>1. c'.goaway_sent = c.goaway_sent /\ (Announcing(c) => Announcing(c'))
        BY <1>6, Zenon DEF SameOut
    <2>2. d'.control_dead => d'.shutdown
        BY <1>3, Zenon DEF CloseInv
    <2>3. c.goaway_sent # None => Announced(c') \/ d'.control_dead \/ d'.flush_pending
        BY <1>0, <1>3, <1>6, Zenon DEF CloseInv
    <2> QED BY <1>0, <1>1, <1>3, <2>1, <2>2, <2>3, Zenon DEF Section
<1>8. StreamsInv'
    BY <1>0, <1>1, <1>6, SectionStreams, Zenon
<1>9. TypeInv'
    BY <1>0, <1>2, <1>3, Zenon DEF TypeInv, Keeps, Places
<1> QED BY <1>7, <1>8, <1>9, SectionKeeps, Zenon

\* The queued GOAWAY names the last request that was accepted; a second one is not queued.
LEMMA SendGoawayFacts ==
    ASSUME NEW cc \in Plane, NEW id \in Nat
    PROVE  LET k == send_goaway(cc, id)
           IN  /\ k \in Plane /\ k.opened = cc.opened /\ k.wire = cc.wire
               /\ k.encoder_pending = cc.encoder_pending
               /\ cc.goaway_sent # None => k = cc
               /\ cc.goaway_sent = None => k.goaway_sent = id /\ Announcing(k)
<1>1. CASE cc.goaway_sent # None
    BY <1>1, Zenon DEF send_goaway, None
<1>2. CASE cc.goaway_sent = None
    <2> DEFINE k == send_goaway(cc, id)
               b == Append(cc.control_buf, "goaway")
    <2>1. cc.control_buf \in Seq(Token) /\ "goaway" \in Token
        BY DEF Plane, Token
    <2>2. b \in Seq(Token) /\ "goaway" \in ToSet(b)
        <3>1. b \in Seq(Token) /\ Len(b) = Len(cc.control_buf) + 1 /\ b[Len(b)] = "goaway"
            BY <2>1
        <3>2. Len(b) \in DOMAIN b
            BY <2>1, <3>1
        <3> QED BY <3>1, <3>2, Zenon DEF ToSet
    <2>3. k = [cc EXCEPT !.control_buf = b, !.goaway_sent = id]
        BY <1>2 DEF send_goaway, None, Plane
    <2> HIDE DEF k, b
    <2>4. /\ k \in Plane /\ k.opened = cc.opened /\ k.wire = cc.wire
          /\ k.encoder_pending = cc.encoder_pending /\ k.goaway_sent = id
          /\ k.control_buf = b
        <3>1. id \in Int
            OBVIOUS
        <3> QED BY <2>2, <2>3, <3>1, Zenon DEF Plane
    <2> QED BY <1>2, <2>2, <2>4, Zenon DEF Announcing, k
<1> QED BY <1>1, <1>2, Zenon

\* A GOAWAY queued in a shutdown keeps the promises of GOAWAY.
LEMMA GoawayQueued ==
    ASSUME DriverInv, d.shutdown, d' = d, tasks' = tasks,
           c' = send_goaway(c, d.last_request_id)
    PROVE  /\ GoawayInv' /\ c' \in Plane /\ c'.goaway_sent # None
           /\ c'.opened = c.opened /\ c'.wire = c.wire
           /\ c'.encoder_pending = c.encoder_pending
           /\ c.goaway_sent # None => c' = c
<1> USE DEF DriverInv
<1>1. c \in Plane /\ d.last_request_id \in Nat
    BY DEF TypeInv, Locals
<1>2. /\ c' \in Plane /\ c'.opened = c.opened /\ c'.wire = c.wire
      /\ c'.encoder_pending = c.encoder_pending
      /\ c.goaway_sent # None => c' = c
      /\ c.goaway_sent = None => c'.goaway_sent = d.last_request_id /\ Announcing(c')
    BY <1>1, SendGoawayFacts, Zenon
<1>3. CASE c.goaway_sent # None
    <2>1. c' = c
        BY <1>2, <1>3, Zenon
    <2>2. Announcing(c')
        BY <1>3, <2>1, Zenon DEF GoawayInv
    <2>3. GoawayTruthful'
        BY <2>1, Zenon DEF GoawayInv, GoawayTruthful
    <2> QED BY <1>2, <1>3, <2>1, <2>2, <2>3, Zenon DEF GoawayInv
<1>4. CASE c.goaway_sent = None
    <2>1. c'.goaway_sent = d.last_request_id /\ Announcing(c') /\ c'.goaway_sent # None
        BY <1>1, <1>2, <1>4 DEF None
    <2>2. GoawayTruthful'
        BY <1>4, <2>1, Zenon DEF GoawayInv, GoawayTruthful
    <2> QED BY <1>2, <1>4, <2>1, <2>2, Zenon DEF GoawayInv
<1> QED BY <1>3, <1>4, Zenon
\* GOAWAY, and the drain goes on.
LEMMA DrainKeeps ==
    ASSUME DriverInv, Drain
    PROVE  DriverInv'
<1> USE DEF DriverInv
<1>0. /\ pc = "shutdown" /\ pc' = "accept" /\ result' = result /\ d.shutdown /\ d' = d
      /\ tasks' = tasks /\ state' = state /\ peer' = peer /\ codecs' = codecs
      /\ c' = send_goaway(c, d.last_request_id) /\ timers' = Armed(timers)
    BY DEF Drain, Goto, shared
<1>1. c.opened = 3 /\ result.code = "none" /\ state.close_code = "none"
    BY <1>0, InLoop, Zenon DEF CloseInv
<1>2. /\ GoawayInv' /\ c' \in Plane /\ c'.goaway_sent # None
      /\ c'.opened = c.opened /\ c'.wire = c.wire /\ c'.encoder_pending = c.encoder_pending
    BY <1>0, GoawayQueued
<1>3. timers' \in [accept : TimerState, backstop : TimerState, grace : TimerState]
    BY <1>0 DEF TypeInv, Armed, TimerState
<1>4. CloseIsClean'
    BY <1>0, <1>1, Zenon DEF CloseIsClean
<1>5. CloseInv'
    BY <1>0, <1>1, <1>2, <1>4, Zenon DEF CloseInv
<1>6. StreamsInv'
    BY <1>0, <1>1, <1>2, Zenon DEF StreamsInv, InstructionsInOrder
<1>7. TypeInv'
    BY <1>0, <1>2, <1>3, Zenon DEF TypeInv, Places
<1> QED BY <1>2, <1>5, <1>6, <1>7, Zenon

\* The connection is drained and closed with H3_NO_ERROR.
LEMMA CloseDrainedKeeps ==
    ASSUME DriverInv, CloseDrained
    PROVE  DriverInv'
<1> USE DEF DriverInv
<1>0. /\ pc = "shutdown" /\ pc' = "returned" /\ d.shutdown /\ d' = d /\ Ongoing = {}
      /\ timers' = timers /\ timers.grace = "fired" /\ tasks' = tasks /\ state' = state
      /\ peer' = peer /\ codecs' = codecs /\ c' = send_goaway(c, d.last_request_id)
      /\ result' = [ret |-> IF d.outcome # "none" THEN d.outcome ELSE "ok", code |-> "no_error"]
    BY Zenon DEF CloseDrained, GraceOver, Returns, shared
<1>1. c.opened = 3 /\ state.close_code = "none" /\ c.goaway_sent # None
    BY <1>0, InLoop, Zenon DEF CloseInv
<1>2. GoawayInv' /\ c' = c
    BY <1>0, <1>1, GoawayQueued, Zenon
<1>3. CloseIsClean'
    <2>1. Ongoing' = {}
        BY <1>0, Zenon DEF Ongoing
    <2>2. Announced(c) \/ d.control_dead \/ d.flush_pending
        BY <1>0, <1>1, Zenon DEF CloseInv
    <2> QED BY <1>0, <1>1, <1>2, <2>1, <2>2, Zenon DEF CloseIsClean, Announced
<1>4. CloseInv'
    BY <1>0, <1>2, <1>3, Zenon DEF CloseInv
<1>5. StreamsInv'
    BY <1>0, <1>1, <1>2, Zenon DEF StreamsInv, InstructionsInOrder
<1>6. result' \in [ret : {"none", "ok", "timeout", "error"}, code : Codes]
    BY <1>0, Zenon DEF TypeInv, Locals, Codes
<1>7. TypeInv'
    BY <1>0, <1>2, <1>6, Zenon DEF TypeInv, Places
<1> QED BY <1>2, <1>4, <1>5, <1>7, Zenon

\* handle returns with an error's code, or because the transport is gone, or nothing is
\* there to do and the driver parks.
LEMMA LeaveKeeps ==
    ASSUME DriverInv, CloseWithError \/ AcceptClosed \/ Park
    PROVE  DriverInv'
<1> USE DEF DriverInv
<1>0. /\ pc \in {"shutdown", "accept"} /\ c' = c /\ d' = d /\ timers' = timers
      /\ tasks' = tasks /\ state' = state /\ peer' = peer /\ codecs' = codecs
      /\ \/ pc' \in {"top", "parked"} /\ result' = result
         \/ pc' = "returned" /\ result'.code = d.closing_with
            /\ result' = [ret |-> IF d.outcome # "none" THEN d.outcome ELSE "error",
                          code |-> d.closing_with]
         \/ pc' = "returned" /\ result' = [ret |-> "ok", code |-> "none"]
    BY DEF CloseWithError, AcceptClosed, Park, Goto, Returns, shared
<1>1. c.opened = 3 /\ result.code = "none" /\ d \in Locals /\ d.closing_with # "no_error"
    BY <1>0, InLoop, Zenon DEF TypeInv, Locals, Errors
<1>2. Section
    <2>1. Announcing(c) => Announcing(c')
        BY <1>0
    <2>2. d.control_dead => d.shutdown
        BY Zenon DEF CloseInv
    <2>3. result'.code # "no_error" /\ (result'.code # "none" => pc' = "returned")
        BY <1>0, <1>1
    <2> QED BY <1>0, <2>1, <2>2, <2>3, Zenon DEF Section
<1>3. SameOut(c, c')
    BY <1>0, Zenon DEF TypeInv, SameOut, Pipeline
<1>4. StreamsInv'
    BY <1>0, <1>1, <1>3, SectionStreams, Zenon
<1>5. result' \in [ret : {"none", "ok", "timeout", "error"}, code : Codes]
    BY <1>0, <1>1 DEF TypeInv, Locals, Codes, Errors
<1>6. TypeInv'
    BY <1>0, <1>5, Zenon DEF TypeInv, Places
<1> QED BY <1>2, <1>4, <1>6, SectionKeeps, Zenon

\* A waiting request stream is accepted or refused.
LEMMA AcceptOneKeeps ==
    ASSUME DriverInv, AcceptOne
    PROVE  DriverInv'
<1> USE DEF DriverInv
<1>0. /\ pc = "accept" /\ pc' = pc /\ result' = result /\ c' = c /\ timers' = timers
      /\ state' = state /\ peer' = peer /\ codecs' = codecs
    BY DEF AcceptOne, shared
<1>1. c.opened = 3 /\ result.code = "none"
    BY <1>0, InLoop, Zenon
<1>2. PICK i \in Ids :
        /\ d' = [d EXCEPT !.last_request_id = LastId(i)]
        /\ tasks' = [tasks EXCEPT ![i] = IF Refused(i) THEN "rejected" ELSE "run"]
    BY Zenon DEF AcceptOne, Waiting
<1>3. /\ i \in Nat /\ d.last_request_id \in Nat /\ c.goaway_sent \in Int /\ d \in Locals
      /\ \A j \in Ids : j \in Nat
    BY H3BoundsAssumption DEF TypeInv, Locals, Plane, Ids
<1>4. LastId(i) \in Nat /\ i <= LastId(i) /\ d.last_request_id <= LastId(i)
    BY <1>3 DEF LastId
<1>5. /\ d' \in Locals /\ d'.last_request_id = LastId(i) /\ d'.shutdown = d.shutdown
      /\ d'.control_dead = d.control_dead /\ d'.flush_pending = d.flush_pending
    BY <1>2, <1>3, <1>4, Zenon DEF Locals
<1>6. /\ tasks' \in [Ids -> TaskStates]
      /\ tasks'[i] = IF Refused(i) THEN "rejected" ELSE "run"
      /\ \A j \in Ids : j # i => tasks'[j] = tasks[j]
    BY <1>2, Zenon DEF TypeInv, TaskStates
<1>7. /\ c.goaway_sent # None => d.shutdown
      /\ d.shutdown => c.goaway_sent # None
    BY <1>0, Zenon DEF GoawayInv
<1>8. GoawayTruthful'
    <2>1. ~Refused(i) /\ c.goaway_sent # None => i <= c.goaway_sent
        BY <1>3, <1>7 DEF Refused
    <2>2. Refused(i) => c.goaway_sent # None /\ i > c.goaway_sent
        BY <1>7, Zenon DEF Refused
    <2> QED BY <1>0, <1>6, <2>1, <2>2, Zenon DEF GoawayInv, GoawayTruthful
<1>9. GoawayInv'
    <2>1. \A j \in Ids :
            tasks'[j] \in {"run", "ended", "done", "rejected"} => j <= d'.last_request_id
        BY <1>3, <1>4, <1>5, <1>6 DEF GoawayInv
    <2> QED BY <1>0, <1>5, <1>7, <1>8, <2>1, Zenon DEF GoawayInv
<1>10. CloseIsClean'
    BY <1>0, <1>1, Zenon DEF CloseIsClean
<1>11. CloseInv'
    BY <1>0, <1>5, <1>10, Zenon DEF CloseInv
<1>12. StreamsInv'
    BY <1>0, Zenon DEF StreamsInv, InstructionsInOrder
<1>13. TypeInv'
    BY <1>0, <1>5, <1>6, Zenon DEF TypeInv
<1> QED BY <1>9, <1>11, <1>12, <1>13, Zenon

\* An ended task is collected.
LEMMA CollectKeeps ==
    ASSUME DriverInv, Collect
    PROVE  DriverInv'
<1> USE DEF DriverInv
<1>0. /\ pc = "accept" /\ pc' = "top" /\ result' = result /\ c' = c /\ timers' = timers
      /\ d' = d /\ state' = state /\ peer' = peer /\ codecs' = codecs
    BY DEF Collect, Goto, shared
<1>1. c.opened = 3 /\ result.code = "none"
    BY <1>0, InLoop, Zenon
<1>2. PICK i \in Ids : tasks[i] = "ended" /\ tasks' = [tasks EXCEPT ![i] = "done"]
    BY Zenon DEF Collect, Ongoing
<1>3. /\ tasks' \in [Ids -> TaskStates] /\ tasks'[i] = "done"
      /\ \A j \in Ids : j # i => tasks'[j] = tasks[j]
    BY <1>2, Zenon DEF TypeInv, TaskStates
<1>4. GoawayTruthful'
    BY <1>0, <1>2, <1>3, Zenon DEF GoawayInv, GoawayTruthful
<1>5. GoawayInv'
    BY <1>0, <1>2, <1>3, <1>4, Zenon DEF GoawayInv
<1>6. CloseIsClean'
    BY <1>0, <1>1, Zenon DEF CloseIsClean
<1>7. CloseInv'
    BY <1>0, <1>1, <1>6, Zenon DEF CloseInv
<1>8. StreamsInv'
    BY <1>0, Zenon DEF StreamsInv, InstructionsInOrder
<1>9. TypeInv'
    BY <1>0, <1>3, Zenon DEF TypeInv, Places
<1> QED BY <1>5, <1>7, <1>8, <1>9, Zenon
-----------------------------------------------------------------------------
(* The theorems. *)

\* A new connection has announced nothing and holds nothing.
LEMMA InitHolds == Init => DriverInv
<1> SUFFICES ASSUME Init
             PROVE  DriverInv
    BY Zenon
<1>1. NewControl \in Plane
    <2>1. NoUni \in Uni
        BY DEF NoUni, Uni
    <2>2. /\ <<>> \in Seq(Token) /\ <<>> \in Seq(Uni)
          /\ <<>> \in Seq(ControlItems \cup QpackItems)
        BY EmptySeq
    <2>3. 0 \in 0 .. 3 /\ -1 \in Int
        OBVIOUS
    <2> QED BY <2>1, <2>2, <2>3, Zenon DEF NewControl, Plane
<1>2. codecs \in [encoder_stream : Seq(Token), all : Seq(Token)]
    BY EmptySeq, Zenon DEF Init
<1>3. TypeInv
    BY <1>1, <1>2, Zenon DEF Init, TypeInv, Places, Locals, Errors, TimerState, TaskStates, Codes
<1>4. c.goaway_sent = None /\ c.opened = 0 /\ c.wire["encoder"] = <<>>
    BY Zenon DEF Init, NewControl, Roles, None
<1>5. GoawayInv
    BY <1>4, Zenon DEF Init, GoawayInv, GoawayTruthful
<1>6. CloseInv
    BY Zenon DEF Init, CloseInv, CloseIsClean
<1>7. StreamsInv
    BY <1>4 DEF Init, StreamsInv, InstructionsInOrder
<1> QED BY <1>3, <1>5, <1>6, <1>7, Zenon DEF DriverInv

\* The inductive invariant: what GOAWAY, the shutdown and the streams owe each other in
\* every section of the driver's loop and while it is parked.
THEOREM DriverInvariant == Spec => []DriverInv
<1>1. DriverInv /\ [Next]_vars => DriverInv'
    <2> SUFFICES ASSUME DriverInv, [Next]_vars
                 PROVE  DriverInv'
        OBVIOUS
    <2>1. CASE Before
        BY <2>1, HandshakeKeeps, OpenUniKeeps, FlushInitKeeps, Zenon DEF Before
    <2>2. CASE Driver
        BY <2>2, TopKeeps, FlushKeeps, FlushNothingKeeps, ReadOneKeeps, ReadOverKeeps, Zenon,
           DrainKeeps, CloseDrainedKeeps, LeaveKeeps, AcceptOneKeeps, CollectKeeps DEF Driver
    <2>3. CASE Environment
        BY <2>3, EnvironmentKeeps, Zenon
    <2>4. CASE UNCHANGED vars
        BY <2>4, ZenonT(40) DEF vars, DriverInv, TypeInv, GoawayInv, GoawayTruthful, CloseInv, CloseIsClean,
           Ongoing, StreamsInv, InstructionsInOrder, Announced, Announcing
    <2> QED BY <2>1, <2>2, <2>3, <2>4, Zenon DEF Next
<1> QED BY <1>1, InitHolds, PTL DEF Spec

\* The GOAWAY of the driver tells the truth for good: requests it serves have ids up to the
\* one announced, requests it refuses a greater one (the accept loop of handle).
THEOREM GoawaysAreTruthful == Spec => []GoawayTruthful
<1>1. DriverInv => GoawayTruthful
    BY DEF DriverInv, GoawayInv
<1> QED BY <1>1, DriverInvariant, PTL

\* handle closes with H3_NO_ERROR only a connection with nothing in flight, no error recorded
\* and a GOAWAY that the transport has, or cannot take.
THEOREM ClosesAreClean == Spec => []CloseIsClean
<1>1. DriverInv => CloseIsClean
    BY DEF DriverInv, CloseInv
<1> QED BY <1>1, DriverInvariant, PTL

\* The encoder instructions of all request tasks reach the encoder stream once and in order,
\* through both queues and blocked writes (queue_encoder_streams, poll_flush).
THEOREM InstructionsStayInOrder == Spec => []InstructionsInOrder
<1>1. DriverInv => InstructionsInOrder
    BY DEF DriverInv, StreamsInv
<1> QED BY <1>1, DriverInvariant, PTL
=============================================================================
