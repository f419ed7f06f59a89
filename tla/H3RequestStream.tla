-------------------------- MODULE H3RequestStream ---------------------------
(***************************************************************************)
(* One HTTP/3 request stream (src/h3/stream/mod.rs, RequestStream): the    *)
(* framing of the request and of the response on a bidirectional QUIC      *)
(* stream.                                                                 *)
(*                                                                         *)
(* A stream is one record: the fields of RequestStream, the two directions *)
(* of the QUIC stream beneath it (recv, recv_end; wire, credit, send_end,  *)
(* stopped), the buffer of the quinn adapter (buf, in_flight) and the part *)
(* of SharedCodecs it uses (encoder, blocked, unblocked, waiters).  wakers *)
(* holds the tasks the transport will wake.                                *)
(* Every poll_* function takes the stream and the task that polls, and     *)
(* returns the new stream, a result and a frame.                           *)
(*                                                                         *)
(* A received frame is [t, n], its kind and its number.  A HEADERS frame   *)
(* is "headers" (a valid section), "dynamic" (valid, refers to an entry    *)
(* that has not arrived), "malformed" (decodes to an invalid message) or   *)
(* "undecodable".                                                          *)
(* "empty" is a DATA frame of no octets, "control" a frame of the control  *)
(* plane, "grease" an unknown frame, "partial" a frame cut short.          *)
(***************************************************************************)
EXTENDS Integers, Sequences, SequencesExt

FrameKinds == {"headers", "dynamic", "malformed", "undecodable", "data", "empty",
               "control", "grease", "partial"}

NoFrame == [t |-> "none", n |-> 0]

NewStream ==
    [awaiting_headers |-> TRUE, headers_blocked |-> FALSE,
     trailers_lines |-> NoFrame, trailers_blocked |-> FALSE, trailers_done |-> FALSE,
     recv_finished |-> FALSE,
     sent_headers |-> FALSE, sent_trailers |-> FALSE,
     pending_send |-> NoFrame, send_buf |-> <<>>, partial |-> FALSE,
     buf |-> <<>>, in_flight |-> NoFrame,
     recv |-> <<>>, recv_end |-> "open", stop_sending |-> FALSE,
     wire |-> <<>>, credit |-> 0, send_end |-> "open", stopped |-> FALSE,
     encoder |-> FALSE, blocked |-> NoFrame, unblocked |-> <<>>,
     waiters |-> {}, wakers |-> {}, finished |-> FALSE]

Result(s, r, f) == [s |-> s, r |-> r, f |-> f]
Ready(s, r) == Result(s, r, NoFrame)
Pending(s) == Ready(s, "pending")
Parked(s, source, task) == Pending([s EXCEPT !.wakers = @ \cup {<<source, task>>}])

(***************************************************************************)
(* Receiving.                                                              *)
(***************************************************************************)

Visible(q) == SelectSeq(q, LAMBDA f : f.t # "grease")   \* next_frame skips unknown frames

MutEndOfStream(s) == Ready([s EXCEPT !.recv_finished = TRUE], "none")
EndOfStream(s) ==
    IF s.partial THEN Ready(s, "frame_error")
    ELSE Ready([s EXCEPT !.recv_finished = TRUE], "none")

NextFrame(s, f) == Result([s EXCEPT !.recv = Tail(@)],
                          IF f.t = "control" THEN "unexpected" ELSE "some", f)

Drained(s, task) ==
    CASE s.recv_end = "fin"   -> EndOfStream(s)
      [] s.recv_end = "reset" -> Ready(s, "reset")
      [] OTHER                -> Parked(s, "recv", task)

Polled(s, task) ==
    IF s.recv = <<>> THEN Drained(s, task)
    ELSE IF Head(s.recv).t = "partial"
         THEN Drained([s EXCEPT !.recv = <<>>, !.partial = TRUE], task)
         ELSE NextFrame(s, Head(s.recv))

poll_frame(s, task) == Polled([s EXCEPT !.recv = Visible(@)], task)

finish_recv(s) == [s EXCEPT !.recv_finished = TRUE, !.finished = TRUE]

\* Decoder::decode_block and the message rules of build_request and header_map.
decode_block(s, f) ==
    CASE f.t = "undecodable"             -> Ready(s, "qpack")
      [] f.t = "dynamic"                 -> Ready([s EXCEPT !.blocked = f], "blocked")
      [] f.t \in {"malformed", "headers"}   -> Result(s, "some", f)
      [] OTHER                           -> Ready(s, "unexpected")
Message(s, f) == IF f.t = "malformed" THEN Ready(s, "message") ELSE Result(s, "some", f)

MutTakeUnblocked(s, task) ==
    IF s.unblocked # <<>> THEN Result([s EXCEPT !.unblocked = Tail(@)], "some", Head(s.unblocked))
    ELSE Pending(s)
take_unblocked_for(s, task) ==
    IF s.unblocked # <<>> THEN Result([s EXCEPT !.unblocked = Tail(@)], "some", Head(s.unblocked))
    ELSE Pending([s EXCEPT !.waiters = {task}])

PastHeaders(s) == [s EXCEPT !.awaiting_headers = FALSE, !.headers_blocked = FALSE]

HeadersFrame(d) ==
    CASE d.r = "some"    -> IF d.f.t = "malformed" THEN Ready(d.s, "message")
                            ELSE Result(PastHeaders(d.s), "some", d.f)
      [] d.r = "blocked" -> Pending([d.s EXCEPT !.headers_blocked = TRUE])
      [] OTHER           -> d

HeadersPolled(p) ==
    CASE p.r = "none" -> Ready(finish_recv([p.s EXCEPT !.awaiting_headers = FALSE]), "none")
      [] p.r = "some" -> HeadersFrame(decode_block(p.s, p.f))
      [] OTHER        -> p

UnblockedHeaders(u) == IF u.r = "some" THEN Message(PastHeaders(u.s), u.f) ELSE u

poll_headers(s, task) ==
    IF s.headers_blocked THEN UnblockedHeaders(take_unblocked_for(s, task))
    ELSE IF ~s.awaiting_headers THEN Ready(s, "none")
    ELSE HeadersPolled(poll_frame(s, task))

AfterTrailers(p) ==
    CASE p.r = "none" -> Ready(finish_recv(p.s), "none")
      [] p.r = "some" -> Ready(p.s, "unexpected")
      [] OTHER        -> p
poll_after_trailers(s, task) == AfterTrailers(poll_frame(s, task))

TrailersFound(d) ==
    CASE d.r = "some"    -> Ready([d.s EXCEPT !.trailers_done = TRUE, !.trailers_lines = d.f], "none")
      [] d.r = "blocked" -> Ready([d.s EXCEPT !.trailers_blocked = TRUE], "none")
      [] OTHER           -> d

DataPolled(p) ==
    CASE p.r = "none" -> Ready(finish_recv(p.s), "none")
      [] p.r = "some" -> IF p.f.t \in {"data", "empty"} THEN p
                         ELSE TrailersFound(decode_block(p.s, p.f))
      [] OTHER        -> p

poll_recv_data(s, task) ==
    IF s.recv_finished THEN Ready(s, "none")
    ELSE IF s.awaiting_headers \/ s.headers_blocked \/ s.trailers_blocked THEN Pending(s)
    ELSE IF s.trailers_done THEN poll_after_trailers(s, task)
    ELSE DataPolled(poll_frame(s, task))

TrailersFrame(d) ==
    CASE d.r = "some"    -> Message([d.s EXCEPT !.trailers_done = TRUE], d.f)
      [] d.r = "blocked" -> Pending([d.s EXCEPT !.trailers_blocked = TRUE])
      [] OTHER           -> d

TrailersPolled(p) ==
    CASE p.r = "none" -> Ready(finish_recv(p.s), "none")
      [] p.r = "some" -> TrailersFrame(decode_block(p.s, p.f))
      [] OTHER        -> p

UnblockedTrailers(u) ==
    IF u.r = "some" THEN Message([u.s EXCEPT !.trailers_blocked = FALSE, !.trailers_done = TRUE], u.f)
    ELSE u

poll_recv_trailers(s, task) ==
    IF s.trailers_lines # NoFrame
    THEN Message([s EXCEPT !.trailers_lines = NoFrame], s.trailers_lines)
    ELSE IF s.trailers_blocked THEN UnblockedTrailers(take_unblocked_for(s, task))
    ELSE IF s.recv_finished THEN Ready(s, "none")
    ELSE IF s.awaiting_headers \/ s.headers_blocked THEN Pending(s)
    ELSE IF s.trailers_done THEN poll_after_trailers(s, task)
    ELSE TrailersPolled(poll_frame(s, task))

(***************************************************************************)
(* Sending.  A response frame is "continue" (100), "hints" (103), "final", *)
(* "toobig" (final, over the peer's limit), "data", "large" (DATA beyond   *)
(* WRITE_INLINE_LIMIT, written as two parts) or "trailers".                *)
(***************************************************************************)

Responses == {"continue", "hints", "final", "toobig"}
Informational(f) == f.t \in {"continue", "hints"}

\* The octets of a part: a large payload does not fit one unit of credit.
Octets(f) == IF f.t = "payload" THEN <<f, f>> ELSE <<f>>

\* quinn's SendStream takes an octet for each unit of credit the peer granted.
Written(s, k) == [s EXCEPT !.wire = @ \o SubSeq(s.buf, 1, k), !.buf = SubSeq(@, k + 1, Len(@)),
                           !.credit = @ - k]

\* The adapter buffers a part when it first sees it, and knows it by its address when
\* the caller passes it again.
MutFresh(s, f) == TRUE
Fresh(s, f) == s.in_flight # f
Buffered(s, f) == IF Fresh(s, f) THEN [s EXCEPT !.buf = @ \o Octets(f), !.in_flight = f] ELSE s
Flushed(s, task) ==
    IF s.stopped THEN Ready(s, "stopped")
    ELSE IF Len(s.buf) > s.credit THEN Parked(Written(s, s.credit), "send", task)
    ELSE Ready([Written(s, Len(s.buf)) EXCEPT !.in_flight = NoFrame], "ok")
poll_send(s, task, f) == Flushed(Buffered(s, f), task)

\* Parts leave send_buf one by one, for as long as the transport takes them.
Popped(w) == IF w.r = "ok" THEN [w EXCEPT !.s.send_buf = Tail(@)] ELSE w
poll_write(s, task) ==
    FoldLeft(LAMBDA w, f : IF w.r = "ok" THEN Popped(poll_send(w.s, task, f)) ELSE w,
             Ready(s, "ok"), s.send_buf)

poll_write_parts(s, task, f) ==
    poll_write([s EXCEPT !.send_buf =
                    @ \o (IF f.t = "large" THEN <<[f EXCEPT !.t = "head"], [f EXCEPT !.t = "payload"]>>
                          ELSE <<f>>)], task)

encode_headers(s, f) ==
    CASE ~s.encoder     -> Ready(s, "message")
      [] f.t = "toobig" -> Ready(s, "too_big")
      [] OTHER          -> Ready(s, "ok")

\* A write that completed: what its pending marker recorded takes effect.
Completed(w, done(_)) ==
    IF w.r = "ok" THEN Ready([done(w.s) EXCEPT !.pending_send = NoFrame], "ok") ELSE w

ResponseSent(s) == IF Informational(s.pending_send) THEN s ELSE [s EXCEPT !.sent_headers = TRUE]
TrailersSent(s) == [s EXCEPT !.sent_trailers = TRUE]
Same(s) == s

Started(s, task, f, done(_)) ==
    Completed(poll_write_parts([s EXCEPT !.pending_send = f], task, f), done)
StartedHeaders(e, task, f, done(_)) ==
    IF e.r = "ok" THEN Started(e.s, task, f, done) ELSE e

poll_send_response(s, task, f) ==
    IF s.sent_headers /\ ~Informational(f) THEN Ready(s, "message")
    ELSE IF s.pending_send.t \in Responses THEN Completed(poll_write(s, task), ResponseSent)
    ELSE IF s.pending_send = NoFrame THEN StartedHeaders(encode_headers(s, f), task, f, ResponseSent)
    ELSE Ready(s, "message")

poll_send_data(s, task, f) ==
    IF s.pending_send.t \in {"data", "large"} THEN Completed(poll_write(s, task), Same)
    ELSE IF s.pending_send = NoFrame THEN Started(s, task, f, Same)
    ELSE Ready(s, "message")

poll_send_trailers(s, task, f) ==
    IF ~s.sent_headers THEN Ready(s, "message")
    ELSE IF s.pending_send.t = "trailers" THEN Completed(poll_write(s, task), Same)
    ELSE IF s.pending_send = NoFrame THEN StartedHeaders(encode_headers(s, f), task, f, TrailersSent)
    ELSE Ready(s, "message")

Finished(s) == [s EXCEPT !.send_end = IF @ = "open" THEN "fin" ELSE @]

poll_finish(s, task) ==
    LET w == poll_write(s, task) IN IF w.r = "ok" THEN Ready(Finished(w.s), "ok") ELSE w

\* Resolves once the peer has read everything (acked) or has stopped the stream.
poll_stopped(s, task, acked) ==
    IF acked \/ s.stopped THEN Ready(s, "ok") ELSE Parked(s, "acked", task)

poll_reset(s) == [s EXCEPT !.send_end = IF @ = "open" THEN "reset" ELSE @]

poll_stop_sending(s) == [s EXCEPT !.stop_sending = TRUE]

=============================================================================
