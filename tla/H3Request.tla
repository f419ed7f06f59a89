----------------------------- MODULE H3Request ------------------------------
(***************************************************************************)
(* One HTTP/3 request from its acceptance to its end: the request task     *)
(* (src/h3/mod.rs, handle_request), the request body it hands to the       *)
(* handler (H3Body), early hints, 100 Continue and the upgraded tunnel     *)
(* (src/h3/upgrade.rs), over the request stream of H3RequestStream.        *)
(*                                                                         *)
(* Tasks share one thread: a poll runs until it parks (cpu), and a parked  *)
(* task runs again only when something it registered with wakes it         *)
(* (ready).  "main" is the request task; "reader" is a task of the         *)
(* application that owns the body, or the upgraded connection.             *)
(***************************************************************************)
EXTENDS H3RequestStream, FiniteSets

CONSTANTS
    FrameSet,      \* kinds of frames the peer may send
    MaxFrames,     \* bound: frames the peer sends
    MaxCredit,     \* bound: credit outstanding on the send side
    Calls,         \* what may happen to a request: see Call below
    MaxTunnel      \* bound: chunks the upgraded connection writes

ASSUME BoundsAssumption == FrameSet \subseteq FrameKinds /\ {MaxFrames, MaxCredit, MaxTunnel} \subseteq Nat

VARIABLES
    st,       \* the request stream
    sent,     \* frames the peer sent
    acked,    \* the peer has read the whole response
    cpu,      \* the task being polled, or "idle"
    ready,    \* tasks that were woken
    pc,       \* where handle_request is
    call,     \* the request and what its handler does
    app,      \* where the handler is
    hb,       \* H3Body: data_done and send_continue_body
    got,      \* DATA frames the application has read
    ended,    \* how the body ended for the application
    cont,     \* continue_sent
    out,      \* frames the response body has not produced yet
    cur,      \* the frame being sent
    up,       \* the upgraded connection's bridge and UpgradedSendStreamTask
    close     \* ConnResetState::close_code

vars == <<st, sent, acked, cpu, ready, pc, call, app, hb, got, ended, cont, out, cur, up, close>>
appVars == <<app, hb, got, ended>>
sendVars == <<out, cur>>

(* A call: method, expect (100-continue, with send_continue_response), how *)
(* the body is read, whether hints are sent, the outcome and the response  *)
(* body, a sequence of frame kinds with "fail" for an error.               *)
Call(c) == c.method \in {"get", "head", "connect"} /\ c.reads \in {"inline", "spawned", "none"}

Init ==
    /\ st = NewStream
    /\ sent = <<>> /\ acked = FALSE
    /\ cpu = "idle" /\ ready = {"main"}
    /\ pc = "headers"
    /\ call \in Calls
    /\ app = IF call.hints THEN "hints" ELSE "start"
    /\ hb = [data_done |-> FALSE, flag |-> FALSE]
    /\ got = <<>> /\ ended = "open" /\ cont = FALSE
    /\ out = [i \in 1..Len(call.body) |-> [t |-> call.body[i], n |-> i]]
    /\ cur = NoFrame
    /\ up = [open |-> TRUE, queue |-> 0, writes |-> 0, fut |-> "none"]
    /\ close = "none"

(***************************************************************************)
(* Scheduling.                                                             *)
(***************************************************************************)

Runs(t) == cpu = t \/ (cpu = "idle" /\ t \in ready)
Stay(t) == cpu' = t /\ ready' = ready \ {t}
Park(t) == cpu' = "idle" /\ ready' = ready \ {t}

ReaderLives == call.reads = "spawned" /\ ended = "open"

\* What is not a task of this request happens between polls; once nobody owns the
\* stream nothing that happens to it matters.
Outside == cpu = "idle" /\ (pc # "done" \/ ReaderLives)
Woken(s, source) == { t \in {"main", "reader"} : <<source, t>> \in s.wakers }
Unregistered(s, source) == [s EXCEPT !.wakers = { w \in @ : w[1] # source }]

\* The environment's step to stream s wakes what waits for source.
Event(s, source) ==
    /\ Outside
    /\ st' = Unregistered(s, source)
    /\ ready' = ready \cup Woken(s, source)
    /\ UNCHANGED <<cpu, pc, call, appVars, cont, sendVars, close>>

(***************************************************************************)
(* The peer, and the control plane's effect on the shared codecs.          *)
(***************************************************************************)

PeerSends(k) ==
    /\ st.recv_end = "open" /\ Len(sent) < MaxFrames
    /\ \A i \in 1..Len(sent) : sent[i].t # "partial"
    /\ \E f \in {[t |-> k, n |-> Len(sent) + 1]} :
        /\ sent' = Append(sent, f)
        /\ Event([st EXCEPT !.recv = Append(@, f)], "recv")
    /\ UNCHANGED <<acked, up>>

PeerFinishes ==
    /\ st.recv_end = "open"
    /\ Event([st EXCEPT !.recv_end = "fin"], "recv")
    /\ UNCHANGED <<sent, acked, up>>

PeerResets ==
    /\ st.recv_end = "open"
    /\ Event([st EXCEPT !.recv_end = "reset", !.recv = <<>>], "recv")
    /\ UNCHANGED <<sent, acked, up>>

PeerStops ==
    /\ ~st.stopped /\ st.send_end = "open"
    /\ Event([st EXCEPT !.stopped = TRUE], "send")
    /\ UNCHANGED <<sent, acked, up>>

PeerGrants ==
    /\ st.credit < MaxCredit /\ st.send_end = "open"
    /\ Event([st EXCEPT !.credit = @ + 1], "send")
    /\ UNCHANGED <<sent, acked, up>>

PeerAcks ==
    /\ st.send_end = "fin" /\ ~acked
    /\ acked' = TRUE
    /\ Event(st, "acked")
    /\ UNCHANGED <<sent, up>>

\* The peer's SETTINGS create the encoder and notify whoever waits for it.
ControlSettings ==
    /\ ~st.encoder
    /\ Event([st EXCEPT !.encoder = TRUE], "encoder")
    /\ UNCHANGED <<sent, acked, up>>

\* The peer's encoder stream delivers the missing entry: the blocked section is decoded
\* and the task registered for the stream, if any, is woken.
ControlInserts ==
    /\ Outside /\ st.blocked # NoFrame
    /\ st' = [st EXCEPT !.blocked = NoFrame, !.waiters = {}, !.unblocked = Append(@, st.blocked)]
    /\ ready' = ready \cup st.waiters
    /\ UNCHANGED <<sent, acked, cpu, pc, call, appVars, cont, sendVars, up, close>>

(***************************************************************************)
(* H3Body and the upgraded connection's read half.                         *)
(***************************************************************************)

\* The request task parks with the stream's lock held while it sends.
LockHeld ==
    \/ pc \in {"continue", "late", "data", "trailers", "finish", "stopped"}
    \/ pc \in {"hint", "respond"} /\ st.pending_send # NoFrame
    \/ pc = "upgrade" /\ up.fut # "none"

MutReportConnectionError(r) == close
report_connection_error(r) == IF r = "qpack" THEN r ELSE close

\* The stream ends when its last owner drops it, as if the response were whole.
Released(s, alive) == IF alive THEN s ELSE Finished(s)

\* One result of poll_recv_data or poll_recv_trailers, r, as task t's body sees
\* it; end(e) is what the task does when its body has ended.
BodyResult(t, r, end(_)) ==
    \/ /\ r.r = "pending"
       /\ hb' = [hb EXCEPT !.flag = call.expect]
       /\ st' = r.s
       /\ UNCHANGED <<got, ended, close>>
    \/ /\ r.r = "some"
       /\ got' = IF r.f.t = "data" THEN Append(got, r.f.n) ELSE got
       /\ st' = r.s
       /\ UNCHANGED <<hb, ended, close>>
    \/ /\ r.r = "none" /\ ~hb.data_done
       /\ hb' = [hb EXCEPT !.data_done = TRUE]
       /\ st' = r.s
       /\ UNCHANGED <<got, ended, close>>
    \/ /\ r.r = "none" /\ hb.data_done
       /\ st' = end(r.s) /\ ended' = "end"
       /\ UNCHANGED <<hb, got, close>>
    \/ /\ r.r \notin {"pending", "some", "none"}
       /\ st' = end(r.s) /\ ended' = "error"
       /\ close' = report_connection_error(r.r)
       /\ UNCHANGED <<hb, got>>

BodyPoll(t) == IF hb.data_done THEN poll_recv_trailers(st, t) ELSE poll_recv_data(st, t)

\* A body in a task of its own.  The lock's future is dropped when the lock is
\* taken, so nothing is registered for its release.
ReaderPolls ==
    /\ Runs("reader") /\ call.method # "connect" /\ ended = "open"
    /\ \/ /\ LockHeld
          /\ Park("reader")
          /\ hb' = [hb EXCEPT !.flag = @ \/ (hb.data_done /\ call.expect)]
          /\ UNCHANGED <<st, got, ended, close>>
       \/ /\ ~LockHeld
          /\ \E r \in {BodyPoll("reader")} :
              /\ BodyResult("reader", r, LAMBDA s : Released(s, pc # "done"))
              /\ IF r.r = "pending" \/ ended' # "open" THEN Park("reader") ELSE Stay("reader")
    /\ UNCHANGED <<sent, acked, pc, call, app, cont, sendVars, up>>

\* H3Upgraded::poll_read.
TunnelReads ==
    /\ Runs("reader") /\ call.method = "connect" /\ ended = "open"
    /\ \/ LockHeld /\ Park("reader") /\ UNCHANGED <<st, got, ended>>
       \/ /\ ~LockHeld
          /\ \E r \in {poll_recv_data(st, "reader")} :
              /\ st' = r.s
              /\ got' = IF r.r = "some" /\ r.f.t = "data" THEN Append(got, r.f.n) ELSE got
              /\ ended' = CASE r.r \in {"pending", "some"} -> "open"
                            [] r.r = "none" -> "end"
                            [] OTHER -> "error"
              /\ IF r.r = "some" THEN Stay("reader") ELSE Park("reader")
    /\ UNCHANGED <<sent, acked, pc, call, app, hb, cont, sendVars, up, close>>

(***************************************************************************)
(* handle_request: reading the request and running the handler.            *)
(***************************************************************************)

Goes(next) == pc' = next /\ Stay("main")
Ends == pc' = "done" /\ Park("main")
Dropped(s) == Released(s, ReaderLives)
abort(s) == Dropped(poll_reset(s))

ReadHeaders ==
    /\ pc = "headers" /\ Runs("main")
    /\ \E r \in {poll_headers(st, "main")} :
        \/ /\ r.r = "pending" /\ st' = r.s
           /\ Park("main")
           /\ UNCHANGED <<pc, close>>
        \/ /\ r.r = "some" /\ st' = r.s
           /\ Goes("handler")
           /\ UNCHANGED close
        \/ /\ r.r \in {"none", "reset"} /\ st' = Finished(r.s)
           /\ Ends
           /\ UNCHANGED close
        \/ /\ r.r = "message" /\ st' = poll_stop_sending(poll_reset(r.s))
           /\ Ends
           /\ UNCHANGED close
        \/ /\ r.r \in {"frame_error", "unexpected", "qpack"} /\ st' = Finished(r.s)
           /\ Ends
           /\ close' = r.r
    /\ UNCHANGED <<sent, acked, call, appVars, cont, sendVars, up>>

InHandler == pc = "handler" /\ Runs("main")

\* send_early_hints queues the hints; the same poll of the request task finds them.
HandlerHints ==
    /\ InHandler /\ app = "hints"
    /\ app' = "start"
    /\ Goes("hint")
    /\ UNCHANGED <<st, sent, acked, call, hb, got, ended, cont, sendVars, up, close>>

HandlerStarts ==
    /\ InHandler /\ app = "start"
    /\ app' = CASE call.reads = "inline" -> "read"
                [] call.reads = "spawned" /\ call.method # "connect" -> "wait"
                [] OTHER -> "answer"
    /\ cpu' = "main"
    /\ ready' = (ready \ {"main"}) \cup (IF app' = "wait" THEN {"reader"} ELSE {})
    /\ UNCHANGED <<st, sent, acked, pc, call, hb, got, ended, cont, sendVars, up, close>>

\* After the handler returned Pending, with no hints queued: 100 Continue, once,
\* if the body was found waiting for data.
ContinueDue(flag) == ~cont /\ call.expect /\ flag
HandlerPends(flag) ==
    IF ContinueDue(flag) THEN Goes("continue") /\ cont' = TRUE
    ELSE Park("main") /\ UNCHANGED <<pc, cont>>

HandlerReads ==
    /\ InHandler /\ app = "read"
    /\ \E r \in {BodyPoll("main")} :
        /\ BodyResult("main", r, Same)
        /\ app' = IF ended' = "open" THEN app ELSE "answer"
        /\ IF r.r = "pending" THEN HandlerPends(hb'.flag)
           ELSE Stay("main") /\ UNCHANGED <<pc, cont>>
    /\ UNCHANGED <<sent, acked, call, sendVars, up>>

\* The handler waits for something of its own.
HandlerWaits ==
    /\ InHandler /\ app = "wait"
    /\ HandlerPends(hb.flag)
    /\ UNCHANGED <<st, sent, acked, call, appVars, sendVars, up, close>>

HandlerWakes ==
    /\ Outside /\ pc = "handler" /\ app = "wait"
    /\ app' = "answer" /\ ready' = ready \cup {"main"}
    /\ UNCHANGED <<st, sent, acked, cpu, pc, call, hb, got, ended, cont, sendVars, up, close>>

\* It is polled again before it has an answer.
HandlerStirs ==
    /\ Outside /\ pc = "handler" /\ app = "wait" /\ "main" \notin ready
    /\ ready' = ready \cup {"main"}
    /\ UNCHANGED <<st, sent, acked, cpu, pc, call, appVars, cont, sendVars, up, close>>

LateContinueDue == call.expect /\ ~cont /\ call.outcome # "refused"

HandlerAnswers ==
    /\ InHandler /\ app = "answer"
    /\ IF call.outcome = "fail"
       THEN st' = abort(st) /\ Ends
       ELSE st' = st /\ Goes(IF LateContinueDue THEN "late" ELSE "respond")
    /\ UNCHANGED <<sent, acked, call, appVars, cont, sendVars, up, close>>

(***************************************************************************)
(* handle_request: sending.                                                *)
(***************************************************************************)

Frame(t) == [t |-> t, n |-> 0]

\* The outcome of one send: park, go on to next, or abort the response.
AfterSend(w, next) ==
    \/ w.r = "pending" /\ st' = w.s /\ Park("main") /\ UNCHANGED pc
    \/ w.r = "ok" /\ st' = w.s /\ Goes(next)
    \/ w.r \notin {"pending", "ok"} /\ st' = abort(w.s) /\ Ends

SendInterim(at, next) ==
    /\ pc = at /\ Runs("main")
    /\ \E w \in {poll_send_response(st, "main", Frame("continue"))} : AfterSend(w, next)
    /\ UNCHANGED <<sent, acked, call, appVars, cont, sendVars, up, close>>

SendContinue == SendInterim("continue", "handler")
SendLateContinue == SendInterim("late", "respond")

wait_for_encoder(at) ==
    /\ pc = at /\ Runs("main") /\ ~st.encoder
    /\ st' = Parked(st, "encoder", "main").s
    /\ Park("main")
    /\ UNCHANGED <<sent, acked, pc, call, appVars, cont, sendVars, up, close>>

\* A failure to send hints is the handler's to see; the request goes on.
SendHints ==
    /\ pc = "hint" /\ Runs("main") /\ st.encoder
    /\ \E w \in {poll_send_response(st, "main", Frame("hints"))} :
        /\ st' = w.s
        /\ IF w.r = "pending" THEN Park("main") /\ UNCHANGED pc ELSE Goes("handler")
    /\ UNCHANGED <<sent, acked, call, appVars, cont, sendVars, up, close>>

\* Nothing follows the head of a response to HEAD, or of one without a body.
AfterResponse ==
    CASE call.method = "connect" /\ call.reads = "spawned" -> "upgrade"
      [] call.method = "head" \/ out = <<>> -> "finish"
      [] OTHER -> "body"

SendResponse ==
    /\ pc = "respond" /\ Runs("main") /\ st.encoder
    /\ \E w \in {poll_send_response(st, "main",
                     Frame(IF call.outcome = "toobig" THEN "toobig" ELSE "final"))} :
        AfterSend(w, AfterResponse)
    /\ UNCHANGED <<sent, acked, call, appVars, cont, sendVars, up, close>>

\* An error of the response body cuts the response short; empty frames are skipped.
MutBodyFails(f) == FALSE
BodyFails(f) == f.t = "fail"
NextChunk ==
    /\ pc = "body" /\ Runs("main")
    /\ \/ out = <<>> /\ st' = st /\ Goes("finish") /\ UNCHANGED sendVars
       \/ /\ out # <<>> /\ BodyFails(Head(out))
          /\ st' = abort(st) /\ Ends /\ UNCHANGED sendVars
       \/ /\ out # <<>> /\ ~BodyFails(Head(out))
          /\ st' = st /\ out' = Tail(out) /\ cur' = Head(out)
          /\ Goes(CASE Head(out).t \in {"data", "large"} -> "data"
                    [] Head(out).t = "trailers" -> "trailers"
                    [] OTHER -> "body")
    /\ UNCHANGED <<sent, acked, call, appVars, cont, up, close>>

SendData ==
    /\ pc = "data" /\ Runs("main")
    /\ \E w \in {poll_send_data(st, "main", cur)} : AfterSend(w, "body")
    /\ UNCHANGED <<sent, acked, call, appVars, cont, sendVars, up, close>>

SendTrailers ==
    /\ pc = "trailers" /\ Runs("main")
    /\ \E w \in {poll_send_trailers(st, "main", cur)} : AfterSend(w, "finish")
    /\ UNCHANGED <<sent, acked, call, appVars, cont, sendVars, up, close>>

\* A failure to finish is only reported: poll_stopped is awaited all the same.
SendFinish ==
    /\ pc = "finish" /\ Runs("main")
    /\ \E w \in {poll_finish(st, "main")} :
        /\ st' = w.s
        /\ IF w.r = "pending" THEN Park("main") /\ UNCHANGED pc ELSE Goes("stopped")
    /\ UNCHANGED <<sent, acked, call, appVars, cont, sendVars, up, close>>

AwaitStopped ==
    /\ pc = "stopped" /\ Runs("main")
    /\ \E w \in {poll_stopped(st, "main", acked)} :
        IF w.r = "pending" THEN st' = w.s /\ Park("main") /\ UNCHANGED pc
        ELSE st' = Dropped(w.s) /\ Ends
    /\ UNCHANGED <<sent, acked, call, appVars, cont, sendVars, up, close>>

(***************************************************************************)
(* UpgradedSendStreamTask::tick, which the request task awaits, and the    *)
(* consumer of the upgraded connection.                                    *)
(***************************************************************************)

TickIdle ==
    /\ pc = "upgrade" /\ Runs("main") /\ up.fut = "none"
    /\ \/ /\ up.queue > 0
          /\ up' = [up EXCEPT !.queue = @ - 1, !.fut = "data"]
          /\ st' = st /\ Stay("main")
       \/ /\ up.queue = 0 /\ ~up.open
          /\ up' = [up EXCEPT !.fut = "finish"]
          /\ st' = st /\ Stay("main")
       \/ /\ up.queue = 0 /\ up.open
          /\ st' = Parked(st, "bridge", "main").s /\ Park("main")
          /\ UNCHANGED up
    /\ UNCHANGED <<sent, acked, pc, call, appVars, cont, sendVars, close>>

\* The future that ran to completion is dropped and the loop asks the bridge again.
TickSends ==
    /\ pc = "upgrade" /\ Runs("main") /\ up.fut # "none"
    /\ \E w \in {IF up.fut = "data" THEN poll_send_data(st, "main", [t |-> "data", n |-> up.writes])
                 ELSE poll_finish(st, "main")} :
        \/ w.r = "pending" /\ st' = w.s /\ Park("main") /\ UNCHANGED <<pc, up>>
        \/ w.r = "ok" /\ st' = w.s /\ Stay("main") /\ up' = [up EXCEPT !.fut = "none"] /\ UNCHANGED pc
        \/ w.r \notin {"pending", "ok"} /\ st' = Dropped(w.s) /\ Ends /\ UNCHANGED up
    /\ UNCHANGED <<sent, acked, call, appVars, cont, sendVars, close>>

TunnelWrites ==
    /\ pc = "upgrade" /\ up.open /\ up.queue = 0 /\ up.writes < MaxTunnel
    /\ up' = [up EXCEPT !.queue = 1, !.writes = @ + 1]
    /\ Event(st, "bridge")
    /\ UNCHANGED <<sent, acked>>

TunnelCloses ==
    /\ pc = "upgrade" /\ up.open
    /\ up' = [up EXCEPT !.open = FALSE]
    /\ Event(st, "bridge")
    /\ UNCHANGED <<sent, acked>>

TunnelOpens ==
    /\ Outside /\ pc = "upgrade" /\ "reader" \notin ready /\ ended = "open"
    /\ ready' = ready \cup {"reader"}
    /\ UNCHANGED <<st, sent, acked, cpu, pc, call, appVars, cont, sendVars, up, close>>

Peer ==
    \/ \E k \in FrameSet : PeerSends(k)
    \/ PeerFinishes \/ PeerResets \/ PeerStops \/ PeerGrants \/ PeerAcks
    \/ ControlSettings \/ ControlInserts

Main ==
    \/ ReadHeaders \/ HandlerHints \/ HandlerStarts \/ HandlerReads \/ HandlerWaits \/ HandlerAnswers
    \/ SendContinue \/ SendLateContinue \/ wait_for_encoder("hint") \/ wait_for_encoder("respond")
    \/ SendHints \/ SendResponse \/ NextChunk \/ SendData \/ SendTrailers \/ SendFinish \/ AwaitStopped
    \/ TickIdle \/ TickSends

Reader == ReaderPolls \/ TunnelReads

Next ==
    \/ Peer \/ Main \/ Reader
    \/ HandlerWakes \/ HandlerStirs \/ TunnelWrites \/ TunnelCloses \/ TunnelOpens

Spec == Init /\ [][Next]_vars

\* The runtime polls every task that was woken; a handler eventually answers; the
\* peer reads the response and sends its SETTINGS and its encoder instructions.
Fairness ==
    /\ WF_vars(Main) /\ WF_vars(Reader) /\ WF_vars(HandlerWakes)
    /\ WF_vars(PeerGrants) /\ WF_vars(PeerAcks)
    /\ WF_vars(ControlSettings) /\ WF_vars(ControlInserts)

FairSpec == Spec /\ Fairness

(***************************************************************************)
(* Properties.                                                             *)
(***************************************************************************)

OnWire(kinds) == SelectSeq(st.wire, LAMBDA f : f.t \in kinds)

\* What poll_send_response, poll_send_data and poll_send_trailers put on the stream is
\* one message whatever the transport's back-pressure: interim responses, one final
\* response, the body's frames once each and in order, then the trailers.  100 Continue
\* comes at most once, from the wait loop or right before the response, and is never left
\* out before a response that is not an error (handle_request).
ResponseInOrder ==
    /\ Len(OnWire({"continue"})) <= IF call.expect THEN 1 ELSE 0
    /\ (call.expect /\ call.outcome = "ok" /\ OnWire({"final"}) # <<>>) => OnWire({"continue"}) # <<>>
    /\ \A i, j \in 1..Len(st.wire) : i < j =>
        /\ st.wire[i].t # "trailers"
        /\ st.wire[j].t = "final" => st.wire[i].t \in {"continue", "hints"}
        /\ st.wire[j].t \in {"continue", "hints"} => st.wire[i].t \in {"continue", "hints"}
        /\ {st.wire[i].t, st.wire[j].t} \subseteq {"data", "payload", "head"} =>
               st.wire[i].n < st.wire[j].n \/ (st.wire[i].n = st.wire[j].n /\ st.wire[j].t = "payload")
        /\ (st.wire[i].t = "payload" /\ st.wire[i] = st.wire[j]) => st.wire[i - 1].t = "head"

\* A response that ends with FIN is whole: abort resets the stream on every path that
\* cuts the response short, because dropping the stream would finish it.
EndIsWhole ==
    (st.send_end = "fin" /\ OnWire({"final"}) # <<>> /\ call.method = "get") =>
        /\ \A i \in 1..Len(call.body) : call.body[i] # "fail"
        /\ Len(OnWire({"data", "head", "trailers"})) =
               Cardinality({ i \in 1..Len(call.body) : call.body[i] \in {"data", "large", "trailers"} })
        /\ Len(OnWire({"payload"})) = 2 * Len(OnWire({"head"}))

DataSent == SelectSeq(sent, LAMBDA f : f.t = "data")
SectionsBefore(i) == Cardinality({ j \in 1..(i - 1) : sent[j].t \in {"headers", "dynamic", "malformed"} })

\* The application reads the peer's DATA frames in order, and sees the body end only when
\* the peer ended the stream between two frames and everything it sent was read.
BodyComplete ==
    /\ IsPrefix(got, [i \in 1..Len(DataSent) |-> DataSent[i].n])
    /\ (ended = "end" /\ call.method # "connect") =>
        /\ st.recv_end = "fin" /\ Len(got) = Len(DataSent)
        /\ \A i \in 1..Len(sent) : sent[i].t # "partial"

Read(f) == \A i \in 1..Len(st.recv) : st.recv[i] # f

\* A header or trailer section that fails to decode closes the connection, also when only
\* the body, whose errors the application may ignore, came across it.
UndecodableCloses ==
    \A i \in 1..Len(sent) :
        (sent[i].t = "undecodable" /\ SectionsBefore(i) <= 1 /\ Read(sent[i])
             /\ st.recv_end # "reset" /\ call.method # "connect") => close # "none"

\* A request whose peer has stopped sending is seen through: handle_request does not stay
\* parked, except on a header section that was blocked when it first arrived.
Answered ==
    (st.recv_end # "open" /\ call.method # "connect") ~> (pc = "done" \/ st.headers_blocked)

=============================================================================
