---------------------------- MODULE H3Connection ----------------------------
(***************************************************************************)
(* The driver of an HTTP/3 connection (src/h3/mod.rs, Http3::handle) over  *)
(* the control plane of H3Control: it accepts requests, spawns their       *)
(* tasks, and shuts the connection down, gracefully or with an error.      *)
(*                                                                         *)
(* One poll of the driver is a loop of sections, one action each, in the   *)
(* order of pc.  The runtime has one thread: everything else happens while *)
(* the driver is parked, and a parked driver runs again only once wake is  *)
(* set, by an event it has registered for in its last poll.  The request   *)
(* tasks are those of H3Request, seen from here: they queue encoder        *)
(* instructions, record errors and end.                                    *)
(***************************************************************************)
EXTENDS H3Control, FiniteSets

CONSTANTS
    MaxRequests,        \* bound: request streams the peer opens, 0 .. MaxRequests - 1
    MaxUnis,            \* bound: unidirectional streams the peer opens
    MaxItems,           \* bound: frames and chunks the peer sends on them
    UniTypes,           \* types of those streams
    ControlItems,       \* what may come on the peer's control stream
    QpackItems,         \* ... and on its QPACK streams
    AcceptTimeout,      \* options.accept_timeout is set
    MaxLocalErrorResets, MaxPendingAcceptResets,   \* ResetLimits
    MaxInstructions,    \* bound: encoder instructions the tasks queue
    Verdicts            \* how a request task may end

ASSUME H3BoundsAssumption ==
    /\ {MaxRequests, MaxUnis, MaxItems, MaxInstructions} \subseteq Nat
    /\ {MaxLocalErrorResets, MaxPendingAcceptResets} \subseteq Nat
    /\ AcceptTimeout \in BOOLEAN

Ids == 0..(MaxRequests - 1)
None == -1

VARIABLES
    pc,
    wake,      \* the driver's waker has been called since it parked
    c,         \* the control plane
    d,         \* the driver's locals
    timers,    \* accept_sleep, shutdown_sleep, drain_grace: "off", "armed" or "fired"
    cancelled, \* the CancellationToken
    peer,      \* streams opened by the peer, items it has sent
    tasks,     \* per request stream: "none", "opened", "run", "ended" (not collected), "done",
               \* "rejected"
    codecs,    \* SharedCodecs::encoder_stream, and all instructions ever queued
    state,     \* ConnResetState, and how many tasks ended by a request's own error
    result     \* what handle returned, and the code it closed the connection with

vars == <<pc, wake, c, d, timers, cancelled, peer, tasks, codecs, state, result>>
shared == <<cancelled, peer, codecs>>

Ongoing == { i \in Ids : tasks[i] \in {"run", "ended"} }

Init ==
    /\ pc = "handshake" /\ wake = FALSE
    /\ c = NewControl
    /\ d = [shutdown |-> FALSE, control_dead |-> FALSE, closing_with |-> "none", outcome |-> "none",
            last_request_id |-> 0, flush_pending |-> FALSE, source |-> 1, progressed |-> FALSE]
    /\ timers = [accept |-> "off", backstop |-> "off", grace |-> "off"]
    /\ cancelled = FALSE
    /\ peer = [requests |-> 0, unis |-> 0, items |-> 0]
    /\ tasks = [i \in Ids |-> "none"]
    /\ codecs = [encoder_stream |-> <<>>, all |-> <<>>]
    /\ state = [local_error_resets |-> 0, pending_accept_resets |-> 0, close_code |-> "none"]
    /\ result = [ret |-> "none", code |-> "none"]

Goto(next) == pc' = next /\ UNCHANGED result
Returns(ret, code) == pc' = "returned" /\ result' = [ret |-> ret, code |-> code]

(***************************************************************************)
(* Before the loop: the handshake and the control plane's own streams.     *)
(***************************************************************************)

HandshakeCompletes ==
    /\ pc = "handshake"
    /\ Goto("init")
    /\ UNCHANGED <<wake, c, d, timers, tasks, state, shared>>

HandshakeTimesOut ==
    /\ pc = "handshake"
    /\ Returns("timeout", "none")
    /\ UNCHANGED <<wake, c, d, timers, tasks, state, shared>>

\* poll_init, then poll_flush until everything is written.  Neither is bounded in time.
OpenUni ==
    /\ pc = "init" /\ c.opened < 3
    /\ c' = open_uni(c)
    /\ UNCHANGED <<pc, wake, d, timers, tasks, state, result, shared>>

FlushInit ==
    /\ pc = "init" /\ c.opened = 3
    /\ \E f \in poll_flush(c) :
        /\ c' = f.c
        /\ \/ f.r = "ok" /\ Goto("top")
           \/ f.r = "pending" /\ Goto("init")
           \/ f.r = "transport" /\ Returns("error", "none")
    /\ UNCHANGED <<wake, d, timers, tasks, state, shared>>

(***************************************************************************)
(* The top of the loop: recorded errors, timers, the graceful trigger.     *)
(***************************************************************************)

\* Take close_code: the first one decides the code.
MutTaken(dd, code) == dd
Taken(dd, code) ==
    IF code = "none" \/ dd.closing_with # "none" THEN dd
    ELSE [dd EXCEPT !.closing_with = code, !.shutdown = TRUE, !.control_dead = TRUE]

\* The accept window runs only while nothing is in flight.  During a shutdown it may still
\* run, without effect: it is off.
Window(t) ==
    CASE Ongoing # {} \/ d.shutdown -> "off"
      [] Ongoing = {} /\ ~d.shutdown /\ AcceptTimeout /\ t = "off" -> "armed"
      [] OTHER -> t

\* A fired window is used up; the backstop is armed again.
Rearmed(t) ==
    [t EXCEPT !.accept = IF Window(@) = "fired" THEN "off" ELSE Window(@),
              !.backstop = IF @ = "fired" THEN "armed" ELSE @]

Triggered(dd) ==
    CASE dd.shutdown              -> dd
      [] ~dd.shutdown /\ cancelled -> [dd EXCEPT !.shutdown = TRUE, !.outcome = "ok"]
      [] ~dd.shutdown /\ ~cancelled /\ Window(timers.accept) = "fired" ->
            [dd EXCEPT !.shutdown = TRUE, !.outcome = "timeout"]
      [] OTHER                    -> dd

Top ==
    /\ pc = "top" \/ (pc = "parked" /\ wake)
    /\ d' = Triggered(Taken(d, state.close_code))
    /\ state' = [state EXCEPT !.close_code = "none"]
    /\ timers' = Rearmed(timers)
    /\ wake' = FALSE
    /\ Goto("flush")
    /\ UNCHANGED <<c, tasks, shared>>

(***************************************************************************)
(* The control plane: flush, then read until nothing is left.              *)
(***************************************************************************)

\* A control error closes the connection with its code, unless it is shutting down already.
ControlFailed(dd, err) ==
    IF dd.shutdown THEN [dd EXCEPT !.control_dead = TRUE]
    ELSE [dd EXCEPT !.closing_with = err, !.shutdown = TRUE, !.control_dead = TRUE]

Flush ==
    /\ pc = "flush" /\ ~d.control_dead
    /\ \E f \in poll_flush(queue_encoder_streams(c, codecs.encoder_stream)) :
        /\ c' = f.c
        /\ \E dd \in {[d EXCEPT !.flush_pending = (f.r = "pending")]} :
            d' = IF f.r = "transport" THEN ControlFailed(dd, f.r) ELSE dd
    /\ codecs' = [codecs EXCEPT !.encoder_stream = <<>>]
    /\ Goto("read")
    /\ UNCHANGED <<wake, timers, tasks, state, cancelled, peer>>

\* A dead control plane is neither written nor read; the queue still moves.
FlushNothing ==
    /\ pc = "flush" /\ d.control_dead
    /\ c' = queue_encoder_streams(c, codecs.encoder_stream)
    /\ codecs' = [codecs EXCEPT !.encoder_stream = <<>>]
    /\ d' = [d EXCEPT !.flush_pending = FALSE]
    /\ Goto("shutdown")
    /\ UNCHANGED <<wake, timers, tasks, state, cancelled, peer>>

\* The sources of the current round that have something to serve.
Busy == { i \in d.source..Len(Sources) : poll_read(c, Sources[i]).r # "idle" }

ReadOne ==
    /\ pc = "read" /\ ~d.control_dead /\ Busy # {}
    /\ \E i \in Busy :
        /\ \A j \in Busy : i <= j
        /\ \E s \in {poll_read(c, Sources[i])} :
            /\ c' = s.c
            /\ d' = IF s.r = "ok" THEN [d EXCEPT !.source = i + 1, !.progressed = TRUE]
                    ELSE ControlFailed(d, s.r)
    /\ UNCHANGED <<pc, wake, timers, tasks, state, result, shared>>

\* A round that made progress is followed by another; the event it produced comes first.
ReadAgain ==
    /\ pc = "read" /\ ~d.control_dead /\ Busy = {} /\ d.progressed
    /\ c' = [c EXCEPT !.goaway_event = FALSE]
    /\ d' = [d EXCEPT !.source = 1, !.progressed = FALSE,
                      !.shutdown = @ \/ c.goaway_event,
                      !.outcome = IF c.goaway_event /\ ~d.shutdown THEN "ok" ELSE @]
    /\ UNCHANGED <<pc, wake, timers, tasks, state, result, shared>>

ReadNothing ==
    /\ pc = "read" /\ (d.control_dead \/ (Busy = {} /\ ~d.progressed))
    /\ d' = [d EXCEPT !.source = 1, !.progressed = FALSE]
    /\ Goto(IF d.shutdown THEN "shutdown" ELSE "accept")
    /\ UNCHANGED <<wake, c, timers, tasks, state, shared>>

(***************************************************************************)
(* Shutdown: at once with a recorded code, or GOAWAY, the drain, a grace   *)
(* window and H3_NO_ERROR.  The transport's close is synchronous.          *)
(***************************************************************************)

CloseWithError ==
    /\ pc = "shutdown" /\ d.shutdown /\ d.closing_with # "none"
    /\ Returns(IF d.outcome # "none" THEN d.outcome ELSE "error", d.closing_with)
    /\ UNCHANGED <<wake, c, d, timers, tasks, state, shared>>

\* The grace timer is armed once, when nothing is in flight.
MutGraceOver(t) == t # "armed"
GraceOver(t) == t = "fired"

CloseDrained ==
    /\ pc = "shutdown" /\ d.shutdown /\ d.closing_with = "none" /\ Ongoing = {}
    /\ GraceOver(timers.grace)
    /\ c' = send_goaway(c, d.last_request_id)
    /\ Returns(IF d.outcome # "none" THEN d.outcome ELSE "ok", "no_error")
    /\ UNCHANGED <<wake, d, timers, tasks, state, shared>>

\* What the drain waits for: the grace window, or in-flight requests with a periodic poll.
MutArmed(t) == [t EXCEPT !.backstop = IF @ = "off" THEN "armed" ELSE @]
Armed(t) ==
    IF Ongoing = {} THEN [t EXCEPT !.grace = "armed"]
    ELSE [t EXCEPT !.backstop = IF @ = "off" THEN "armed" ELSE @]

Drain ==
    /\ pc = "shutdown" /\ d.shutdown /\ d.closing_with = "none"
    /\ Ongoing # {} \/ ~GraceOver(timers.grace)
    /\ c' = send_goaway(c, d.last_request_id)
    /\ timers' = Armed(timers)
    /\ Goto("accept")
    /\ UNCHANGED <<wake, d, tasks, state, shared>>

(***************************************************************************)
(* Accept, collect, park.                                                  *)
(***************************************************************************)

Waiting == { i \in Ids : tasks[i] = "opened" }

MutLastId(i) == d.last_request_id
LastId(i) == IF i > d.last_request_id THEN i ELSE d.last_request_id

Refused(i) == d.shutdown /\ (c.goaway_sent = None \/ i > c.goaway_sent)

AcceptOne ==
    /\ pc = "accept"
    /\ \E i \in Waiting :
        /\ \A j \in Waiting : i <= j
        /\ d' = [d EXCEPT !.last_request_id = LastId(i)]
        /\ tasks' = [tasks EXCEPT ![i] = IF Refused(i) THEN "rejected" ELSE "run"]
    /\ UNCHANGED <<pc, wake, c, timers, state, result, shared>>

AcceptClosed ==
    /\ pc = "accept" /\ Waiting = {} /\ c.closed
    /\ Returns("ok", "none")
    /\ UNCHANGED <<wake, c, d, timers, tasks, state, shared>>

\* One ended task is collected and the loop starts again.
Collect ==
    /\ pc = "accept" /\ Waiting = {} /\ ~c.closed
    /\ \E i \in Ongoing :
        /\ tasks[i] = "ended"
        /\ tasks' = [tasks EXCEPT ![i] = "done"]
    /\ Goto("top")
    /\ UNCHANGED <<wake, c, d, timers, state, shared>>

Park ==
    /\ pc = "accept" /\ Waiting = {} /\ ~c.closed
    /\ \A i \in Ongoing : tasks[i] # "ended"
    /\ Goto(IF Ongoing = {} /\ d.shutdown /\ timers.grace = "off" THEN "top" ELSE "parked")
    /\ UNCHANGED <<wake, c, d, timers, tasks, state, shared>>

(***************************************************************************)
(* What happens while the driver is parked.  wakes says whether it has     *)
(* registered for the event.                                               *)
(***************************************************************************)

Event(wakes) == pc = "parked" /\ wake' = (wake \/ wakes) /\ UNCHANGED <<pc, result>>

PeerOpensRequest ==
    /\ peer.requests < MaxRequests
    /\ peer' = [peer EXCEPT !.requests = @ + 1]
    /\ tasks' = [tasks EXCEPT ![peer.requests] = "opened"]
    /\ Event(TRUE)
    /\ UNCHANGED <<c, d, timers, state, cancelled, codecs>>

PeerOpensUni(ty, typed) ==
    /\ peer.unis < MaxUnis
    /\ peer' = [peer EXCEPT !.unis = @ + 1]
    /\ c' = [c EXCEPT !.unis = Append(@, [type |-> ty, typed |-> typed /\ ty # "fin"])]
    /\ Event(~d.control_dead /\ c.pending_uni = NoUni)
    /\ UNCHANGED <<d, timers, tasks, state, cancelled, codecs>>

\* The rest of a stream type arrives.
PeerTypes ==
    /\ c.pending_uni # NoUni /\ ~c.pending_uni.typed /\ c.pending_uni.type # "fin"
    /\ c' = [c EXCEPT !.pending_uni.typed = TRUE]
    /\ Event(~d.control_dead)
    /\ UNCHANGED <<d, timers, tasks, state, shared>>

\* Only on a stream the peer has opened and not ended.
PeerSends(r, x) ==
    /\ peer.items < MaxItems
    /\ r \in c.known \cup { u.type : u \in ToSet(c.unis) \cup {c.pending_uni} }
    /\ "fin" \notin ToSet(c.inbound[r])
    /\ peer' = [peer EXCEPT !.items = @ + 1]
    /\ c' = [c EXCEPT !.inbound[r] = Append(@, x)]
    /\ Event(~d.control_dead /\ r \in c.known)
    /\ UNCHANGED <<d, timers, tasks, state, cancelled, codecs>>

PeerStops ==
    /\ ~c.torn
    /\ c' = [c EXCEPT !.torn = TRUE]
    /\ \/ Event(d.flush_pending)
       \/ pc = "init" /\ UNCHANGED <<pc, wake, result>>
    /\ UNCHANGED <<d, timers, tasks, state, shared>>

ConnectionCloses ==
    /\ ~c.closed
    /\ c' = [c EXCEPT !.closed = TRUE, !.torn = TRUE]
    /\ Event(TRUE)
    /\ UNCHANGED <<d, timers, tasks, state, shared>>

\* The transport can take more.
Writable ==
    /\ d.flush_pending /\ ~wake
    /\ Event(TRUE)
    /\ UNCHANGED <<c, d, timers, tasks, state, shared>>

Cancel ==
    /\ ~cancelled /\ cancelled' = TRUE
    /\ \/ Event(TRUE)
       \/ pc \in {"handshake", "init"} /\ UNCHANGED <<pc, wake, result>>
    /\ UNCHANGED <<c, d, timers, tasks, state, peer, codecs>>

TimerFires(t) ==
    /\ timers[t] = "armed"
    /\ timers' = [timers EXCEPT ![t] = "fired"]
    /\ Event(TRUE)
    /\ UNCHANGED <<c, d, tasks, state, shared>>

(***************************************************************************)
(* The request tasks.  Only the end of a task wakes the driver.            *)
(***************************************************************************)

Encodes(cc) == [cc EXCEPT !.encoder_stream = Append(@, Len(cc.all) + 1), !.all = Append(@, Len(@) + 1)]

TaskEncodes(i) ==
    /\ tasks[i] = "run" /\ c.settings_received /\ Len(codecs.all) < MaxInstructions
    /\ codecs' = Encodes(codecs)
    /\ Event(FALSE)
    /\ UNCHANGED <<c, d, timers, tasks, state, cancelled, peer>>

\* The body reader of a running request hits a field section that cannot be decoded.
TaskReports(i) ==
    /\ tasks[i] = "run" /\ "qpack" \in Verdicts
    /\ state' = [state EXCEPT !.close_code = "qpack"]
    /\ Event(FALSE)
    /\ UNCHANGED <<c, d, timers, tasks, shared>>

note_local_error_reset(st) ==
    IF st.local_error_resets >= MaxLocalErrorResets THEN [st EXCEPT !.close_code = "excessive_load"]
    ELSE [st EXCEPT !.local_error_resets = @ + 1]

\* b is what is left of the bucket.
note_pending_accept_reset(st, b) ==
    [st EXCEPT !.pending_accept_resets = b + 1,
               !.close_code = IF b + 1 > MaxPendingAcceptResets THEN "excessive_load" ELSE @]

Ended(v) ==
    CASE v = "message" -> {note_local_error_reset(state)}
      [] v = "peer_reset" -> { note_pending_accept_reset(state, b) : b \in 0..state.pending_accept_resets }
      [] v = "qpack" -> {[state EXCEPT !.close_code = "qpack"]}
      [] OTHER -> {state}

TaskEnds(i) ==
    /\ tasks[i] = "run"
    /\ \E v \in Verdicts : state' \in Ended(v)
    /\ tasks' = [tasks EXCEPT ![i] = "ended"]
    /\ Event(TRUE)
    /\ UNCHANGED <<c, d, timers, shared>>

Before == HandshakeCompletes \/ HandshakeTimesOut \/ OpenUni \/ FlushInit
Driver ==
    \/ Top \/ Flush \/ FlushNothing \/ ReadOne \/ ReadAgain \/ ReadNothing
    \/ CloseWithError \/ CloseDrained \/ Drain
    \/ AcceptOne \/ AcceptClosed \/ Collect \/ Park
Environment ==
    \/ PeerOpensRequest \/ PeerTypes \/ PeerStops \/ ConnectionCloses \/ Writable \/ Cancel
    \/ \E ty \in UniTypes, typed \in BOOLEAN : PeerOpensUni(ty, typed)
    \/ \E x \in ControlItems : PeerSends("control", x)
    \/ \E r \in {"encoder", "decoder"}, x \in QpackItems : PeerSends(r, x)
    \/ \E t \in {"accept", "backstop", "grace"} : TimerFires(t)
    \/ \E i \in Ids : TaskEncodes(i) \/ TaskReports(i) \/ TaskEnds(i)

Next == Before \/ Driver \/ Environment

Spec == Init /\ [][Next]_vars

\* The runtime polls a woken driver, timers expire, and every request task ends.
FairSpec ==
    /\ Spec
    /\ WF_vars(Driver)
    /\ \A t \in {"accept", "backstop", "grace"} : SF_vars(TimerFires(t))
    /\ \A i \in Ids : SF_vars(TaskEnds(i))

(***************************************************************************)
(* Properties                                                              *)
(***************************************************************************)

\* The id of the GOAWAY this endpoint queues tells the peer the truth for good: every
\* request stream it went on to serve has an id up to it, and every one it refused with
\* H3_REQUEST_REJECTED a greater one, whenever the stream arrived (the accept loop of handle).
GoawayTruthful ==
    \A i \in Ids :
        /\ tasks[i] \in {"run", "ended", "done"} /\ c.goaway_sent # None => i <= c.goaway_sent
        /\ tasks[i] = "rejected" => c.goaway_sent # None /\ i > c.goaway_sent

\* A connection closed with H3_NO_ERROR was drained: no request was in flight, no request
\* task had recorded an error the close would hide, and the GOAWAY had been handed to the
\* transport, unless the peer stopped the control stream or the transport was blocked.
CloseIsClean ==
    result.code = "no_error" =>
        /\ Ongoing = {} /\ state.close_code = "none"
        /\ "goaway" \in ToSet(c.wire["control"]) \/ d.control_dead \/ d.flush_pending

\* The instructions the request tasks hand to the encoder stream reach it all, once and in
\* order, through the shared queue, the control plane's queue and the blocked writes.
InstructionsInOrder ==
    c.opened >= 2 => c.wire["encoder"] \o c.encoder_pending \o codecs.encoder_stream = <<"type">> \o codecs.all

\* Once the driver runs its loop, cancellation, the peer's GOAWAY and the accept timeout all
\* end with handle returning: a lost wake-up cannot strand a drained connection.
Drains == (d.shutdown \/ (cancelled /\ pc \notin {"handshake", "init"})) ~> (pc = "returned")

\* An error a request task records for the connection closes it, though recording it does not
\* wake the driver, and never as if nothing had happened (ConnResetState::close_code).
ErrorCloses == (state.close_code # "none") ~> (pc = "returned" /\ result.code # "no_error")

=============================================================================
