---------------------------- MODULE H2StreamTask ----------------------------
(***************************************************************************)
(* A stream task of the HTTP/2 server (StreamDriver, src/h2/stream) and    *)
(* the connection task it talks to, at the granularity of polls: when a    *)
(* task sleeps, what wakes it, and who waits on whom.                      *)
(*                                                                         *)
(* A poll of the StreamDriver is a run of steps with tpc at its place; no  *)
(* other task moves meanwhile, as the runtime has one thread.  The tasks   *)
(* share a bounded message channel, a wake channel of capacity one, a      *)
(* bounded request body channel and a reset channel.  What messages carry  *)
(* is abstracted away; flow control is one bit, blocked.                   *)
(***************************************************************************)
EXTENDS Integers, Sequences, FiniteSets

CONSTANTS
    Requests,    \* the kinds of request to consider
    ChanCap,     \* capacity of the message channel (8)
    BodyCap,     \* capacity of the request body channel (8)
    MaxHints,    \* bound: early hints a handler sends
    MaxFrames,   \* bound: DATA frames of a body, of either direction
    MaxPending   \* bound: polls of the handler or its body that are Pending

\* "echo" answers with its request body; "expect" asks for 100 Continue.
RequestKind == {"get", "head", "connect", "expect", "echo"}

ASSUME TaskAssumption ==
    /\ Requests \subseteq RequestKind
    /\ ChanCap \in Nat \ {0} /\ BodyCap \in Nat \ {0}
    /\ MaxHints \in Nat /\ MaxFrames \in Nat /\ MaxPending \in Nat

VARIABLES
    request,        \* the request this task serves
    tpc,            \* place in poll; asleep, exit and panicked are outside
    runnable,       \* the task was woken
    state,          \* StreamDriverState: service, body
    fut,            \* msg_tx_fut: none, the message it holds, or sent
    queued, done,   \* Closed is in the queue, done
    finished,       \* response_fut returned Ready
    response_done, headers, held,   \* Service: done flag, parts, body
    continue_sent, hints,
    body_end, first_frame, flush,   \* Body: end flag, kept frame, local flush
    frames, pendings,
    chan, wake,     \* message channel; a token in the wake channel
    bchan, sending, \* request body channel; what the connection waits to send
    uploaded,       \* DATA frames of the request received
    cpc,            \* place of the connection task
    connected,      \* the connection has an entry for the stream
    blocked,        \* its DATA waits for a flow-control window
    sent, got       \* messages the task produced, the connection handled

service == <<finished, response_done, held, continue_sent, hints>>
piping == <<body_end, first_frame, flush, frames>>
task == <<tpc, runnable, state, fut, queued, done, headers, pendings>>
upload == <<bchan, sending, uploaded>>
channel == <<chan, wake, sent>>
peer == <<cpc, connected, blocked, got>>
vars == <<request, service, piping, task, upload, channel, peer>>

Ends == {"headers_end", "trailers", "end", "reset"}
MsgType == Ends \cup {"info", "headers", "data", "closed"}
Frames == {"data", "trailers", "unknown"}
-----------------------------------------------------------------------------
(* The message channel (kanal): a send with room completes at once, one    *)
(* without parks the sender, one without a receiver fails.                 *)
Accepts == connected /\ Len(chan) < ChanCap
Parks == connected /\ ~Accepts

Put(m) ==
    /\ chan' = IF Accepts THEN Append(chan, m) ELSE chan
    /\ sent' = IF connected THEN Append(sent, m) ELSE sent
    /\ fut' = IF Parks THEN m ELSE "none"

Sleep == tpc' = "asleep"
-----------------------------------------------------------------------------
(* StreamDriver::poll. *)
Poll ==
    /\ tpc = "asleep" /\ runnable
    /\ cpc \in {"select", "flush", "body", "gone"}
    /\ tpc' = "top" /\ runnable' = FALSE
    /\ UNCHANGED <<request, service, piping, state, fut, queued, done, headers, pendings,
                   upload, channel, peer>>

\* A send future that is not through yet keeps the states from being driven.
InFlight == fut # "none"

Delivered == wake' = TRUE

MutTaken == UNCHANGED fut
Taken == fut' = "none"

\* The send future comes first: sent, failed, or still parked.
TopFuture ==
    /\ tpc = "top"
    /\ InFlight
    /\ \/ fut = "sent" /\ Taken /\ Delivered /\ UNCHANGED tpc
       \/ fut # "sent" /\ ~connected /\ fut' = "none" /\ tpc' = "exit" /\ UNCHANGED wake
       \/ fut # "sent" /\ connected /\ Sleep /\ UNCHANGED <<fut, wake>>
    /\ UNCHANGED <<request, service, piping, runnable, state, queued, done, headers, pendings,
                   upload, chan, sent, peer>>

\* Then the queue, which only ever holds Closed.
TopQueue ==
    /\ tpc = "top"
    /\ ~InFlight /\ queued
    /\ queued' = FALSE
    /\ Put("closed")
    /\ \/ Accepts /\ Delivered /\ UNCHANGED tpc
       \/ Parks /\ Sleep /\ UNCHANGED wake
       \/ ~connected /\ tpc' = "exit" /\ UNCHANGED wake
    /\ UNCHANGED <<request, service, piping, runnable, state, done, headers, pendings, upload,
                   peer>>

\* Then the exit, or the state.
TopState ==
    /\ tpc = "top"
    /\ ~InFlight /\ ~queued
    /\ tpc' = IF done THEN "exit" ELSE state
    /\ flush' = FALSE
    /\ UNCHANGED <<request, service, body_end, first_frame, frames, runnable, state, fut,
                   queued, done, headers, pendings, upload, channel, peer>>

\* A state that is through queues Closed.
Finish == queued' = TRUE /\ done' = TRUE /\ tpc' = "top"
-----------------------------------------------------------------------------
(* poll_service. *)
still == <<request, piping, state, upload, peer, runnable>>

\* The response is there: on to its body, if it has one.
ServiceDone ==
    /\ tpc = "service"
    /\ response_done
    /\ IF held THEN /\ held' = FALSE /\ state' = "body" /\ tpc' = "top"
                    /\ UNCHANGED <<queued, done>>
               ELSE Finish /\ UNCHANGED <<held, state>>
    /\ UNCHANGED <<request, piping, upload, peer, runnable, fut, headers, pendings, channel,
                   finished, response_done, continue_sent, hints>>

\* The response future: an error, a response, Pending.  A future polled
\* after it was ready panics.
PollResponse ==
    /\ tpc = "service"
    /\ ~response_done
    /\ \/ finished /\ tpc' = "panicked" /\ UNCHANGED <<finished, response_done, pendings>>
       \/ /\ ~finished
          /\ finished' = TRUE /\ response_done' = TRUE
          /\ UNCHANGED <<tpc, pendings>>
       \/ /\ ~finished
          /\ finished' = TRUE
          /\ tpc' = "respond"
          /\ UNCHANGED <<response_done, pendings>>
       \/ /\ ~finished /\ pendings < MaxPending
          /\ pendings' = pendings + 1
          /\ tpc' = "signals"
          /\ UNCHANGED <<finished, response_done>>
    /\ UNCHANGED <<still, fut, queued, done, headers, channel, held, continue_sent, hints>>

\* send: parked, it returns Pending from poll_service and what the caller
\* had in hand is lost; delivered or failed, the caller goes on.
ServiceSend(m) ==
    /\ Put(m)
    /\ wake' = (wake \/ Accepts)

\* The 100 Continue a response without an error status still owes.
RespondContinue ==
    /\ tpc = "respond"
    /\ request = "expect" /\ ~continue_sent
    /\ \/ /\ ServiceSend("info")
          /\ IF Parks THEN Sleep /\ UNCHANGED continue_sent
                      ELSE continue_sent' = TRUE /\ UNCHANGED tpc
       \/ continue_sent' = TRUE /\ UNCHANGED <<channel, fut, tpc>>
    /\ UNCHANGED <<still, queued, done, headers, pendings, finished, response_done, held, hints>>

\* HEAD and CONNECT send the headers from here, others keep them.
Respond ==
    /\ tpc = "respond"
    /\ ~(request = "expect" /\ ~continue_sent)
    /\ IF request \in {"head", "connect"}
          THEN /\ ServiceSend(IF request = "head" THEN "headers_end" ELSE "headers")
               /\ IF Parks THEN Sleep /\ UNCHANGED <<response_done, held>>
                           ELSE /\ tpc' = "service" /\ response_done' = TRUE
                                /\ held' = (request # "head")
               /\ UNCHANGED headers
          ELSE /\ headers' = TRUE /\ held' = TRUE /\ response_done' = TRUE
               /\ tpc' = "service"
               /\ UNCHANGED <<channel, fut>>
    /\ UNCHANGED <<still, queued, done, pendings, finished, continue_sent, hints>>

\* A reset, or the connection gone.
SignalReset ==
    /\ tpc = "signals"
    /\ ~connected
    /\ Finish
    /\ UNCHANGED <<still, service, fut, headers, pendings, channel>>

\* 100 Continue on the first demand for the body, and early hints.
SignalContinue ==
    /\ tpc = "signals"
    /\ connected
    /\ request = "expect" /\ ~continue_sent
    /\ ServiceSend("info")
    /\ IF Parks THEN Sleep /\ UNCHANGED continue_sent
                ELSE tpc' = "service" /\ continue_sent' = TRUE
    /\ UNCHANGED <<still, queued, done, headers, pendings, finished, response_done, held, hints>>

SignalHint ==
    /\ tpc = "signals"
    /\ connected
    /\ hints < MaxHints
    /\ hints' = hints + 1
    /\ ServiceSend("info")
    /\ tpc' = IF Parks THEN "asleep" ELSE "service"
    /\ UNCHANGED <<still, queued, done, headers, pendings, finished, response_done, held,
                   continue_sent>>

SignalNone ==
    /\ tpc = "signals"
    /\ connected
    /\ Sleep
    /\ UNCHANGED <<still, service, fut, queued, done, headers, pendings, channel>>
-----------------------------------------------------------------------------
(* poll_body. *)
\* What polling the response body may return.  An echo reads its request
\* body: a message, the end of the channel, or Pending.
Outcomes ==
    IF first_frame # "none" THEN {first_frame}
    ELSE IF request = "echo"
       THEN {IF bchan # <<>> THEN Head(bchan) ELSE IF connected THEN "pending" ELSE "eof"}
    ELSE {"eof", "trailers", "unknown", "error"}
         \cup {f \in {"data"} : frames < MaxFrames}
         \cup {f \in {"pending"} : pendings < MaxPending}

\* Taking a message lets in the one the connection waits to send.
TakesUpload ==
    IF request = "echo" /\ first_frame = "none" /\ bchan # <<>>
       THEN /\ bchan' = IF sending = "none" THEN Tail(bchan) ELSE Append(Tail(bchan), sending)
            /\ sending' = "none"
            /\ cpc' = IF sending = "none" THEN cpc ELSE "frames"
            /\ UNCHANGED uploaded
       ELSE UNCHANGED <<upload, cpc>>

\* One message, and the first poll of its send future.
MutPiped(m) == UNCHANGED wake
Piped(m) == wake' = (wake \/ (Parks /\ flush))
Pipe(m) ==
    /\ Put(m)
    /\ Piped(m)
    /\ flush' = (flush \/ (Accepts /\ ~body_end'))
    /\ CASE Accepts -> UNCHANGED <<tpc, queued, done>>
         [] Parks -> Sleep /\ UNCHANGED <<queued, done>>
         [] OTHER -> Finish

BodyEnds ==
    /\ tpc = "body"
    /\ body_end \/ ~connected
    /\ Finish
    /\ UNCHANGED <<request, service, piping, upload, peer, runnable, state, fut, headers,
                   pendings, channel>>

\* The frame that waits for the headers to go first.
MutKept(f) == "none"
Kept(f) == f

\* Trailers end the body.
TrailersEnd == body_end' = TRUE

BodyFrame(f) ==
    /\ tpc = "body"
    /\ ~body_end /\ connected
    /\ f \in Outcomes
    /\ TakesUpload
    /\ frames' = IF f = "data" /\ first_frame = "none" THEN frames + 1 ELSE frames
    /\ pendings' = IF f = "pending" /\ request # "echo" THEN pendings + 1 ELSE pendings
    /\ CASE f = "pending" ->
              /\ Sleep /\ wake' = (wake \/ flush)
              /\ UNCHANGED <<fut, chan, sent, headers, body_end, first_frame, flush, queued, done>>
         [] f \in Frames /\ headers ->
              /\ headers' = FALSE /\ first_frame' = Kept(f)
              /\ UNCHANGED body_end
              /\ Pipe("headers")
         [] f = "data" /\ ~headers ->
              /\ first_frame' = "none" /\ UNCHANGED <<headers, body_end>>
              /\ Pipe("data")
         [] f = "unknown" /\ ~headers ->
              /\ first_frame' = "none" /\ Finish
              /\ UNCHANGED <<headers, body_end, flush, fut, channel>>
         [] f = "trailers" /\ ~headers ->
              /\ first_frame' = "none" /\ TrailersEnd /\ UNCHANGED headers
              /\ Pipe("trailers")
         [] f = "error" ->
              /\ body_end' = TRUE /\ UNCHANGED <<headers, first_frame>>
              /\ Pipe("reset")
         [] OTHER ->
              /\ body_end' = TRUE /\ headers' = FALSE /\ UNCHANGED first_frame
              /\ Pipe(IF headers THEN "headers_end" ELSE "end")
    /\ UNCHANGED <<request, service, runnable, state, connected, blocked, got>>
-----------------------------------------------------------------------------
(* The connection task, between two polls of the stream task. *)
Outside == tpc \in {"asleep", "exit", "panicked"}
idle == <<request, service, piping, tpc, state, queued, done, headers, pendings>>

\* The handler, or the body it returned, wakes the task, also one that is
\* parked in a send.
HandlerWakes ==
    /\ tpc = "asleep" /\ ~runnable
    /\ state = "service" \/ request # "echo"
    /\ runnable' = TRUE
    /\ UNCHANGED <<idle, fut, upload, channel, peer>>

\* drain_outbound with flow control at b: everything in the channel and the
\* parked message, whose sender is woken; DATA may exhaust the window, a
\* Reset message drops the entry.
Drain(b) ==
    LET parked == IF fut \in MsgType THEN <<fut>> ELSE <<>>
        batch  == chan \o parked
        Has(m) == \E k \in DOMAIN batch : batch[k] = m
    IN  IF b \/ ~connected \/ chan = <<>>
           THEN blocked' = b /\ UNCHANGED <<chan, fut, got, runnable, connected>>
           ELSE /\ chan' = <<>>
                /\ got' = got \o batch
                /\ fut' = IF parked # <<>> THEN "sent" ELSE fut
                /\ runnable' = (runnable \/ parked # <<>>)
                /\ connected' = ~Has("reset")
                /\ \/ blocked' = FALSE
                   \/ blocked' = TRUE /\ (Has("data") \/ Has("end"))

ConnWake ==
    /\ Outside /\ cpc = "select"
    /\ wake
    /\ wake' = FALSE
    /\ Drain(blocked)
    /\ cpc' = "flush"
    /\ UNCHANGED <<idle, upload, sent>>

\* A read without DATA for the stream; a WINDOW_UPDATE in it opens the window.
ConnRead ==
    /\ Outside /\ cpc = "select"
    /\ Drain(FALSE) \/ (blocked /\ Drain(TRUE))
    /\ cpc' = "flush"
    /\ UNCHANGED <<idle, upload, wake, sent>>

\* DATA, or the end of the request body: sent to the body channel, which may
\* be full.  The reader of an echo is woken.
ConnData(m) ==
    /\ Outside /\ cpc \in {"select", "frames"}
    /\ connected /\ request = "echo" /\ uploaded <= MaxFrames
    /\ uploaded' = IF m = "eof" THEN MaxFrames + 1 ELSE uploaded + 1
    /\ m = "data" => uploaded < MaxFrames
    /\ IF Len(bchan) < BodyCap
          THEN /\ bchan' = Append(bchan, m) /\ cpc' = "frames" /\ UNCHANGED sending
               /\ runnable' = (runnable \/ (tpc = "asleep" /\ state = "body" /\ fut = "none"))
          ELSE sending' = m /\ cpc' = "body" /\ UNCHANGED <<bchan, runnable>>
    /\ UNCHANGED <<idle, fut, channel, connected, blocked, got>>

\* RST_STREAM: the entry goes, and the channels with it.  Only a task parked
\* in a send, or reading its request body, is woken by that: the future on
\* the reset channel is dropped at the end of each poll.
ConnReset ==
    /\ Outside /\ cpc \in {"select", "frames"}
    /\ connected
    /\ connected' = FALSE
    /\ cpc' = "frames"
    /\ chan' = <<>>
    /\ runnable' = (runnable \/ (tpc = "asleep" /\ (fut # "none" \/
                                   (request = "echo" /\ state = "body"))))
    /\ UNCHANGED <<idle, fut, upload, wake, sent, blocked, got>>

EndOfRead ==
    /\ Outside /\ cpc = "frames"
    /\ Drain(blocked)
    /\ cpc' = "flush"
    /\ UNCHANGED <<idle, upload, wake, sent>>

Flushed ==
    /\ Outside /\ cpc = "flush"
    /\ cpc' = "select"
    /\ UNCHANGED <<idle, runnable, fut, upload, channel, connected, blocked, got>>

\* The connection ends and drops all its streams.
ConnEnds ==
    /\ Outside /\ cpc = "select"
    /\ cpc' = "gone" /\ connected' = FALSE
    /\ chan' = <<>>
    /\ runnable' = (runnable \/ (tpc = "asleep" /\ (fut # "none" \/
                                   (request = "echo" /\ state = "body"))))
    /\ UNCHANGED <<idle, fut, upload, wake, sent, blocked, got>>
-----------------------------------------------------------------------------
Init ==
    /\ request \in Requests
    /\ tpc = "asleep" /\ runnable = TRUE
    /\ state = "service" /\ fut = "none" /\ queued = FALSE /\ done = FALSE
    /\ finished = FALSE /\ response_done = FALSE /\ headers = FALSE /\ held = FALSE
    /\ continue_sent = FALSE /\ hints = 0
    /\ body_end = FALSE /\ first_frame = "none" /\ flush = FALSE
    /\ frames = 0 /\ pendings = 0
    /\ chan = <<>> /\ wake = FALSE
    /\ bchan = <<>> /\ sending = "none" /\ uploaded = 0
    /\ cpc = "flush" /\ connected = TRUE /\ blocked = FALSE
    /\ sent = <<>> /\ got = <<>>

TaskStep ==
    \/ Poll \/ TopFuture \/ TopQueue \/ TopState
    \/ ServiceDone \/ PollResponse \/ RespondContinue \/ Respond
    \/ SignalReset \/ SignalContinue \/ SignalHint \/ SignalNone
    \/ BodyEnds
    \/ \E f \in Frames \cup {"pending", "error", "eof"} : BodyFrame(f)

ConnectionStep == ConnWake \/ EndOfRead \/ Flushed

PeerStep ==
    \/ ConnRead \/ ConnReset \/ ConnEnds
    \/ \E m \in {"data", "eof"} : ConnData(m)

Next == TaskStep \/ ConnectionStep \/ PeerStep \/ HandlerWakes

Spec == Init /\ [][Next]_vars
-----------------------------------------------------------------------------
\* What the connection has handled, what waits in the channel and what is
\* parked in the send future are, in this order, all the messages the task
\* produced, and every DATA frame the response body yielded is one of them or
\* kept as the first frame: parking loses, repeats and reorders nothing.
NothingLost ==
    connected =>
        /\ got \o chan \o (IF fut \in MsgType THEN <<fut>> ELSE <<>>) = sent
        /\ frames = Cardinality({k \in DOMAIN sent : sent[k] = "data"})
                    + (IF first_frame = "data" THEN 1 ELSE 0)

\* Everyone is asleep although a message could be handled: the drive loop at
\* its select without a wake token, the task not woken.
Unheard ==
    /\ cpc = "select" /\ ~wake
    /\ tpc \in {"asleep", "exit"} /\ ~runnable
    /\ connected /\ ~blocked /\ chan # <<>>

\* Messages only go unheard while the task is parked with Closed, after its
\* last message filled the channel: every other path wakes the drive loop.
UnheardOnlyAtClosed == Unheard => fut = "closed"
-----------------------------------------------------------------------------
\* The runtime polls what is runnable, however often other tasks are woken,
\* and the connection gets through its handlers and flushes.
RunFairness == WF_vars(TaskStep) /\ SF_vars(ConnectionStep)

\* Besides, handlers and their bodies make progress, and the peer keeps
\* sending frames that open the window.
FairSpec ==
    /\ Spec /\ RunFairness
    /\ WF_vars(HandlerWakes)
    /\ SF_vars(ConnRead /\ ~blocked')

\* A task comes to its end, by way of parked sends and exhausted windows, when
\* the peer keeps the connection busy.  Left out are an echo, which may wait
\* for a connection that waits for it, and a response polled twice.
TaskEnds == <>(tpc \in {"exit", "panicked"} \/ request = "echo")
-----------------------------------------------------------------------------
=============================================================================
