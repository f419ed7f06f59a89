------------------------- MODULE H2StreamTaskProofs -------------------------
(***************************************************************************)
(* Safety of the HTTP/2 stream task and its channel to the connection, for *)
(* channels of any capacity and bodies of any length: no message is lost,  *)
(* repeated or reordered, and none goes unheard but at the very end.       *)
(***************************************************************************)
EXTENDS H2StreamTask, FiniteSetTheorems, SequenceTheorems, TLAPS

Places ==
    {"asleep", "top", "service", "respond", "signals", "body", "exit", "panicked"}

TypeInv ==
    /\ tpc \in Places /\ state \in {"service", "body"}
    /\ fut \in MsgType \cup {"none", "sent"}
    /\ first_frame \in Frames \cup {"none"}
    /\ frames \in Nat
    /\ chan \in Seq(MsgType) /\ sent \in Seq(MsgType) /\ got \in Seq(MsgType)
    /\ connected \in BOOLEAN /\ wake \in BOOLEAN /\ flush \in BOOLEAN

\* A state is only driven without a message in flight, and Closed is only
\* queued on the way to the top of poll.
FutureInv ==
    /\ tpc \notin {"asleep", "top"} => fut = "none"
    /\ queued => tpc = "top" /\ fut = "none"

\* A message in the channel that the window does not hold back is heard: the
\* wake token is there, or the poll that put it there will still leave one, or
\* Closed is parked behind it.
HeardInv ==
    connected /\ ~blocked /\ chan # <<>> =>
        \/ wake
        \/ tpc = "body" /\ (flush \/ body_end)
        \/ queued
        \/ fut = "closed"

TaskInv == TypeInv /\ FutureInv /\ NothingLost /\ HeardInv
-----------------------------------------------------------------------------
(* The channel. *)

\* The parked message, and the DATA messages of a sequence.
Parked(m) == IF m \in MsgType THEN <<m>> ELSE <<>>
DataAt(s) == {k \in DOMAIN s : s[k] = "data"}

\* A message more is a DATA message more, if it is one.
LEMMA DataCount ==
    ASSUME NEW s \in Seq(MsgType), NEW m \in MsgType
    PROVE  /\ Cardinality(DataAt(s)) \in Nat
           /\ Cardinality(DataAt(Append(s, m)))
                = Cardinality(DataAt(s)) + (IF m = "data" THEN 1 ELSE 0)
<1>1. Len(s) \in Nat /\ DOMAIN s = 1 .. Len(s)
    OBVIOUS
<1>2. IsFiniteSet(DataAt(s))
    <2>1. IsFiniteSet(1 .. Len(s))
        BY <1>1, FS_Interval
    <2>2. DataAt(s) \subseteq 1 .. Len(s)
        BY <1>1 DEF DataAt
    <2> QED BY <2>1, <2>2, FS_Subset
<1>3. /\ DOMAIN Append(s, m) = 1 .. Len(s) + 1 /\ Append(s, m)[Len(s) + 1] = m
      /\ \A k \in 1 .. Len(s) : Append(s, m)[k] = s[k]
    BY <1>1, AppendProperties
<1>4. CASE m = "data"
    <2>1. DataAt(Append(s, m)) = DataAt(s) \cup {Len(s) + 1}
        BY <1>1, <1>3, <1>4 DEF DataAt
    <2>2. Len(s) + 1 \notin DataAt(s)
        BY <1>1 DEF DataAt
    <2>3. Cardinality(DataAt(s) \cup {Len(s) + 1}) = Cardinality(DataAt(s)) + 1
        BY <1>2, <2>2, FS_AddElement, Zenon
    <2> QED BY <1>2, <1>4, <2>1, <2>3, FS_CardinalityType, Zenon
<1>5. CASE m # "data"
    <2>1. DataAt(Append(s, m)) = DataAt(s)
        BY <1>1, <1>3, <1>5 DEF DataAt
    <2> QED BY <1>2, <1>5, <2>1, FS_CardinalityType
<1> QED BY <1>4, <1>5

\* A send without another in flight: the message is the last of the channel, or parked.
LEMMA PutFacts ==
    ASSUME TypeInv, NothingLost, fut = "none", NEW m \in MsgType, Put(m), got' = got
    PROVE  /\ chan' \in Seq(MsgType) /\ sent' \in Seq(MsgType)
           /\ connected => got' \o chan' \o Parked(fut') = sent'
           /\ connected => Cardinality(DataAt(sent'))
                             = Cardinality(DataAt(sent)) + (IF m = "data" THEN 1 ELSE 0)
           /\ Parks => fut' = m /\ chan' = chan
           /\ ~Parks => fut' = "none"
           /\ ~Accepts => chan' = chan
<1>0. "none" \notin MsgType
    BY DEF MsgType, Ends
<1>1. /\ chan \in Seq(MsgType) /\ sent \in Seq(MsgType) /\ got \in Seq(MsgType)
      /\ Append(chan, m) \in Seq(MsgType) /\ Append(sent, m) \in Seq(MsgType)
    BY DEF TypeInv
<1>2. chan' \in Seq(MsgType) /\ sent' \in Seq(MsgType)
    BY <1>1 DEF Put
<1>3. connected => Cardinality(DataAt(sent'))
                     = Cardinality(DataAt(sent)) + (IF m = "data" THEN 1 ELSE 0)
    BY <1>1, DataCount DEF Put
<1>4. ASSUME connected
      PROVE  got' \o chan' \o Parked(fut') = sent'
    <2>1. got \o chan = sent
        <3>1. got \o chan \o <<>> = sent
            BY <1>0, <1>4, Zenon DEF NothingLost
        <3>2. got \o chan \in Seq(MsgType)
            BY <1>1
        <3>3. got \o chan \o <<>> = got \o chan
            BY <1>1, <3>2
        <3> QED BY <3>1, <3>3, Zenon
    <2>2. sent' = Append(sent, m)
        BY <1>4 DEF Put
    <2>3. CASE Accepts
        <3>1. chan' = Append(chan, m) /\ Parked(fut') = <<>>
            BY <1>0, <2>3 DEF Put, Parks, Parked
        <3>2. got \o Append(chan, m) = Append(got \o chan, m)
            BY <1>1
        <3>3. \A x \in Seq(MsgType) : x \o <<>> = x
            OBVIOUS
        <3>4. got \o Append(chan, m) \in Seq(MsgType)
            BY <1>1
        <3>5. (got \o Append(chan, m)) \o <<>> = Append(sent, m)
            BY <2>1, <3>2, <3>3, <3>4, Zenon
        <3> QED BY <2>2, <3>1, <3>5, Zenon
    <2>4. CASE ~Accepts
        <3>1. chan' = chan /\ fut' = m /\ Parked(fut') = <<m>>
            BY <1>4, <2>4 DEF Put, Parks, Parked
        <3>2. sent \o <<m>> = Append(sent, m)
            BY <1>1
        <3>3. (got \o chan) \o <<m>> = Append(sent, m)
            BY <2>1, <3>2, Zenon
        <3>4. got' = got
            OBVIOUS
        <3>5. got' \o chan' \o Parked(fut') = (got \o chan) \o <<m>>
            BY <3>1, <3>4
        <3> QED BY <2>2, <3>3, <3>5
    <2> QED BY <2>3, <2>4
<1>5. (Parks => fut' = m /\ chan' = chan) /\ (~Parks => fut' = "none") /\ (~Accepts => chan' = chan)
    BY DEF Put, Parks
<1> QED BY <1>2, <1>3, <1>4, <1>5, Zenon

\* drain_outbound takes the channel and the parked message, in order; what it leaves in the
\* channel waits for the window.
LEMMA DrainFacts ==
    ASSUME TypeInv, NothingLost, NEW b, Drain(b), sent' = sent
    PROVE  /\ chan' \in Seq(MsgType) /\ got' \in Seq(MsgType) /\ connected' \in BOOLEAN
           /\ connected' => connected
           /\ fut' = fut \/ (fut \in MsgType /\ fut' = "sent")
           /\ connected' => got' \o chan' \o Parked(fut') = sent'
           /\ connected' /\ ~blocked' => chan' = <<>>
<1>0. "sent" \notin MsgType
    BY DEF MsgType, Ends
<1>1. chan \in Seq(MsgType) /\ got \in Seq(MsgType) /\ connected \in BOOLEAN
    BY DEF TypeInv
<1>2. CASE b \/ ~connected \/ chan = <<>>
    <2>1. /\ blocked' = b /\ chan' = chan /\ fut' = fut /\ got' = got
          /\ connected' = connected
        BY <1>2 DEF Drain
    <2>2. connected => got \o chan \o Parked(fut) = sent
        BY Zenon DEF NothingLost, Parked
    <2> QED BY <1>1, <1>2, <2>1, <2>2
<1>3. CASE ~(b \/ ~connected \/ chan = <<>>)
    <2> DEFINE batch == chan \o Parked(fut)
    <2>1. /\ chan' = <<>> /\ got' = got \o batch
          /\ fut' = IF Parked(fut) # <<>> THEN "sent" ELSE fut
          /\ connected' \in BOOLEAN
        BY <1>3, Zenon DEF Drain, Parked
    <2>2. Parked(fut) \in Seq(MsgType) /\ (fut \in MsgType <=> Parked(fut) # <<>>)
        BY DEF Parked
    <2>3. batch \in Seq(MsgType) /\ got \o batch \in Seq(MsgType)
        BY <1>1, <2>2
    <2>4. Parked(fut') = <<>> /\ (fut' = fut \/ (fut \in MsgType /\ fut' = "sent"))
        BY <1>0, <2>1, <2>2 DEF Parked
    <2>5. got \o chan \o Parked(fut) = sent
        BY <1>3, Zenon DEF NothingLost, Parked
    <2>6. (got \o batch) \o <<>> \o <<>> = sent
        <3>1. \A x \in Seq(MsgType) : x \o <<>> \o <<>> = x
            OBVIOUS
        <3>2. \A x, y, z \in Seq(MsgType) : x \o (y \o z) = x \o y \o z
            BY ConcatAssociative
        <3> QED BY <1>1, <2>2, <2>3, <2>5, <3>1, <3>2, Zenon
    <2>7. <<>> \in Seq(MsgType)
        BY EmptySeq
    <2> HIDE DEF batch
    <2> QED BY <1>3, <2>1, <2>3, <2>4, <2>6, <2>7, Zenon
<1> QED BY <1>2, <1>3
-----------------------------------------------------------------------------
(* The steps. *)

\* A step that leaves the messages alone.
Quiet ==
    /\ chan' = chan /\ sent' = sent /\ got' = got /\ frames' = frames
    /\ first_frame' = first_frame /\ connected' = connected /\ blocked' = blocked

\* It loses nothing, whether or not it takes note of a delivery.
LEMMA QuietKeeps ==
    ASSUME NothingLost, Quiet, fut' = fut \/ (fut \notin MsgType /\ fut' \notin MsgType)
    PROVE  NothingLost'
<1>1. connected => /\ got \o chan \o Parked(fut) = sent
                   /\ frames = Cardinality(DataAt(sent)) + (IF first_frame = "data" THEN 1 ELSE 0)
    BY Zenon DEF NothingLost, Parked, DataAt
<1>2. Parked(fut') = Parked(fut)
    BY DEF Parked
<1>3. connected' => /\ got' \o chan' \o Parked(fut') = sent'
                    /\ frames' = Cardinality(DataAt(sent')) + (IF first_frame' = "data" THEN 1 ELSE 0)
    BY <1>1, <1>2, Zenon DEF Quiet
<1> QED BY <1>3, Zenon DEF NothingLost, Parked, DataAt

\* A message other than DATA, sent while no response frame moves.
LEMMA SendKeeps ==
    ASSUME TaskInv, fut = "none", NEW m \in MsgType \ {"data"}, Put(m),
           got' = got, connected' = connected, frames' = frames, first_frame' = first_frame
    PROVE  /\ NothingLost'
           /\ chan' \in Seq(MsgType) /\ sent' \in Seq(MsgType)
           /\ fut' \in MsgType \cup {"none", "sent"}
<1> USE DEF TaskInv
<1>1. /\ chan' \in Seq(MsgType) /\ sent' \in Seq(MsgType)
      /\ connected => got' \o chan' \o Parked(fut') = sent'
      /\ connected => Cardinality(DataAt(sent'))
                        = Cardinality(DataAt(sent)) + (IF m = "data" THEN 1 ELSE 0)
      /\ fut' \in {m, "none"}
    BY PutFacts
<1>2. Cardinality(DataAt(sent)) \in Nat
    BY DataCount DEF TypeInv
<1>3. connected => Cardinality(DataAt(sent')) = Cardinality(DataAt(sent))
    BY <1>1, <1>2
<1>4. connected => frames' = Cardinality(DataAt(sent')) + (IF first_frame' = "data" THEN 1 ELSE 0)
    BY <1>3, Zenon DEF NothingLost, DataAt
<1>5. NothingLost'
    BY <1>1, <1>4, Zenon DEF NothingLost, Parked, DataAt
<1> QED BY <1>1, <1>5

\* poll is entered.
LEMMA PollKeeps ==
    ASSUME TaskInv, Poll
    PROVE  TaskInv'
<1> USE DEF TaskInv, service, piping, upload, channel, peer
<1>1. NothingLost'
    BY QuietKeeps DEF Poll, Quiet
<1> QED BY <1>1 DEF Poll, TypeInv, FutureInv, HeardInv, Places

\* The send future is polled.
LEMMA TopFutureKeeps ==
    ASSUME TaskInv, TopFuture
    PROVE  TaskInv'
<1> USE DEF TaskInv, service, piping, upload, peer
<1>0. "sent" \notin MsgType /\ "none" \notin MsgType
    BY DEF MsgType, Ends
<1>1. Quiet /\ runnable' = runnable /\ state' = state /\ queued' = queued /\ flush' = flush
        /\ body_end' = body_end /\ tpc = "top" /\ fut # "none"
    BY DEF TopFuture, Quiet, InFlight
<1>2. \/ fut = "sent" /\ fut' = "none" /\ wake' = TRUE /\ tpc' = tpc
      \/ ~connected /\ fut' = "none" /\ tpc' = "exit" /\ wake' = wake
      \/ fut # "sent" /\ tpc' = "asleep" /\ fut' = fut /\ wake' = wake
    BY DEF TopFuture, Taken, Delivered, Sleep
<1>3. NothingLost'
    <2>1. CASE ~connected
        BY <1>1, <2>1 DEF Quiet, NothingLost
    <2>2. CASE connected
        BY <1>0, <1>1, <1>2, <2>2, QuietKeeps
    <2> QED BY <2>1, <2>2
<1>4. TypeInv'
    BY <1>1, <1>2, Zenon DEF TypeInv, Quiet, Places
<1>5. FutureInv'
    BY <1>1, <1>2 DEF FutureInv
<1>6. HeardInv'
    BY <1>1, <1>2 DEF HeardInv, FutureInv, Quiet
<1> QED BY <1>3, <1>4, <1>5, <1>6

\* Closed is sent.
LEMMA TopQueueKeeps ==
    ASSUME TaskInv, TopQueue
    PROVE  TaskInv'
<1> USE DEF TaskInv, service, piping, upload, peer
<1>0. "closed" \in MsgType \ {"data"}
    BY DEF MsgType
<1>1. /\ tpc = "top" /\ fut = "none" /\ queued' = FALSE /\ Put("closed") /\ flush' = flush
      /\ body_end' = body_end /\ frames' = frames /\ first_frame' = first_frame
      /\ connected' = connected /\ blocked' = blocked /\ got' = got /\ state' = state
    BY DEF TopQueue, InFlight
<1>2. \/ Accepts /\ wake' = TRUE /\ tpc' = tpc
      \/ Parks /\ tpc' = "asleep" /\ wake' = wake
      \/ ~connected /\ tpc' = "exit" /\ wake' = wake
    BY DEF TopQueue, Delivered, Sleep
<1>3. /\ NothingLost' /\ chan' \in Seq(MsgType) /\ sent' \in Seq(MsgType)
      /\ fut' \in MsgType \cup {"none", "sent"}
    BY <1>0, <1>1, SendKeeps
<1>4. (Parks => fut' = "closed") /\ (~Parks => fut' = "none")
    BY <1>1 DEF Put
<1>5. TypeInv'
    BY <1>1, <1>2, <1>3, Zenon DEF TypeInv, Places
<1>6. FutureInv'
    BY <1>1, <1>2, <1>4 DEF FutureInv, Parks
<1>7. HeardInv'
    BY <1>1, <1>2, <1>4 DEF HeardInv
<1> QED BY <1>3, <1>5, <1>6, <1>7

\* The state is driven, or the task exits.
LEMMA TopStateKeeps ==
    ASSUME TaskInv, TopState
    PROVE  TaskInv'
<1> USE DEF TaskInv, service, upload, channel, peer
<1>1. NothingLost'
    BY QuietKeeps DEF TopState, Quiet
<1>2. TypeInv'
    BY Zenon DEF TopState, TypeInv, Places
<1>3. FutureInv'
    BY DEF TopState, FutureInv, InFlight
<1>4. HeardInv'
    BY DEF TopState, HeardInv, InFlight
<1> QED BY <1>1, <1>2, <1>3, <1>4
\* The response is there, or cannot be waited for any longer.
LEMMA ServiceDoneKeeps ==
    ASSUME TaskInv, ServiceDone \/ SignalReset \/ BodyEnds
    PROVE  TaskInv'
<1> USE DEF TaskInv, service, piping, upload, channel, peer, still
<1>1. /\ Quiet /\ wake' = wake /\ flush' = flush /\ body_end' = body_end /\ fut' = fut
      /\ tpc \in {"service", "signals", "body"} /\ tpc' = "top" /\ state' \in {"service", "body"}
      /\ (queued' = TRUE \/ (queued' = queued /\ tpc = "service"))
    BY DEF ServiceDone, SignalReset, BodyEnds, Finish, Quiet, TypeInv
<1>2. fut = "none" /\ ~queued
    BY <1>1 DEF FutureInv
<1>3. NothingLost'
    BY <1>1, QuietKeeps
<1>4. TypeInv'
    BY <1>1 DEF TypeInv, Quiet, Places
<1>5. FutureInv'
    BY <1>1, <1>2 DEF FutureInv
<1>6. HeardInv'
    BY <1>1, <1>2 DEF HeardInv, Quiet
<1> QED BY <1>3, <1>4, <1>5, <1>6

\* The response future is polled, or nothing signals.
LEMMA PollResponseKeeps ==
    ASSUME TaskInv, PollResponse \/ SignalNone
    PROVE  TaskInv'
<1> USE DEF TaskInv, service, piping, upload, channel, peer, still
<1>1. /\ Quiet /\ wake' = wake /\ flush' = flush /\ body_end' = body_end /\ fut' = fut
      /\ tpc \in {"service", "signals"}
      /\ tpc' \in {"service", "respond", "signals", "panicked", "asleep"}
      /\ state' = state /\ queued' = queued
    BY DEF PollResponse, SignalNone, Sleep, Quiet
<1>2. fut = "none" /\ ~queued
    BY <1>1 DEF FutureInv
<1>3. NothingLost'
    BY <1>1, QuietKeeps
<1>4. TypeInv'
    BY <1>1 DEF TypeInv, Quiet, Places
<1>5. FutureInv'
    BY <1>1, <1>2 DEF FutureInv
<1>6. HeardInv'
    BY <1>1, <1>2 DEF HeardInv, Quiet
<1> QED BY <1>3, <1>4, <1>5, <1>6

\* What poll_service sends wakes the connection, or is parked behind what already did.
LEMMA ServiceSendKeeps ==
    ASSUME TaskInv, NEW m \in MsgType \ {"data"}, ServiceSend(m), tpc \in {"respond", "signals"},
           tpc' \in Places, Parks => tpc' = "asleep",
           state' = state, queued' = queued, flush' = flush, body_end' = body_end,
           frames' = frames, first_frame' = first_frame,
           connected' = connected, blocked' = blocked, got' = got
    PROVE  TaskInv'
<1> USE DEF TaskInv
<1>1. fut = "none" /\ ~queued
    BY DEF FutureInv
<1>2. /\ NothingLost' /\ chan' \in Seq(MsgType) /\ sent' \in Seq(MsgType)
      /\ fut' \in MsgType \cup {"none", "sent"}
    BY <1>1, SendKeeps DEF ServiceSend
<1>3. /\ wake' = (wake \/ Accepts) /\ (~Accepts => chan' = chan) /\ (~Parks => fut' = "none")
    BY DEF ServiceSend, Put
<1>4. TypeInv'
    BY <1>2, <1>3 DEF TypeInv, Accepts
<1>5. FutureInv'
    BY <1>1, <1>3 DEF FutureInv
<1>6. HeardInv'
    BY <1>1, <1>3, Zenon DEF HeardInv
<1> QED BY <1>2, <1>4, <1>5, <1>6

\* 100 Continue, early hints, and the headers of HEAD and CONNECT.
LEMMA ServiceKeeps ==
    ASSUME TaskInv, RespondContinue \/ Respond \/ SignalContinue \/ SignalHint
    PROVE  TaskInv'
<1> USE DEF service, piping, upload, peer, still
<1>0. {"info", "headers", "headers_end"} \subseteq MsgType \ {"data"}
    BY DEF MsgType, Ends
<1>1. /\ state' = state /\ queued' = queued /\ flush' = flush /\ body_end' = body_end
      /\ frames' = frames /\ first_frame' = first_frame
      /\ connected' = connected /\ blocked' = blocked /\ got' = got
      /\ tpc \in {"respond", "signals"}
    BY DEF RespondContinue, Respond, SignalContinue, SignalHint
<1>2. \/ /\ chan' = chan /\ wake' = wake /\ sent' = sent /\ fut' = fut
         /\ tpc' \in {"respond", "service"}
      \/ /\ \E m \in {"info", "headers", "headers_end"} : ServiceSend(m)
         /\ tpc' \in {"respond", "service", "asleep"} /\ (Parks => tpc' = "asleep")
    BY <1>1 DEF RespondContinue, Respond, SignalContinue, SignalHint, Sleep, channel
<1>3. ASSUME NEW m \in {"info", "headers", "headers_end"}, ServiceSend(m),
             tpc' \in {"respond", "service", "asleep"}, Parks => tpc' = "asleep"
      PROVE  TaskInv'
    BY <1>0, <1>1, <1>3, ServiceSendKeeps DEF Places
<1>4. CASE /\ chan' = chan /\ wake' = wake /\ sent' = sent /\ fut' = fut
           /\ tpc' \in {"respond", "service"}
    <2> USE DEF TaskInv
    <2>1. fut = "none" /\ ~queued /\ Quiet
        BY <1>1, <1>4 DEF FutureInv, Quiet
    <2>2. NothingLost'
        BY <1>4, <2>1, QuietKeeps
    <2>3. TypeInv'
        BY <1>1, <1>4 DEF TypeInv, Places
    <2>4. FutureInv' /\ HeardInv'
        BY <1>1, <1>4, <2>1 DEF FutureInv, HeardInv
    <2> QED BY <2>2, <2>3, <2>4
<1> QED BY <1>2, <1>3, <1>4
\* One message of the body, with what it does to the kept frame: accepted it leaves the
\* flush to do or ends the body, parked it hands the flush over to the wake token.
LEMMA PipeKeeps ==
    ASSUME TaskInv, tpc = "body", ~body_end, connected, NEW m \in MsgType, Pipe(m),
           state' = state, connected' = connected, blocked' = blocked, got' = got,
           first_frame' \in Frames \cup {"none"}, frames' \in Nat,
           frames' + (IF first_frame = "data" THEN 1 ELSE 0)
             = frames + (IF m = "data" THEN 1 ELSE 0) + (IF first_frame' = "data" THEN 1 ELSE 0)
    PROVE  TaskInv'
<1> USE DEF TaskInv
<1>0. fut = "none" /\ ~queued /\ Put(m) /\ frames \in Nat
    BY DEF FutureInv, Pipe, TypeInv
<1>1. /\ chan' \in Seq(MsgType) /\ sent' \in Seq(MsgType)
      /\ got' \o chan' \o Parked(fut') = sent'
      /\ Cardinality(DataAt(sent')) = Cardinality(DataAt(sent)) + (IF m = "data" THEN 1 ELSE 0)
      /\ (Parks => fut' = m /\ chan' = chan) /\ (~Parks => fut' = "none")
    BY <1>0, PutFacts
<1>2. Accepts \/ Parks
    BY DEF Parks
<1>3. /\ wake' = (wake \/ (Parks /\ flush))
      /\ flush' = (flush \/ (Accepts /\ ~body_end'))
      /\ Accepts => tpc' = tpc /\ queued' = queued
      /\ Parks => tpc' = "asleep" /\ queued' = queued
    BY <1>2 DEF Pipe, Piped, Sleep, Parks
<1>4. NothingLost'
    <2>1. Cardinality(DataAt(sent)) \in Nat
        BY DataCount DEF TypeInv
    <2>2. frames = Cardinality(DataAt(sent)) + (IF first_frame = "data" THEN 1 ELSE 0)
        BY Zenon DEF NothingLost, DataAt
    <2>3. frames' = Cardinality(DataAt(sent')) + (IF first_frame' = "data" THEN 1 ELSE 0)
        BY <1>0, <1>1, <2>1, <2>2
    <2> QED BY <1>1, <2>3, Zenon DEF NothingLost, Parked, DataAt
<1>5. TypeInv'
    <2>1. wake' \in BOOLEAN /\ flush' \in BOOLEAN
        BY <1>3
    <2>2. tpc' \in Places /\ fut' \in MsgType \cup {"none", "sent"}
        BY <1>1, <1>2, <1>3 DEF Places
    <2> QED BY <1>1, <2>1, <2>2 DEF TypeInv
<1>6. FutureInv'
    BY <1>0, <1>1, <1>2, <1>3 DEF FutureInv, Parks
<1>7. HeardInv'
    <2>1. CASE Accepts
        BY <1>3, <2>1, Zenon DEF HeardInv
    <2>2. CASE Parks
        BY <1>0, <1>1, <1>3, <2>2, Zenon DEF HeardInv
    <2> QED BY <1>2, <2>1, <2>2
<1> QED BY <1>4, <1>5, <1>6, <1>7

\* A frame of the response body.
LEMMA BodyFrameKeeps ==
    ASSUME TaskInv, NEW f \in Frames \cup {"pending", "error", "eof"}, BodyFrame(f)
    PROVE  TaskInv'
<1> USE DEF TaskInv
<1>1. /\ tpc = "body" /\ ~body_end /\ connected /\ state' = state /\ connected' = connected
      /\ blocked' = blocked /\ got' = got
      /\ frames' = IF f = "data" /\ first_frame = "none" THEN frames + 1 ELSE frames
    BY DEF BodyFrame
<1>2. fut = "none" /\ ~queued /\ frames \in Nat /\ first_frame \in Frames \cup {"none"}
    BY <1>1 DEF FutureInv, TypeInv
<1>3. first_frame # "none" => f = first_frame
    BY DEF BodyFrame, Outcomes
<1>4. \/ /\ f = "pending" /\ tpc' = "asleep" /\ wake' = (wake \/ flush) /\ queued' = queued
         /\ fut' = fut /\ chan' = chan /\ sent' = sent /\ body_end' = body_end
         /\ first_frame' = first_frame /\ flush' = flush
      \/ /\ f = "unknown" /\ tpc' = "top" /\ wake' = wake /\ queued' = TRUE
         /\ fut' = fut /\ chan' = chan /\ sent' = sent /\ body_end' = body_end
         /\ first_frame' = "none" /\ flush' = flush
      \/ f \in Frames /\ first_frame' = f /\ Pipe("headers")
      \/ f = "data" /\ first_frame' = "none" /\ Pipe("data")
      \/ f = "trailers" /\ first_frame' = "none" /\ Pipe("trailers")
      \/ /\ f \in {"error", "eof"} /\ first_frame' = first_frame
         /\ \E m \in {"reset", "headers_end", "end"} : Pipe(m)
    BY DEF BodyFrame, Kept, Sleep, Finish, channel, Frames
<1>5. ASSUME fut' = fut, chan' = chan, sent' = sent, body_end' = body_end, flush' = flush,
             f \in {"pending", "unknown"},
             \/ tpc' = "asleep" /\ wake' = (wake \/ flush) /\ queued' = queued
             \/ tpc' = "top" /\ wake' = wake /\ queued' = TRUE,
             first_frame' = first_frame \/ (f = "unknown" /\ first_frame' = "none")
      PROVE  TaskInv'
    <2>1. frames' = frames /\ (first_frame' = "data" <=> first_frame = "data")
        BY <1>1, <1>3, <1>5
    <2>2. connected => /\ got' \o chan' \o Parked(fut') = sent'
                       /\ frames' = Cardinality(DataAt(sent')) + (IF first_frame' = "data" THEN 1 ELSE 0)
        BY <1>1, <1>5, <2>1, Zenon DEF NothingLost, Parked, DataAt
    <2>3. NothingLost'
        BY <1>1, <2>2, Zenon DEF NothingLost, Parked, DataAt
    <2>4. TypeInv'
        BY <1>1, <1>2, <1>5, <2>1 DEF TypeInv, Places
    <2>5. FutureInv'
        BY <1>2, <1>5 DEF FutureInv
    <2>6. HeardInv'
        BY <1>1, <1>2, <1>5, Zenon DEF HeardInv
    <2> QED BY <2>3, <2>4, <2>5, <2>6
<1>6. ASSUME NEW m \in {"headers", "data", "trailers", "reset", "headers_end", "end"}, Pipe(m),
             first_frame' \in Frames \cup {"none"},
             \/ f \in Frames /\ first_frame' = f /\ m = "headers"
             \/ f = "data" /\ first_frame' = "none" /\ m = "data"
             \/ f = "trailers" /\ first_frame' = "none" /\ m = "trailers"
             \/ f \in {"error", "eof"} /\ first_frame' = first_frame /\ m # "data"
      PROVE  TaskInv'
    <2>1. m \in MsgType
        BY DEF MsgType, Ends
    <2>2. frames' \in Nat
        BY <1>1, <1>2
    <2>3. frames' + (IF first_frame = "data" THEN 1 ELSE 0)
            = frames + (IF m = "data" THEN 1 ELSE 0) + (IF first_frame' = "data" THEN 1 ELSE 0)
        BY <1>1, <1>2, <1>3, <1>6 DEF Frames
    <2> QED BY <1>1, <1>6, <2>1, <2>2, <2>3, PipeKeeps
<1> QED BY <1>2, <1>4, <1>5, <1>6, Zenon

\* The connection drains the channel.
LEMMA DrainKeeps ==
    ASSUME TaskInv, ConnWake \/ ConnRead \/ EndOfRead
    PROVE  TaskInv'
<1> USE DEF TaskInv, idle, service, piping
<1>1. /\ tpc \in {"asleep", "exit", "panicked"} /\ tpc' = tpc /\ state' = state
      /\ queued' = queued /\ flush' = flush /\ first_frame' = first_frame
      /\ frames' = frames /\ sent' = sent /\ (wake' = wake \/ wake' = FALSE)
      /\ \E b \in {blocked, TRUE, FALSE} : Drain(b)
    BY Zenon DEF ConnWake, ConnRead, EndOfRead, Outside
<1>2. /\ chan' \in Seq(MsgType) /\ got' \in Seq(MsgType) /\ connected' \in BOOLEAN
      /\ connected' => connected
      /\ fut' = fut \/ (fut \in MsgType /\ fut' = "sent")
      /\ connected' => got' \o chan' \o Parked(fut') = sent'
      /\ connected' /\ ~blocked' => chan' = <<>>
    BY <1>1, DrainFacts
<1>3. NothingLost'
    <2>1. connected => frames = Cardinality(DataAt(sent)) + (IF first_frame = "data" THEN 1 ELSE 0)
        BY Zenon DEF NothingLost, DataAt
    <2>2. connected' => frames' = Cardinality(DataAt(sent')) + (IF first_frame' = "data" THEN 1 ELSE 0)
        BY <1>1, <1>2, <2>1, Zenon
    <2> QED BY <1>2, <2>2, Zenon DEF NothingLost, Parked, DataAt
<1>4. TypeInv'
    BY <1>1, <1>2, Zenon DEF TypeInv
<1>5. FutureInv'
    <2>1. "none" \notin MsgType
        BY DEF MsgType, Ends
    <2> QED BY <1>1, <1>2, <2>1 DEF FutureInv
<1>6. HeardInv'
    BY <1>2 DEF HeardInv
<1> QED BY <1>3, <1>4, <1>5, <1>6

\* The stream is reset, or the connection ends.
LEMMA GoneKeeps ==
    ASSUME TaskInv, ConnReset \/ ConnEnds
    PROVE  TaskInv'
<1> USE DEF TaskInv, idle, service, piping
<1>1. /\ connected' = FALSE /\ tpc' = tpc /\ state' = state /\ fut' = fut
      /\ queued' = queued /\ flush' = flush /\ first_frame' = first_frame
      /\ frames' = frames /\ sent' = sent /\ wake' = wake /\ got' = got /\ chan' = <<>>
    BY DEF ConnReset, ConnEnds
<1>2. TypeInv'
    BY <1>1, EmptySeq, Zenon DEF TypeInv
<1> QED BY <1>1, <1>2 DEF NothingLost, FutureInv, HeardInv

\* Steps of the connection, and wake-ups, that do not touch the messages.
LEMMA OtherKeeps ==
    ASSUME TaskInv, Flushed \/ HandlerWakes \/ \E m \in {"data", "eof"} : ConnData(m)
    PROVE  TaskInv'
<1> USE DEF TaskInv, idle, service, piping, channel, peer
<1>1. /\ Quiet /\ tpc' = tpc /\ state' = state /\ fut' = fut /\ body_end' = body_end
      /\ queued' = queued /\ flush' = flush /\ wake' = wake
    BY DEF Flushed, HandlerWakes, ConnData, Quiet
<1>2. NothingLost'
    BY <1>1, QuietKeeps
<1> QED BY <1>1, <1>2 DEF Quiet, TypeInv, FutureInv, HeardInv
-----------------------------------------------------------------------------
(* The theorems. *)

\* The inductive invariant: where a message may be at each place of poll.
THEOREM TaskInvariant == Spec => []TaskInv
<1>1. Init => TaskInv
    <2> SUFFICES ASSUME Init
                 PROVE  TaskInv
        OBVIOUS
    <2>1. TypeInv
        BY EmptySeq, Zenon DEF Init, TypeInv, Places
    <2>2. FutureInv /\ HeardInv
        BY DEF Init, FutureInv, HeardInv
    <2>3. NothingLost
        <3>1. got \o chan \o Parked(fut) = sent
            <4>1. "none" \notin MsgType
                BY DEF MsgType, Ends
            <4>2. Parked(fut) = <<>>
                BY <4>1 DEF Init, Parked
            <4>3. \A x \in Seq(MsgType) : x \o <<>> \o <<>> = x
                OBVIOUS
            <4>4. <<>> \in Seq(MsgType)
                BY EmptySeq
            <4> QED BY <4>2, <4>3, <4>4, Zenon DEF Init
        <3>2. Cardinality(DataAt(sent)) = 0
            <4>1. DataAt(sent) = {}
                BY DEF DataAt, Init
            <4> QED BY <4>1, FS_EmptySet
        <3>3. frames = Cardinality(DataAt(sent)) + (IF first_frame = "data" THEN 1 ELSE 0)
            BY <3>2 DEF Init
        <3> QED BY <3>1, <3>3, Zenon DEF NothingLost, Parked, DataAt
    <2> QED BY <2>1, <2>2, <2>3 DEF TaskInv
<1>2. TaskInv /\ [Next]_vars => TaskInv'
    <2> SUFFICES ASSUME TaskInv, [Next]_vars
                 PROVE  TaskInv'
        OBVIOUS
    <2>1. CASE TaskStep
        BY <2>1, PollKeeps, TopFutureKeeps, TopQueueKeeps, TopStateKeeps, ServiceDoneKeeps,
           PollResponseKeeps, ServiceKeeps, BodyFrameKeeps DEF TaskStep
    <2>2. CASE ConnectionStep \/ PeerStep \/ HandlerWakes
        BY <2>2, DrainKeeps, GoneKeeps, OtherKeeps DEF ConnectionStep, PeerStep
    <2>3. CASE UNCHANGED vars
        <3>1. Quiet /\ fut' = fut
            BY <2>3 DEF vars, service, piping, task, upload, channel, peer, Quiet
        <3>2. NothingLost'
            BY <3>1, QuietKeeps DEF TaskInv
        <3> QED BY <2>3, <3>2 DEF vars, service, piping, task, channel, peer,
                   TaskInv, TypeInv, FutureInv, HeardInv
    <2> QED BY <2>1, <2>2, <2>3 DEF Next
<1> QED BY <1>1, <1>2, PTL DEF Spec

\* Every message the StreamDriver produced is handled, waits in the channel or is parked in
\* its send future, in order, and every DATA frame of the response is one of them or kept as
\* the first frame.
THEOREM MessagesAreKept == Spec => []NothingLost
<1>1. TaskInv => NothingLost
    BY DEF TaskInv
<1> QED BY <1>1, TaskInvariant, PTL

\* With the drive loop and the task asleep, a message the window does not hold back waits in
\* the channel only when Closed is parked behind it.
THEOREM MessagesAreHeard == Spec => []UnheardOnlyAtClosed
<1>1. TaskInv => UnheardOnlyAtClosed
    BY DEF TaskInv, HeardInv, FutureInv, UnheardOnlyAtClosed, Unheard
<1> QED BY <1>1, TaskInvariant, PTL
=============================================================================
