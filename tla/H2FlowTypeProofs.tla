------------------------- MODULE H2FlowTypeProofs ---------------------------
(***************************************************************************)
(* Type correctness of H2FlowControl, for any streams, windows, frame      *)
(* sizes and channel capacity, and what its operators do to the state.     *)
(***************************************************************************)
EXTENDS H2FlowControl, SequenceTheorems, TLAPS

\* What Update and Remove do to the map of open streams.
LEMMA UpdateStreams ==
    ASSUME TypeOK, NEW s \in Streams, NEW e \in StreamEntry, Update(s, e)
    PROVE  /\ Open' = Open \cup {s}
           /\ Open' \subseteq Streams
           /\ streams' \in [Open' -> StreamEntry]
           /\ streams'[s] = e
           /\ \A t \in Open : t # s => streams'[t] = streams[t]
           /\ closed_streams' = closed_streams
BY DEF TypeOK, Update, With, Open

\* Closing a stream drops its entry, and the stream counts as closed.
LEMMA RemoveStreams ==
    ASSUME TypeOK, NEW s \in Streams, Remove(s)
    PROVE  /\ Open' = Open \ {s}
           /\ Open' \subseteq Streams
           /\ streams' \in [Open' -> StreamEntry]
           /\ \A t \in Open' : streams'[t] = streams[t]
           /\ closed_streams' \subseteq Streams
           /\ closed_streams' = closed_streams \cup {s}
BY DEF TypeOK, Remove, Without, Open

\* Replacing the front chunk of a queue gives a queue of the same length.
LEMMA FrontReplaced ==
    ASSUME NEW q \in Seq(Chunk), q # <<>>, NEW c \in Chunk
    PROVE  /\ [q EXCEPT ![1] = c] \in Seq(Chunk)
           /\ Len([q EXCEPT ![1] = c]) = Len(q)
<1>1. 1 \in 1 .. Len(q)
  BY EmptySeq
<1> QED
  BY <1>1, ExceptSeq

\* The front of a non-empty queue has a length.
LEMMA HeadOfPending ==
    ASSUME TypeOK, NEW s \in Open, HasData(streams[s])
    PROVE  /\ Head(streams[s].pending_data) \in Chunk
           /\ Head(streams[s].pending_data).len \in Nat
<1>1. streams[s].pending_data \in Seq(Chunk) /\ streams[s].pending_data # <<>>
  BY DEF TypeOK, HasData, StreamEntry
<1>2. Head(streams[s].pending_data) \in Chunk
  BY <1>1, HeadTailProperties
<1> QED
  BY <1>2 DEF Chunk

\* A frame of n octets on stream s.
LEMMA WriteWire ==
    ASSUME TypeOK, NEW s \in Streams, NEW kind, NEW n \in Nat, NEW fin \in BOOLEAN,
           Write(s, kind, n, fin)
    PROVE  /\ wire' \in [Streams -> [phase : Phase, octets : Nat]]
           /\ wire'[s].octets = wire[s].octets + n
           /\ \A t \in Streams : t # s => wire'[t] = wire[t]
           /\ conn_sent' = conn_sent + n /\ conn_sent' \in Nat
<1>1. NextPhase(wire[s].phase, kind, fin) \in Phase
  BY DEF NextPhase, Phase
<1>2. wire[s].octets + n \in Nat
  BY DEF TypeOK
<1> QED
  BY <1>1, <1>2 DEF TypeOK, Write

\* One DATA frame from the front of s: what it takes from the windows and
\* what it leaves of the entry.
LEMMA SendFrontStep ==
    ASSUME TypeOK, NEW s \in Open, HasData(streams[s]),
           NEW n \in Nat, n <= Head(streams[s].pending_data).len,
           NEW d \in Nat, d <= streams[s].deficit,
           SendFront(s, n, d)
    PROVE  /\ conn_window' = conn_window - n
           /\ conn_sent' = conn_sent + n
           /\ wire' \in [Streams -> [phase : Phase, octets : Nat]]
           /\ wire'[s].octets = wire[s].octets + n
           /\ \A t \in Streams : t # s => wire'[t] = wire[t]
           /\ Open' \subseteq Open
           /\ streams' \in [Open' -> StreamEntry]
           /\ \A t \in Open' : t # s => streams'[t] = streams[t]
           /\ closed_streams' \subseteq Streams
           /\ Open \cup closed_streams \subseteq Open' \cup closed_streams'
           /\ s \in Open' =>
                /\ streams'[s].send_window = streams[s].send_window - n
                /\ streams'[s].deficit = streams[s].deficit - d
                /\ streams'[s].credit = streams[s].credit
                /\ streams'[s].msg_rx = streams[s].msg_rx
                /\ streams'[s].task = streams[s].task
                /\ streams'[s].task_done = streams[s].task_done
                /\ Len(streams'[s].pending_data) <= Len(streams[s].pending_data)
                /\ ~(streams'[s].task_done /\ streams'[s].local_ended)
<1> DEFINE e == streams[s]
           c == Head(e.pending_data)
           fin == FrameEnd(c, n)
           q == IF n = c.len THEN Tail(e.pending_data)
                ELSE [e.pending_data EXCEPT ![1] = [len |-> c.len - n, end |-> c.end]]
           f == [e EXCEPT !.pending_data = q, !.send_window = @ - n,
                          !.local_ended = @ \/ fin, !.deficit = @ - d]
<1>1. /\ s \in Streams /\ e \in StreamEntry
      /\ e.pending_data \in Seq(Chunk) /\ e.pending_data # <<>>
      /\ e.send_window \in Int /\ e.deficit \in Nat
      /\ e.local_ended = FALSE
  BY SMTT(30) DEF TypeOK, HasData, StreamEntry, Open
<1>2. c \in Chunk /\ fin \in BOOLEAN
  BY <1>1, HeadTailProperties, Zenon DEF FrameEnd, Chunk
<1>3. q \in Seq(Chunk) /\ Len(q) <= Len(e.pending_data)
  <2>1. CASE n = c.len
    BY <2>1, <1>1
  <2>2. CASE n # c.len
    <3>1. [len |-> c.len - n, end |-> c.end] \in Chunk
      BY <1>2 DEF Chunk
    <3> QED
      BY <2>2, <3>1, <1>1, FrontReplaced
  <2> QED
    BY <2>1, <2>2
<1>4. e.deficit - d \in Nat /\ e.send_window - n \in Int
  BY <1>1
<1>5. f \in StreamEntry
  BY <1>1, <1>2, <1>3, <1>4, Zenon DEF StreamEntry
<1>6. /\ wire' \in [Streams -> [phase : Phase, octets : Nat]]
      /\ wire'[s].octets = wire[s].octets + n
      /\ \A t \in Streams : t # s => wire'[t] = wire[t]
      /\ conn_sent' = conn_sent + n /\ conn_window' = conn_window - n
  BY <1>1, <1>2, WriteWire, Zenon DEF SendFront
<1>7. CASE Retire(e, fin)
  <2>1. Remove(s)
    BY <1>7 DEF SendFront
  <2> QED
    BY <2>1, <1>1, <1>6, RemoveStreams
<1>8. CASE ~Retire(e, fin)
  <2>1. Update(s, f)
    BY <1>8 DEF SendFront
  <2>2. ~(f.task_done /\ f.local_ended)
    BY <1>8, <1>1, <1>2 DEF Retire, StreamEntry
  <2>3. /\ f.send_window = e.send_window - n /\ f.credit = e.credit
        /\ f.msg_rx = e.msg_rx /\ f.task = e.task /\ f.task_done = e.task_done
        /\ f.pending_data = q /\ f.deficit = e.deficit - d
    BY <1>1 DEF StreamEntry
  <2>4. /\ Open' = Open \cup {s}
        /\ Open' \subseteq Streams
        /\ streams' \in [Open' -> StreamEntry]
        /\ streams'[s] = f
        /\ \A t \in Open : t # s => streams'[t] = streams[t]
        /\ closed_streams' = closed_streams
    BY <2>1, <1>1, <1>5, UpdateStreams
  <2> QED
    BY <2>2, <2>3, <2>4, <1>3, <1>6, Zenon DEF TypeOK
<1> QED
  BY <1>7, <1>8

\* What a pump may send of the front chunk: no more than the chunk has, and
\* no more than either window.
LEMMA FrontAmountBounds ==
    ASSUME TypeOK, NEW s \in Open, ~Stuck(s)
    PROVE  /\ HasData(streams[s])
           /\ FrontAmount(s) \in Nat
           /\ FrontAmount(s) <= Head(streams[s].pending_data).len
           /\ FrontAmount(s) > 0 =>
                FrontAmount(s) <= conn_window /\ FrontAmount(s) <= streams[s].send_window
<1> DEFINE e == streams[s]
           c == Head(e.pending_data)
<1>1. HasData(e) /\ ~(c.len > 0 /\ Available(e) <= 0)
  BY DEF Stuck
<1>2. e.pending_data \in Seq(Chunk) /\ e.pending_data # <<>> /\ e.send_window \in Int
  BY <1>1, SMTT(30) DEF TypeOK, HasData, StreamEntry, Open
<1>3. c \in Chunk
  BY <1>2, HeadTailProperties
<1>4. c.len \in Nat /\ conn_window \in Int /\ max_frame_size \in Nat \ {0}
  BY <1>3 DEF Chunk, TypeOK
<1>5. CASE c.len = 0
  BY <1>1, <1>5 DEF FrontAmount
<1>6. CASE c.len # 0
  <2>1. Available(e) \in Nat \ {0} /\ Available(e) <= conn_window
        /\ Available(e) <= e.send_window
    BY <1>1, <1>2, <1>4, <1>6 DEF Available, MinOf
  <2>2. FrontAmount(s) = MinOf(MinOf(c.len, Available(e)), max_frame_size)
    BY <1>6 DEF FrontAmount
  <2> QED
    BY <1>1, <1>2, <1>4, <2>1, <2>2 DEF MinOf
<1> QED
  BY <1>5, <1>6
-----------------------------------------------------------------------------

\* Type correctness, inductive once the batch at work is known to be a
\* stream's.
TypeInv == TypeOK /\ (pc \in {"msgs", "msgpump"} => cur \in Streams)

\* A new connection has no stream and is well typed.
LEMMA TypeInvInit == Init => TypeInv
<1> SUFFICES ASSUME Init PROVE TypeInv
  OBVIOUS
<1>1. Open = {} /\ streams \in [Open -> StreamEntry]
  BY DEF Init, Open
<1>2. msgs \in Seq(StreamMsg)
  BY EmptySeq DEF Init
<1>3. wire \in [Streams -> [phase : Phase, octets : Nat]]
  BY DEF Init, Phase
<1>4. served \in [Streams -> Nat]
  BY DEF Init
<1>5. /\ conn_window \in Int /\ initial_window_size \in 0 .. MaxWindow
      /\ max_frame_size \in Nat \ {0} /\ conn_sent \in Nat /\ conn_credit \in Nat
  BY FlowAssumption DEF Init
<1>6. pc \in Pc /\ ~(pc \in {"msgs", "msgpump"})
  BY DEF Init, Pc
<1> QED
  BY <1>1, <1>2, <1>3, <1>4, <1>5, <1>6, Zenon DEF Init, TypeInv, TypeOK

\* Frames of the peer.
LEMMA TypeInvPeer ==
    ASSUME TypeInv, PeerFrame
    PROVE  TypeInv'
<1> USE DEF TypeInv, conn, drr, out
<1>1. ASSUME NEW s \in Streams, OpenStream(s)
      PROVE  TypeInv'
  <2> DEFINE e == [send_window |-> initial_window_size, pending_data |-> <<>>,
                   local_ended |-> FALSE, task_done |-> FALSE, deficit |-> 0,
                   msg_rx |-> <<>>, task |-> "service",
                   credit |-> initial_window_size, produced |-> 0,
                   raised |-> FALSE]
  <2>1. e \in StreamEntry
    BY EmptySeq, FlowAssumption DEF StreamEntry, TaskState, TypeOK
  <2>2. Update(s, e)
    BY <1>1 DEF OpenStream
  <2> HIDE DEF e
  <2>3. Open' \subseteq Streams /\ streams' \in [Open' -> StreamEntry]
        /\ closed_streams' = closed_streams
    BY <2>1, <2>2, UpdateStreams
  <2> QED
    BY <1>1, <2>3 DEF OpenStream, TypeOK, Pc
<1>2. ASSUME NEW s \in Streams, ResetFrame(s)
      PROVE  TypeInv'
  <2>1. Open' \subseteq Streams /\ streams' \in [Open' -> StreamEntry]
        /\ closed_streams' \subseteq Streams
    BY <1>2 DEF ResetFrame, Remove, Without, TypeOK, Open
  <2> QED
    BY <1>2, <2>1, Zenon DEF ResetFrame, TypeOK, Pc
<1>3. ASSUME NEW inc \in Increments, ConnWindowUpdate(inc)
      PROVE  TypeInv'
  <2>1. inc \in Nat
    BY FlowAssumption
  <2>2. Open' = Open /\ ids' \subseteq Streams
    <3>1. Open' = Open /\ Reopened(conn_window') \subseteq Open
      BY <1>3 DEF ConnWindowUpdate, Reopened, Blocked, Open
    <3> QED
      BY <1>3, <3>1 DEF ConnWindowUpdate, TypeOK
  <2>3. conn_window' \in Int /\ conn_credit' \in Nat /\ ending' \in BOOLEAN
    <3>1. CASE Overflows(conn_window, inc)
      BY <1>3, <2>1, <3>1 DEF ConnWindowUpdate, TypeOK
    <3>2. CASE ~Overflows(conn_window, inc)
      BY <1>3, <2>1, <3>2 DEF ConnWindowUpdate, TypeOK
    <3> QED
      BY <3>1, <3>2
  <2>4. pc' \in Pc /\ ~(pc' \in {"msgs", "msgpump"})
    BY <1>3 DEF ConnWindowUpdate, Pc
  <2> QED
    BY <1>3, <2>2, <2>3, <2>4 DEF ConnWindowUpdate, TypeOK
<1>4. ASSUME NEW s \in Streams, NEW inc \in Increments, StreamWindowUpdate(s, inc)
      PROVE  TypeInv'
  <2>1. inc \in Nat
    BY FlowAssumption
  <2>5. s \in Open /\ streams[s] \in StreamEntry
    BY <1>4 DEF StreamWindowUpdate, TypeOK
  <2>2. CASE Remove(s) /\ Write(s, "reset", 0, FALSE)
    <3>1. NextPhase(wire[s].phase, "reset", FALSE) \in Phase
      BY DEF NextPhase, Phase
    <3>2. wire' \in [Streams -> [phase : Phase, octets : Nat]] /\ conn_sent' \in Nat
      BY <2>2, <3>1, WriteWire, Zenon DEF TypeOK
    <3>3. Open' \subseteq Streams /\ streams' \in [Open' -> StreamEntry]
          /\ closed_streams' \subseteq Streams
      BY <2>2, RemoveStreams
    <3> QED
      BY <1>4, <3>2, <3>3, Zenon DEF StreamWindowUpdate, TypeOK, Pc
  <2>3. CASE UNCHANGED <<streams, closed_streams, out>>
    BY <1>4, <2>3, Zenon DEF StreamWindowUpdate, TypeOK, Pc, Open
  <2>4. CASE Update(s, [streams[s] EXCEPT !.send_window = @ + inc, !.credit = @ + inc,
                                          !.raised = FALSE])
             /\ UNCHANGED out
    <3> DEFINE e == [streams[s] EXCEPT !.send_window = @ + inc, !.credit = @ + inc,
                                       !.raised = FALSE]
    <3>1. e \in StreamEntry
      <4>1. streams[s].send_window + inc \in Int /\ streams[s].credit + inc \in Int
        BY <2>1, <2>5 DEF StreamEntry
      <4> QED
        BY <2>5, <4>1, Zenon DEF StreamEntry
    <3>4. Update(s, e)
      BY <2>4
    <3> HIDE DEF e
    <3>2. Open' \subseteq Streams /\ streams' \in [Open' -> StreamEntry]
          /\ closed_streams' = closed_streams
      BY <3>4, <3>1, UpdateStreams, SMTT(30)
    <3> QED
      BY <1>4, <2>4, <3>2, Zenon DEF StreamWindowUpdate, TypeOK, Pc
  <2> QED
    BY <1>4, <2>2, <2>3, <2>4, Zenon DEF StreamWindowUpdate
<1>5. ASSUME NEW v \in WindowSizes, InitialWindowSetting(v)
      PROVE  TypeInv'
  <2>1. v \in 0 .. MaxWindow
    BY FlowAssumption, SMTT(30)
  <2> DEFINE f(s) == [streams[s] EXCEPT !.send_window = Shifted(@, v),
                                        !.credit = @ + (v - initial_window_size),
                                        !.raised = @ \/ v - initial_window_size > 0]
  <2>3. streams' = [s \in Open |-> f(s)]
    BY <1>5, Zenon DEF InitialWindowSetting
  <2>4. ASSUME NEW s \in Open
        PROVE  f(s) \in StreamEntry
    <3>1. streams[s] \in StreamEntry /\ initial_window_size \in Int /\ v \in Int
      BY <2>1, FlowAssumption DEF TypeOK
    <3>2. /\ Shifted(streams[s].send_window, v) \in Int
          /\ streams[s].credit + (v - initial_window_size) \in Int
      BY <3>1 DEF StreamEntry, Shifted
    <3>3. (streams[s].raised \/ v - initial_window_size > 0) \in BOOLEAN
      OBVIOUS
    <3> QED
      BY <3>1, <3>2, <3>3, Zenon DEF StreamEntry
  <2> HIDE DEF f
  <2>2. Open' = Open /\ streams' \in [Open' -> StreamEntry]
    BY <2>3, <2>4 DEF Open
  <2> QED
    BY <1>5, <2>1, <2>2, Zenon DEF InitialWindowSetting, TypeOK, Pc
<1>6. ASSUME NEW v \in FrameSizes, MaxFrameSetting(v)
      PROVE  TypeInv'
  BY <1>6, FlowAssumption, Zenon DEF MaxFrameSetting, TypeOK, Pc, Open
<1>7. CASE OtherFrame
  BY <1>7 DEF OtherFrame, TypeOK, Pc, Open
<1>8. CASE PeerGoAway
  BY <1>8 DEF PeerGoAway, TypeOK, Pc, Open
<1>9. CASE LoopEnds
  BY <1>9 DEF LoopEnds, TypeOK, Pc, Open
<1> QED
  BY <1>1, <1>2, <1>3, <1>4, <1>5, <1>6, <1>7, <1>8, <1>9 DEF PeerFrame

\* Steps of the draining loops.
LEMMA TypeInvDrain ==
    ASSUME TypeInv,
           \/ PumpStreamData
           \/ \E s \in Streams : DrrVisit(s)
           \/ DrrPump
           \/ DrrRound
           \/ StartDrain
           \/ \E s \in Streams : DrainStream(s)
           \/ EndDrain
    PROVE  TypeInv'
<1> USE DEF TypeInv, conn, drr, out
<1>1. CASE PumpStreamData
  <2>1. CASE Stuck(cur)
    BY <1>1, <2>1 DEF PumpStreamData, TypeOK, Pc, Open
  <2>2. CASE ~Stuck(cur)
    <3>1. cur \in Open
      BY <2>2 DEF Stuck
    <3>2. SendFront(cur, FrontAmount(cur), 0) /\ UNCHANGED <<pc, cur>>
      BY <1>1, <2>2 DEF PumpStreamData
    <3>3. 0 <= streams[cur].deficit
      BY <3>1 DEF TypeOK, StreamEntry
    <3>4. /\ HasData(streams[cur]) /\ FrontAmount(cur) \in Nat
          /\ FrontAmount(cur) <= Head(streams[cur].pending_data).len
      BY <2>2, <3>1, FrontAmountBounds
    <3> HIDE DEF TypeInv
    <3>5. TypeOK
      BY DEF TypeInv
    <3>6. /\ conn_window' = conn_window - FrontAmount(cur)
          /\ conn_sent' = conn_sent + FrontAmount(cur)
          /\ wire' \in [Streams -> [phase : Phase, octets : Nat]]
          /\ Open' \subseteq Open /\ streams' \in [Open' -> StreamEntry]
          /\ closed_streams' \subseteq Streams
      BY <3>1, <3>2, <3>3, <3>4, <3>5, SendFrontStep
    <3>7. conn_window' \in Int /\ conn_sent' \in Nat
      BY <3>4, <3>5, <3>6, SMTT(30) DEF TypeOK
    <3> QED
      BY <1>1, <3>2, <3>5, <3>6, <3>7, SMTT(30) DEF PumpStreamData, TypeOK, TypeInv
  <2> QED
    BY <2>1, <2>2
<1>2. ASSUME NEW s \in Streams, DrrVisit(s)
      PROVE  TypeInv'
  <2>1. CASE s \in Blocked /\ streams[s].send_window > 0
    <3> DEFINE e == [streams[s] EXCEPT !.deficit = @ + max_frame_size, !.raised = FALSE]
    <3>1. s \in Open /\ streams[s] \in StreamEntry
      BY <2>1 DEF Blocked, TypeOK
    <3>2. streams[s].deficit + max_frame_size \in Nat
      BY <3>1, SMTT(30) DEF StreamEntry, TypeOK
    <3>3. e \in StreamEntry
      BY <3>1, <3>2, Zenon DEF StreamEntry
    <3>4. Update(s, e) /\ pc' = "drrpump" /\ cur' = s
      BY <1>2, <2>1, Zenon DEF DrrVisit
    <3> HIDE DEF e
    <3>5. Open' \subseteq Streams /\ streams' \in [Open' -> StreamEntry]
          /\ closed_streams' = closed_streams
      BY <3>3, <3>4, UpdateStreams, SMTT(30)
    <3> QED
      BY <1>2, <3>4, <3>5, Zenon DEF DrrVisit, TypeOK, Pc
  <2>2. CASE ~(s \in Blocked /\ streams[s].send_window > 0)
    BY <1>2, <2>2, Zenon DEF DrrVisit, TypeOK, Open
  <2> QED
    BY <2>1, <2>2
<1>3. CASE DrrPump
  <2> DEFINE n == MinOf(FrontAmount(cur), streams[cur].deficit)
  <2>1. /\ pc' \in {"drr", "drrpump"} /\ cur' \in {cur, NoStream}
        /\ ids' \subseteq Streams /\ progress' \in BOOLEAN
    BY <1>3, Zenon DEF DrrPump, TypeOK
  <2>2. CASE DrrStuck
    <3>1. UNCHANGED <<conn_window, streams, closed_streams, wire, conn_sent, served>>
      BY <1>3, <2>2 DEF DrrPump
    <3>2. next_ids' \subseteq Streams
      BY <1>3, <3>1 DEF DrrPump, Blocked, TypeOK, Open
    <3> QED
      BY <1>3, <2>1, <3>1, <3>2 DEF DrrPump, TypeOK, Pc, Open
  <2>3. CASE ~DrrStuck
    <3>1. cur \in Open /\ ~Stuck(cur)
      BY <2>3 DEF DrrStuck, Stuck
    <3>2. /\ SendFront(cur, n, n)
          /\ served' = [served EXCEPT ![cur] = IF n > 0 THEN @ + 1 ELSE @]
      BY <1>3, <2>3 DEF DrrPump, Turn
    <3>3. streams[cur].deficit \in Nat
      BY <3>1 DEF TypeOK, StreamEntry
    <3>4. /\ HasData(streams[cur]) /\ FrontAmount(cur) \in Nat
          /\ FrontAmount(cur) <= Head(streams[cur].pending_data).len
      BY <3>1, FrontAmountBounds
    <3>5. n \in Nat /\ n <= FrontAmount(cur) /\ n <= streams[cur].deficit
      BY <3>3, <3>4 DEF MinOf
    <3>6. Head(streams[cur].pending_data).len \in Nat
      BY <3>1, <3>4, HeadOfPending
    <3>7. n <= Head(streams[cur].pending_data).len
      BY <3>4, <3>5, <3>6
    <3> HIDE DEF n, TypeInv
    <3>8. TypeOK
      BY DEF TypeInv
    <3>9. /\ conn_window' = conn_window - n /\ conn_sent' = conn_sent + n
          /\ wire' \in [Streams -> [phase : Phase, octets : Nat]]
          /\ Open' \subseteq Open /\ streams' \in [Open' -> StreamEntry]
          /\ closed_streams' \subseteq Streams
      BY <3>1, <3>2, <3>3, <3>4, <3>5, <3>7, <3>8, SendFrontStep
    <3>10. served' \in [Streams -> Nat] /\ next_ids' \subseteq Streams
      BY <1>3, <3>1, <3>2, <3>8, <3>9 DEF DrrPump, Blocked, TypeOK
    <3>11. conn_window' \in Int /\ conn_sent' \in Nat
      BY <3>5, <3>8, <3>9 DEF TypeOK
    <3> QED
      BY <1>3, <2>1, <3>8, <3>9, <3>10, <3>11, SMTT(30) DEF DrrPump, TypeOK, Pc, TypeInv
  <2> QED
    BY <2>2, <2>3
<1>4. CASE DrrRound
  <2>1. /\ ids' \subseteq Streams /\ next_ids' \subseteq Streams
        /\ progress' \in BOOLEAN /\ pc' \in {"drr", "frames"}
    BY <1>4, Zenon DEF DrrRound, TypeOK
  <2>2. served' \in [Streams -> Nat]
    BY <1>4 DEF DrrRound, TypeOK
  <2> QED
    BY <1>4, <2>1, <2>2, SMTT(30) DEF DrrRound, TypeOK, Pc, Open
<1>5. CASE StartDrain
  BY <1>5 DEF StartDrain, TypeOK, Pc, Open
<1>6. ASSUME NEW s \in Streams, DrainStream(s)
      PROVE  TypeInv'
  <2>1. CASE s \in Open /\ ~LeftAlone(streams[s])
    <3> DEFINE e == [streams[s] EXCEPT !.msg_rx = <<>>]
    <3>1. streams[s] \in StreamEntry
      BY <2>1 DEF TypeOK
    <3>2. e \in StreamEntry /\ streams[s].msg_rx \in Seq(StreamMsg)
      BY <3>1, EmptySeq, Zenon DEF StreamEntry
    <3>3. Update(s, e) /\ pc' = "msgs" /\ cur' = s /\ msgs' = streams[s].msg_rx
      BY <1>6, <2>1 DEF DrainStream
    <3> HIDE DEF e
    <3>4. Open' \subseteq Streams /\ streams' \in [Open' -> StreamEntry]
          /\ closed_streams' = closed_streams
      BY <3>2, <3>3, UpdateStreams
    <3> QED
      BY <1>6, <3>2, <3>3, <3>4, SMTT(30) DEF DrainStream, TypeOK, Pc
  <2>2. CASE ~(s \in Open /\ ~LeftAlone(streams[s]))
    BY <1>6, <2>2, SMTT(30) DEF DrainStream, TypeOK, Open
  <2> QED
    BY <2>1, <2>2
<1>7. CASE EndDrain
  BY <1>7 DEF EndDrain, TypeOK, Pc, Open
<1> QED
  BY <1>1, <1>2, <1>3, <1>4, <1>5, <1>6, <1>7

\* The rest of a batch is a batch, shorter by one or two messages.
LEMMA RestOfBatch ==
    ASSUME NEW q \in Seq(StreamMsg), q # <<>>, q = msgs
    PROVE  /\ Head(q) \in StreamMsg
           /\ Rest \in Seq(StreamMsg)
           /\ Len(Rest) < Len(q)
           /\ Len(Rest) \in Nat
           /\ \E k \in {1, 2} :
                /\ Len(Rest) = Len(q) - k
                /\ \A i \in 1 .. Len(Rest) : Rest[i] = q[i + k]
<1>1. /\ Head(q) \in StreamMsg /\ Tail(q) \in Seq(StreamMsg)
      /\ Len(Tail(q)) = Len(q) - 1
      /\ \A i \in 1 .. Len(Tail(q)) : Tail(q)[i] = q[i + 1]
  BY HeadTailProperties
<1>2. Len(q) \in Nat /\ Len(Tail(q)) \in Nat
  BY <1>1, LenProperties
<1>3. CASE Merges
  <2>1. Tail(q) # <<>>
    <3>1. Len(Tail(q)) # 0
      BY <1>1, <1>2, <1>3 DEF Merges
    <3>2. Len(<<>>) = 0
      BY EmptySeq
    <3> QED
      BY <3>1, <3>2, Zenon
  <2>2. /\ Tail(Tail(q)) \in Seq(StreamMsg)
        /\ Len(Tail(Tail(q))) = Len(Tail(q)) - 1
        /\ \A i \in 1 .. Len(Tail(Tail(q))) : Tail(Tail(q))[i] = Tail(q)[i + 1]
    BY <1>1, <2>1, HeadTailProperties
  <2>3. Rest = Tail(Tail(q))
    BY <1>3 DEF Rest
  <2>4. Len(Rest) = Len(q) - 2 /\ Len(Rest) \in Nat
    BY <1>1, <2>2, <2>3, LenProperties
  <2>5. \A i \in 1 .. Len(Rest) : Rest[i] = q[i + 2]
    <3> TAKE i \in 1 .. Len(Rest)
    <3>1. i + 1 \in 1 .. Len(Tail(q))
      BY <1>1, <1>2, <2>4
    <3>2. Tail(q)[i + 1] = q[(i + 1) + 1]
      BY <1>1, <3>1
    <3>3. (i + 1) + 1 = i + 2
      BY <2>4
    <3> QED
      BY <2>2, <2>3, <3>2, <3>3
  <2>6. Rest \in Seq(StreamMsg) /\ Len(Rest) < Len(q)
    BY <1>2, <2>2, <2>3, <2>4
  <2> QED
    BY <1>1, <2>4, <2>5, <2>6
<1>4. CASE ~Merges
  <2>1. Rest = Tail(q)
    BY <1>4 DEF Rest
  <2> QED
    BY <1>1, <1>2, <2>1
<1> QED
  BY <1>3, <1>4

\* Messages of the stream tasks.
LEMMA TypeInvMsgs ==
    ASSUME TypeInv, HandleStreamMsg \/ EndBatch
    PROVE  TypeInv'
<1> USE DEF TypeInv, conn, drr, out
<1>1. CASE HandleStreamMsg
  <2> DEFINE m == Head(msgs)
  <2>1. cur \in Streams /\ m \in StreamMsg /\ msgs' \in Seq(StreamMsg)
    <3>1. pc = "msgs" /\ msgs # <<>> /\ msgs' = Rest /\ msgs \in Seq(StreamMsg)
      BY <1>1 DEF HandleStreamMsg, TypeOK
    <3> QED
      BY <3>1, RestOfBatch
  <2>2. m.len \in Nat /\ m.end \in BOOLEAN /\ m.type \in MsgType
    BY <2>1 DEF StreamMsg
  <2>3. CASE HandleData
    <3>1. CASE cur \notin Open \/ streams[cur].local_ended
      BY <1>1, <2>1, <2>3, <3>1 DEF HandleStreamMsg, HandleData, TypeOK, Pc, Open
    <3>2. CASE ~(cur \notin Open \/ streams[cur].local_ended)
      <4> DEFINE c == [len |-> m.len, end |-> m.end \/ Merges]
                 e == [streams[cur] EXCEPT !.pending_data = Append(@, c), !.raised = FALSE]
      <4>1. streams[cur] \in StreamEntry /\ streams[cur].pending_data \in Seq(Chunk)
        BY <3>2 DEF TypeOK, StreamEntry
      <4>2. (m.end \/ Merges) \in BOOLEAN
        OBVIOUS
      <4>3. c \in Chunk
        BY <2>2, <4>2 DEF Chunk
      <4>4. Append(streams[cur].pending_data, c) \in Seq(Chunk)
        BY <4>1, <4>3, AppendProperties
      <4>5. e \in StreamEntry
        BY <4>1, <4>4, Zenon DEF StreamEntry
      <4>6. Update(cur, e) /\ pc' = "msgpump"
        BY <2>3, <3>2 DEF HandleData
      <4> HIDE DEF e
      <4>7. Open' \subseteq Streams /\ streams' \in [Open' -> StreamEntry]
            /\ closed_streams' = closed_streams
        BY <2>1, <4>5, <4>6, UpdateStreams
      <4> QED
        BY <1>1, <2>1, <2>3, <4>6, <4>7 DEF HandleStreamMsg, HandleData, TypeOK, Pc
    <3> QED
      BY <3>1, <3>2
  <2>4. CASE HandleHeaders
    <3>1. CASE cur \in Open /\ (m.type = "info" \/ ~streams[cur].local_ended)
      <4> DEFINE e == [streams[cur] EXCEPT !.local_ended = @ \/ m.end]
      <4>1. streams[cur] \in StreamEntry
        BY <3>1 DEF TypeOK
      <4>2. (streams[cur].local_ended \/ m.end) \in BOOLEAN
        OBVIOUS
      <4>3. e \in StreamEntry
        BY <4>1, <4>2, Zenon DEF StreamEntry
      <4>4. Update(cur, e) /\ Write(cur, m.type, 0, m.end) /\ UNCHANGED pc
        BY <2>4, <3>1 DEF HandleHeaders
      <4> HIDE DEF e
      <4>5. Open' \subseteq Streams /\ streams' \in [Open' -> StreamEntry]
            /\ closed_streams' = closed_streams
        BY <2>1, <4>3, <4>4, UpdateStreams
      <4>6. wire' \in [Streams -> [phase : Phase, octets : Nat]] /\ conn_sent' \in Nat
        BY <2>1, <2>2, <4>4, WriteWire
      <4> QED
        BY <1>1, <2>1, <4>4, <4>5, <4>6 DEF HandleStreamMsg, TypeOK
    <3>2. CASE cur \notin Open /\ m.type # "trailers"
      <4>1. /\ Write(cur, m.type, 0, m.end)
            /\ UNCHANGED <<streams, closed_streams, pc>>
        BY <2>4, <3>2 DEF HandleHeaders
      <4>2. wire' \in [Streams -> [phase : Phase, octets : Nat]] /\ conn_sent' \in Nat
        BY <2>1, <2>2, <4>1, WriteWire
      <4> QED
        BY <1>1, <2>1, <4>1, <4>2, SMTT(30) DEF HandleStreamMsg, TypeOK, Open
    <3>3. CASE /\ ~(cur \in Open /\ (m.type = "info" \/ ~streams[cur].local_ended))
               /\ ~(cur \notin Open /\ m.type # "trailers")
      <4>1. UNCHANGED <<streams, closed_streams, out, pc>>
        BY <2>4, <3>3 DEF HandleHeaders
      <4> QED
        BY <1>1, <2>1, <4>1 DEF HandleStreamMsg, TypeOK, Open
    <3> QED
      BY <3>1, <3>2, <3>3
  <2>5. CASE HandleReset
    <3>1. wire' \in [Streams -> [phase : Phase, octets : Nat]] /\ conn_sent' \in Nat
      BY <2>1, <2>5, WriteWire, Zenon DEF HandleReset
    <3>2. Open' \subseteq Streams /\ streams' \in [Open' -> StreamEntry]
          /\ closed_streams' \subseteq Streams
      BY <2>1, <2>5, RemoveStreams DEF HandleReset
    <3> QED
      BY <1>1, <2>1, <2>5, <3>1, <3>2 DEF HandleStreamMsg, HandleReset, TypeOK
  <2>6. CASE HandleClosed
    <3>1. Open' \subseteq Streams /\ streams' \in [Open' -> StreamEntry]
          /\ closed_streams' \subseteq Streams
      <4>1. CASE cur \notin Open
        BY <2>6, <4>1 DEF HandleClosed, TypeOK, Open
      <4>2. CASE cur \in Open /\ streams[cur].local_ended
        <5>1. Remove(cur)
          BY <2>6, <4>2 DEF HandleClosed
        <5> QED
          BY <2>1, <5>1, RemoveStreams
      <4>3. CASE cur \in Open /\ ~streams[cur].local_ended
        <5>1. streams[cur] \in StreamEntry
          BY <4>3 DEF TypeOK
        <5>2. TaskDone(streams[cur]) \in StreamEntry
          BY <5>1, Zenon DEF TaskDone, StreamEntry
        <5>3. Update(cur, TaskDone(streams[cur]))
          BY <2>6, <4>3 DEF HandleClosed
        <5>4. Open' \subseteq Streams /\ streams' \in [Open' -> StreamEntry]
              /\ closed_streams' = closed_streams
          BY <2>1, <5>2, <5>3, UpdateStreams
        <5> QED
          BY <5>4 DEF TypeOK
      <4> QED
        BY <4>1, <4>2, <4>3
    <3> QED
      BY <1>1, <2>1, <2>6, <3>1 DEF HandleStreamMsg, HandleClosed, TypeOK
  <2> QED
    BY <1>1, <2>3, <2>4, <2>5, <2>6 DEF HandleStreamMsg
<1>2. CASE EndBatch
  BY <1>2 DEF EndBatch, TypeOK, Pc, Open
<1> QED
  BY <1>1, <1>2

\* Stream tasks.
LEMMA TypeInvTask ==
    ASSUME TypeInv, NEW s \in Streams, TaskStep(s)
    PROVE  TypeInv'
<1> USE DEF TypeInv, conn, drr, out
<1>1. ASSUME NEW from, NEW to \in TaskState, NEW m \in StreamMsg, Send(s, from, to, m)
      PROVE  TypeInv'
  <2> DEFINE e == [streams[s] EXCEPT !.task = to, !.msg_rx = Append(@, m),
                                     !.produced = @ + m.len]
  <2>1. s \in Open /\ streams[s] \in StreamEntry
    BY <1>1 DEF Send, Room, TaskMove, TypeOK
  <2>2. Append(streams[s].msg_rx, m) \in Seq(StreamMsg)
    BY <2>1, AppendProperties DEF StreamEntry
  <2>3. streams[s].produced + m.len \in Nat
    BY <2>1 DEF StreamEntry, StreamMsg
  <2>4. e \in StreamEntry
    BY <2>1, <2>2, <2>3, Zenon DEF StreamEntry
  <2>5. Update(s, e)
    BY <1>1 DEF Send, Room
  <2> HIDE DEF e
  <2>6. Open' \subseteq Streams /\ streams' \in [Open' -> StreamEntry]
        /\ closed_streams' = closed_streams
    BY <2>4, <2>5, UpdateStreams
  <2> QED
    BY <1>1, <2>6 DEF Send, Room, TaskMove, TypeOK
<1>2. \A type \in MsgType, end \in BOOLEAN : Msg(type, 0, end) \in StreamMsg
  BY DEF Msg, StreamMsg
<1>3. \A n \in ChunkLens : Msg("data", n, FALSE) \in StreamMsg
  BY FlowAssumption DEF Msg, StreamMsg, MsgType
<1>4. \A t \in {"info", "headers", "data", "trailers", "reset", "closed"} : t \in MsgType
  BY DEF MsgType
<1>5. \A t \in {"service", "body", "ended", "closed"} : t \in TaskState
  BY DEF TaskState
<1>6. CASE TaskInformational(s)
  BY <1>1, <1>2, <1>4, <1>5, <1>6, Zenon DEF TaskInformational
<1>7. CASE TaskResponse(s)
  BY <1>1, <1>2, <1>4, <1>5, <1>7, Zenon DEF TaskResponse
<1>8. ASSUME NEW n \in ChunkLens, TaskData(s, n)
      PROVE  TypeInv'
  BY <1>1, <1>3, <1>5, <1>8, Zenon DEF TaskData
<1>9. CASE TaskBodyEnd(s) \/ TaskTrailers(s) \/ TaskBodyError(s) \/ TaskClosed(s)
  BY <1>1, <1>2, <1>4, <1>5, <1>9, Zenon DEF TaskBodyEnd, TaskTrailers, TaskBodyError, TaskClosed
<1>10. CASE TaskGivesUp(s)
  <2> DEFINE e == [streams[s] EXCEPT !.task = "ended"]
  <2>1. Update(s, e) /\ s \in Open /\ streams[s] \in StreamEntry
    BY <1>10 DEF TaskGivesUp, TaskMove, TypeOK
  <2>2. e \in StreamEntry
    BY <2>1, <1>5, SMTT(30) DEF StreamEntry
  <2> HIDE DEF e
  <2>3. Open' \subseteq Streams /\ streams' \in [Open' -> StreamEntry]
        /\ closed_streams' = closed_streams
    BY <2>1, <2>2, UpdateStreams
  <2> QED
    BY <1>10, <2>3 DEF TaskGivesUp, TaskMove, TypeOK
<1> QED
  BY <1>6, <1>7, <1>8, <1>9, <1>10 DEF TaskStep

\* Every step of the connection and of the stream tasks keeps the types.
LEMMA TypeInvNext == TypeInv /\ [Next]_vars => TypeInv'
<1> SUFFICES ASSUME TypeInv, [Next]_vars
             PROVE  TypeInv'
  OBVIOUS
<1>1. CASE PeerFrame
  BY <1>1, TypeInvPeer
<1>2. CASE ConnectionStep
  BY <1>2, TypeInvDrain, TypeInvMsgs DEF ConnectionStep, EndOfRead, Wake
<1>3. ASSUME NEW s \in Streams, TaskStep(s)
      PROVE  TypeInv'
  BY <1>3, TypeInvTask
<1>4. CASE UNCHANGED vars
  BY <1>4 DEF vars, conn, drr, out, TypeInv, TypeOK, Open
<1> QED
  BY <1>1, <1>2, <1>3, <1>4 DEF Next

\* Type correctness of the sending half for every set of streams and every
\* choice of windows, sizes and capacities: in particular no chunk is split
\* below zero and no deficit overspent by pump_stream_data_drr.
THEOREM TypeCorrect == Spec => []TypeOK
<1>1. TypeInv => TypeOK
  BY DEF TypeInv
<1> QED
  BY TypeInvInit, TypeInvNext, <1>1, PTL DEF Spec

=============================================================================
