------------------------ MODULE H2FlowControlProofs -------------------------
(***************************************************************************)
(* Draining the queues and handling the messages of a stream task keep the *)
(* inductive invariant of H2FlowControl, and the properties that follow    *)
(* from the invariant.                                                     *)
(***************************************************************************)
EXTENDS H2FlowInvProofs


\* A DATA frame within the windows keeps the invariant of the entries.
LEMMA FlowBySend ==
    ASSUME TypeOK, EntriesInv, FreshInv, WindowsLegal, CreditInv,
           NEW s \in Open, HasData(streams[s]),
           NEW n \in Nat, n <= Head(streams[s].pending_data).len,
           n > 0 => n <= conn_window /\ n <= streams[s].send_window,
           NEW d \in Nat, d <= streams[s].deficit,
           SendFront(s, n, d), UNCHANGED <<ending, conn_credit>>
    PROVE  /\ EntriesInv' /\ FreshInv' /\ WindowsLegal' /\ CreditInv'
           /\ s \in Open' =>
                /\ streams'[s].msg_rx = streams[s].msg_rx
                /\ streams'[s].task = streams[s].task
                /\ streams'[s].task_done = streams[s].task_done
                /\ Len(streams'[s].pending_data) <= Len(streams[s].pending_data)
<1>1. /\ conn_window' = conn_window - n
      /\ conn_sent' = conn_sent + n
      /\ wire'[s].octets = wire[s].octets + n
      /\ \A t \in Streams : t # s => wire'[t] = wire[t]
      /\ Open' \subseteq Open
      /\ \A t \in Open' : t # s => streams'[t] = streams[t]
      /\ streams' \in [Open' -> StreamEntry]
      /\ Open \cup closed_streams \subseteq Open' \cup closed_streams'
      /\ s \in Open' =>
            /\ streams'[s].send_window = streams[s].send_window - n
            /\ streams'[s].credit = streams[s].credit
            /\ streams'[s].msg_rx = streams[s].msg_rx
            /\ streams'[s].task = streams[s].task
            /\ streams'[s].task_done = streams[s].task_done
            /\ Len(streams'[s].pending_data) <= Len(streams[s].pending_data)
            /\ ~(streams'[s].task_done /\ streams'[s].local_ended)
  BY SendFrontStep
<1>2. /\ conn_window \in Int /\ conn_sent \in Int /\ conn_credit \in Int
      /\ s \in Streams /\ wire[s].octets \in Int /\ streams[s] \in StreamEntry
      /\ Open \subseteq Streams
  BY DEF TypeOK
<1>3. /\ streams[s].send_window \in Int /\ streams[s].credit \in Int
      /\ Len(streams[s].pending_data) \in Nat
  BY <1>2, LenProperties DEF StreamEntry
<1>4. EntriesInv'
  <2> SUFFICES ASSUME NEW t \in Open'
               PROVE  EntryInv(streams'[t], wire'[t].octets)
    BY DEF EntriesInv
  <2>1. EntryInv(streams[t], wire[t].octets)
    BY <1>1 DEF EntriesInv
  <2>2. CASE t # s
    BY <1>1, <1>2, <2>1, <2>2
  <2>3. CASE t = s
    <3>1. streams'[s] \in StreamEntry
      BY <1>1, <2>3
    <3>2. Len(streams'[s].pending_data) \in Nat
      BY <3>1, LenProperties DEF StreamEntry
    <3>3. Len(streams'[s].pending_data) <= ChanCap
      BY <1>1, <1>3, <2>1, <2>3, <3>2, FlowAssumption DEF EntryInv
    <3>4. streams'[s].send_window = streams'[s].credit - wire'[s].octets
      BY <1>1, <1>2, <1>3, <2>1, <2>3, SMTT(30) DEF EntryInv
    <3> QED
      BY <1>1, <2>1, <2>3, <3>3, <3>4 DEF EntryInv
  <2> QED
    BY <2>2, <2>3
<1>5. FreshInv'
  BY <1>1, <1>2 DEF FreshInv
<1>6. WindowsLegal'
  <2>1. conn_window - n \in 0 .. MaxWindow
    BY <1>2, FlowAssumption DEF WindowsLegal
  <2>2. ending \/ \A t \in Open' : streams'[t].send_window <= MaxWindow
    BY <1>1, <1>3, FlowAssumption, SMTT(30) DEF WindowsLegal
  <2> QED
    BY <1>1, <2>1, <2>2 DEF WindowsLegal
<1>7. CreditInv'
  BY <1>1, <1>2 DEF CreditInv
<1> QED
  BY <1>1, <1>4, <1>5, <1>6, <1>7

\* The rounds of the drain, and taking the messages of a stream, keep the
\* invariant.
LEMMA FlowInvDrain ==
    ASSUME FlowInv, TypeInv',
           \/ PumpStreamData
           \/ \E s \in Streams : DrrVisit(s)
           \/ DrrPump
           \/ DrrRound
           \/ StartDrain
           \/ \E s \in Streams : DrainStream(s)
           \/ EndDrain
    PROVE  FlowInv'
<1> USE DEF conn, drr, out
<1>1. TypeOK /\ EntriesInv /\ FreshInv /\ WindowsLegal /\ CreditInv /\ BatchInv
  BY DEF FlowInv, TypeInv
<1>2. ASSUME /\ UNCHANGED <<streams, closed_streams, wire, conn_window, conn_sent,
                            conn_credit, ending>>
             /\ BatchInv'
      PROVE  FlowInv'
  BY <1>1, <1>2 DEF FlowInv, EntriesInv, FreshInv, WindowsLegal, CreditInv, Open
<1>3. CASE PumpStreamData
  <2>1. CASE Stuck(cur)
    <3>1. BatchInv'
      BY <1>1, <1>3, <2>1, SMTT(30) DEF PumpStreamData, BatchInv, Open
    <3> QED
      BY <1>2, <1>3, <2>1, <3>1 DEF PumpStreamData
  <2>2. CASE ~Stuck(cur)
    <3>1. cur \in Open
      BY <2>2 DEF Stuck
    <3>2. SendFront(cur, FrontAmount(cur), 0)
          /\ UNCHANGED <<pc, cur, msgs, ending, conn_credit>>
      BY <1>3, <2>2 DEF PumpStreamData
    <3>3. streams[cur] \in StreamEntry /\ 0 <= streams[cur].deficit
      BY <1>1, <3>1, SMTT(30) DEF TypeOK, StreamEntry
    <3>4. /\ HasData(streams[cur]) /\ FrontAmount(cur) \in Nat
          /\ FrontAmount(cur) <= Head(streams[cur].pending_data).len
          /\ FrontAmount(cur) > 0 => /\ FrontAmount(cur) <= conn_window
                                     /\ FrontAmount(cur) <= streams[cur].send_window
      BY <1>1, <2>2, <3>1, FrontAmountBounds, SMTT(30)
    <3>5. /\ EntriesInv' /\ FreshInv' /\ WindowsLegal' /\ CreditInv'
          /\ cur \in Open' =>
                /\ streams'[cur].msg_rx = streams[cur].msg_rx
                /\ streams'[cur].task = streams[cur].task
                /\ streams'[cur].task_done = streams[cur].task_done
                /\ Len(streams'[cur].pending_data) <= Len(streams[cur].pending_data)
      BY <1>1, <3>1, <3>2, <3>3, <3>4, FlowBySend
    <3>6. BatchInv'
      <4> SUFFICES ASSUME pc \in {"msgs", "msgpump"}, cur \in Open'
                   PROVE  BatchEntryInv(streams'[cur], msgs)
        BY <3>2 DEF BatchInv
      <4>1. BatchEntryInv(streams[cur], msgs)
        BY <1>1, <3>1 DEF BatchInv
      <4>2. streams'[cur] \in StreamEntry
        BY DEF TypeInv, TypeOK
      <4>3. /\ Len(streams'[cur].pending_data) \in Nat
            /\ Len(streams[cur].pending_data) \in Nat /\ Len(msgs) \in Nat
        BY <1>1, <3>3, <4>2, LenProperties, Zenon DEF StreamEntry, TypeOK
      <4>4. Len(streams[cur].pending_data) + Len(msgs) <= ChanCap
        BY <4>1 DEF BatchEntryInv
      <4>5. Len(streams'[cur].pending_data) + Len(msgs) <= ChanCap
        BY <3>5, <4>3, <4>4, FlowAssumption
      <4>6. /\ streams'[cur].msg_rx = streams[cur].msg_rx
            /\ streams'[cur].task = streams[cur].task
            /\ streams'[cur].task_done = streams[cur].task_done
        BY <3>5
      <4> QED
        BY <4>1, <4>5, <4>6 DEF BatchEntryInv
    <3> QED
      BY <3>5, <3>6 DEF FlowInv
  <2> QED
    BY <2>1, <2>2
<1>4. ASSUME NEW s \in Streams, DrrVisit(s)
      PROVE  FlowInv'
  <2>1. CASE s \in Blocked /\ streams[s].send_window > 0
    <3> DEFINE e == [streams[s] EXCEPT !.deficit = @ + max_frame_size, !.raised = FALSE]
    <3>1. s \in Open /\ streams[s] \in StreamEntry /\ max_frame_size \in Nat
      BY <1>1, <2>1, Zenon DEF Blocked, TypeOK
    <3>2. streams[s].deficit + max_frame_size \in Nat
      BY <3>1 DEF StreamEntry
    <3>3. e \in StreamEntry
      BY <3>1, <3>2, Zenon DEF StreamEntry
    <3>4. /\ Update(s, e) /\ pc' = "drrpump"
          /\ UNCHANGED <<wire, conn_window, conn_sent, conn_credit, ending>>
      BY <1>4, <2>1, Zenon DEF DrrVisit
    <3>5. /\ e.send_window = streams[s].send_window /\ e.credit = streams[s].credit
          /\ e.msg_rx = streams[s].msg_rx /\ e.task = streams[s].task
          /\ e.pending_data = streams[s].pending_data
          /\ e.task_done = streams[s].task_done /\ e.local_ended = streams[s].local_ended
      BY <3>1 DEF StreamEntry
    <3> HIDE DEF e
    <3>6. EntryInv(e, wire[s].octets)
      BY <1>1, <3>1, <3>5 DEF EntriesInv, EntryInv
    <3>7. EntriesInv'
      BY <1>1, <3>3, <3>4, <3>6, KeptByUpdate
    <3>8. /\ Open' = Open \cup {s} /\ closed_streams' = closed_streams
          /\ streams'[s] = e /\ \A t \in Open : t # s => streams'[t] = streams[t]
      BY <1>1, <3>3, <3>4, UpdateStreams
    <3> QED
      BY <1>1, <3>1, <3>4, <3>5, <3>7, <3>8
         DEF FlowInv, FreshInv, BatchInv, WindowsLegal, CreditInv
  <2>2. CASE ~(s \in Blocked /\ streams[s].send_window > 0)
    <3>1. UNCHANGED <<streams, closed_streams, wire, conn_window, conn_sent, conn_credit,
                      ending, pc>> /\ pc = "drr"
      BY <1>4, <2>2, Zenon DEF DrrVisit
    <3> QED
      BY <1>2, <3>1, SMTT(30) DEF BatchInv
  <2> QED
    BY <2>1, <2>2
<1>5. CASE DrrPump
  <2> DEFINE n == MinOf(FrontAmount(cur), streams[cur].deficit)
  <2>1. BatchInv'
    BY <1>5 DEF DrrPump, BatchInv
  <2>2. CASE DrrStuck
    BY <1>2, <1>5, <2>1, <2>2 DEF DrrPump
  <2>3. CASE ~DrrStuck
    <3>1. cur \in Open /\ ~Stuck(cur)
      BY <2>3 DEF DrrStuck, Stuck
    <3>2. SendFront(cur, n, n) /\ UNCHANGED <<ending, conn_credit>>
      BY <1>5, <2>3, SMTT(30) DEF DrrPump, Turn
    <3>3. streams[cur].deficit \in Nat /\ streams[cur].send_window \in Int
          /\ conn_window \in Int
      BY <1>1, <3>1, Zenon DEF TypeOK, StreamEntry
    <3>4. /\ HasData(streams[cur]) /\ FrontAmount(cur) \in Nat
          /\ FrontAmount(cur) <= Head(streams[cur].pending_data).len
          /\ FrontAmount(cur) > 0 => /\ FrontAmount(cur) <= conn_window
                                     /\ FrontAmount(cur) <= streams[cur].send_window
      BY <1>1, <3>1, FrontAmountBounds, Zenon
    <3>5. n \in Nat /\ n <= FrontAmount(cur) /\ n <= streams[cur].deficit
      BY <3>3, <3>4, SMTT(30) DEF MinOf
    <3>6. Head(streams[cur].pending_data).len \in Nat
      BY <1>1, <3>1, <3>4, HeadOfPending, Zenon
    <3> HIDE DEF n
    <3>7. /\ n <= Head(streams[cur].pending_data).len
          /\ n > 0 => n <= conn_window /\ n <= streams[cur].send_window
      BY <3>3, <3>4, <3>5, <3>6, SMTT(30)
    <3>8. EntriesInv' /\ FreshInv' /\ WindowsLegal' /\ CreditInv'
      BY <1>1, <3>1, <3>2, <3>4, <3>5, <3>7, FlowBySend, SMTT(30)
    <3> QED
      BY <2>1, <3>8 DEF FlowInv
  <2> QED
    BY <2>2, <2>3
<1>6. CASE DrrRound \/ StartDrain \/ EndDrain
  <2>1. pc' \in {"drr", "frames", "drain", "closed", "select"}
        /\ UNCHANGED <<streams, closed_streams, wire, conn_window, conn_sent, conn_credit,
                       ending>>
    BY <1>6 DEF DrrRound, StartDrain, EndDrain
  <2> QED
    BY <1>2, <2>1, Zenon DEF BatchInv
<1>7. ASSUME NEW s \in Streams, DrainStream(s)
      PROVE  FlowInv'
  <2>1. CASE s \in Open /\ ~LeftAlone(streams[s])
    <3> DEFINE e == [streams[s] EXCEPT !.msg_rx = <<>>]
    <3>1. streams[s] \in StreamEntry
      BY <1>1, <2>1 DEF TypeOK
    <3>2. e \in StreamEntry /\ streams[s].msg_rx \in Seq(StreamMsg)
      BY <3>1, EmptySeq, Zenon DEF StreamEntry
    <3>3. /\ Update(s, e) /\ pc' = "msgs" /\ cur' = s /\ msgs' = streams[s].msg_rx
          /\ UNCHANGED <<wire, conn_window, conn_sent, conn_credit, ending>>
      BY <1>7, <2>1, SMTT(30) DEF DrainStream
    <3>4. /\ e.send_window = streams[s].send_window /\ e.credit = streams[s].credit
          /\ e.msg_rx = <<>> /\ e.task = streams[s].task
          /\ e.pending_data = streams[s].pending_data
          /\ e.task_done = streams[s].task_done /\ e.local_ended = streams[s].local_ended
      BY <3>1, Zenon DEF StreamEntry
    <3> HIDE DEF e
    <3>5. EntryInv(streams[s], wire[s].octets) /\ Len(<<>>) = 0 /\ Len(<<>>) <= ChanCap
      BY <1>1, <2>1, EmptySeq, FlowAssumption, SMTT(30) DEF EntriesInv
    <3>6. ClosedLast(<<>>, e.task)
      BY <3>5, SMTT(30) DEF ClosedLast
    <3>7. EntryInv(e, wire[s].octets)
      BY <3>4, <3>5, <3>6, Zenon DEF EntryInv
    <3>8. EntriesInv'
      BY <1>1, <3>2, <3>3, <3>7, KeptByUpdate
    <3>9. /\ Open' = Open \cup {s} /\ closed_streams' = closed_streams
          /\ streams'[s] = e /\ \A t \in Open : t # s => streams'[t] = streams[t]
      BY <1>1, <3>2, <3>3, UpdateStreams
    <3>10. BatchEntryInv(e, streams[s].msg_rx)
      <4>1. e.pending_data = <<>>
        BY <2>1, <3>4 DEF LeftAlone
      <4>2. Len(streams[s].msg_rx) \in Nat
        BY <3>2, LenProperties
      <4>3. Len(e.pending_data) + Len(streams[s].msg_rx) <= ChanCap
        BY <3>5, <4>1, <4>2 DEF EntryInv
      <4> QED
        BY <3>4, <3>5, <4>3, Zenon DEF EntryInv, BatchEntryInv
    <3>11. BatchInv'
      BY <3>3, <3>9, <3>10 DEF BatchInv
    <3> QED
      BY <1>1, <2>1, <3>3, <3>4, <3>8, <3>9, <3>11, Zenon
         DEF FlowInv, FreshInv, WindowsLegal, CreditInv
  <2>2. CASE ~(s \in Open /\ ~LeftAlone(streams[s]))
    <3>1. UNCHANGED <<streams, closed_streams, wire, conn_window, conn_sent, conn_credit,
                      ending, pc>> /\ pc = "drain"
      BY <1>7, <2>2 DEF DrainStream
    <3> QED
      BY <1>2, <3>1 DEF BatchInv
  <2> QED
    BY <2>1, <2>2, SMTT(30)
<1> QED
  BY <1>3, <1>4, <1>5, <1>6, <1>7

-----------------------------------------------------------------------------
\* Closed is still the last message of what is left of a batch, and nothing
\* is left of a batch after it.
LEMMA ClosedEndsBatch ==
    ASSUME msgs \in Seq(StreamMsg), msgs # <<>>, NEW task, ClosedLast(msgs, task)
    PROVE  /\ ClosedLast(Rest, task)
           /\ Head(msgs).type = "closed" => Rest = <<>> /\ task = "closed"
<1>1. /\ Rest \in Seq(StreamMsg) /\ Len(Rest) < Len(msgs) /\ Len(Rest) \in Nat
      /\ \E k \in {1, 2} :
            /\ Len(Rest) = Len(msgs) - k
            /\ \A i \in 1 .. Len(Rest) : Rest[i] = msgs[i + k]
  BY RestOfBatch
<1>2. Len(msgs) \in Nat
  BY LenProperties
<1>3. ClosedLast(Rest, task)
  <2>1. PICK k \in {1, 2} :
            /\ Len(Rest) = Len(msgs) - k
            /\ \A i \in 1 .. Len(Rest) : Rest[i] = msgs[i + k]
    BY <1>1, Zenon
  <2> SUFFICES ASSUME NEW i \in 1 .. Len(Rest), Rest[i].type = "closed"
               PROVE  i = Len(Rest) /\ task = "closed"
    BY DEF ClosedLast
  <2>2. i + k \in 1 .. Len(msgs) /\ msgs[i + k].type = "closed"
    BY <1>1, <1>2, <2>1
  <2>3. i + k = Len(msgs) /\ task = "closed"
    BY <2>2 DEF ClosedLast
  <2> QED
    BY <1>1, <1>2, <2>1, <2>3
<1>4. ASSUME Head(msgs).type = "closed"
      PROVE  Rest = <<>> /\ task = "closed"
  <2>1. Head(msgs) = msgs[1] /\ 1 \in 1 .. Len(msgs)
    BY <1>1, <1>2, HeadTailProperties
  <2>2. 1 = Len(msgs) /\ task = "closed"
    BY <1>4, <2>1, Zenon DEF ClosedLast
  <2>3. Len(Rest) = 0
    BY <1>1, <2>2
  <2> QED
    BY <1>1, <2>2, <2>3, EmptySeq
<1> QED
  BY <1>3, <1>4

\* Handling one message of the batch keeps the invariant.
LEMMA FlowInvMsgs ==
    ASSUME FlowInv, TypeInv', HandleStreamMsg \/ EndBatch
    PROVE  FlowInv'
<1> USE DEF conn, drr, out
<1>1. TypeOK /\ EntriesInv /\ FreshInv /\ WindowsLegal /\ CreditInv /\ BatchInv
  BY DEF FlowInv, TypeInv
<1>2. CASE EndBatch
  BY <1>1, <1>2 DEF EndBatch, FlowInv, EntriesInv, FreshInv, WindowsLegal, CreditInv,
                    BatchInv, Open
<1>3. CASE HandleStreamMsg
  <2>1. /\ pc = "msgs" /\ msgs # <<>> /\ msgs \in Seq(StreamMsg) /\ msgs' = Rest
        /\ cur' = cur /\ cur \in Streams
        /\ UNCHANGED <<conn_window, conn_credit, ending>>
    BY <1>1, <1>3 DEF HandleStreamMsg, TypeOK, FlowInv, TypeInv
  <2> DEFINE m == Head(msgs)
             Quiet == /\ conn_sent' = conn_sent
                      /\ \A t \in Streams : wire'[t].octets = wire[t].octets
  <2>2. /\ m \in StreamMsg /\ Rest \in Seq(StreamMsg)
        /\ Len(Rest) < Len(msgs) /\ Len(Rest) \in Nat /\ Len(msgs) \in Nat
    BY <2>1, RestOfBatch, LenProperties
  <2>3. m.len \in Nat /\ m.end \in BOOLEAN
    BY <2>2 DEF StreamMsg
  <2>4. ASSUME NEW kind, NEW fin \in BOOLEAN, Write(cur, kind, 0, fin)
        PROVE  Quiet
    <3>1. /\ wire'[cur].octets = wire[cur].octets + 0
          /\ \A t \in Streams : t # cur => wire'[t] = wire[t]
          /\ conn_sent' = conn_sent + 0
      BY <1>1, <2>1, <2>4, WriteWire
    <3>2. wire[cur].octets \in Int /\ conn_sent \in Int
      BY <1>1, <2>1 DEF TypeOK
    <3> QED
      BY <3>1, <3>2
  <2>5. ASSUME UNCHANGED out PROVE Quiet
    BY <2>5, Zenon
  <2>6. ASSUME cur \in Open
        PROVE  /\ streams[cur] \in StreamEntry
               /\ EntryInv(streams[cur], wire[cur].octets)
               /\ BatchEntryInv(streams[cur], msgs)
               /\ ~streams[cur].task_done
               /\ ClosedLast(Rest, streams[cur].task)
               /\ m.type = "closed" => Rest = <<>> /\ streams[cur].task = "closed"
    <3>1. /\ streams[cur] \in StreamEntry
          /\ EntryInv(streams[cur], wire[cur].octets)
          /\ BatchEntryInv(streams[cur], msgs)
      BY <1>1, <2>1, <2>6 DEF TypeOK, EntriesInv, BatchInv
    <3>2. ~streams[cur].task_done /\ ClosedLast(msgs, streams[cur].task)
      BY <2>1, <3>1, Zenon DEF BatchEntryInv
    <3> QED
      BY <2>1, <3>1, <3>2, ClosedEndsBatch
  <2> HIDE DEF Quiet
  <2>7. ASSUME cur \in Open, NEW e \in StreamEntry, Update(cur, e), Quiet,
               EntryInv(e, wire[cur].octets), BatchEntryInv(e, Rest),
               e.send_window = streams[cur].send_window
        PROVE  FlowInv'
    <3>1. /\ conn_sent' = conn_sent
          /\ \A t \in Streams : wire'[t].octets = wire[t].octets
      BY <2>7, Zenon DEF Quiet
    <3>2. /\ Open' = Open \cup {cur} /\ Open' \subseteq Streams
          /\ closed_streams' = closed_streams /\ streams'[cur] = e
          /\ \A t \in Open : t # cur => streams'[t] = streams[t]
      BY <1>1, <2>1, <2>7, UpdateStreams, Zenon
    <3>3. EntryInv(e, wire'[cur].octets) /\ \A t \in Open : wire'[t].octets = wire[t].octets
      BY <2>1, <2>7, <3>1, <3>2, Zenon
    <3>4. EntriesInv'
      BY <1>1, <2>1, <2>7, <3>3, KeptByUpdate, Zenon
    <3>5. BatchInv'
      BY <2>1, <2>7, <3>2, Zenon DEF BatchInv
    <3> QED
      BY <1>1, <2>1, <2>7, <3>1, <3>2, <3>4, <3>5
         DEF FlowInv, FreshInv, WindowsLegal, CreditInv
  <2>8. ASSUME Remove(cur), Quiet
        PROVE  FlowInv'
    <3>1. /\ conn_sent' = conn_sent
          /\ \A t \in Streams : wire'[t].octets = wire[t].octets
      BY <2>8 DEF Quiet
    <3>2. /\ Open' = Open \ {cur} /\ closed_streams' = closed_streams \cup {cur}
          /\ \A t \in Open' : streams'[t] = streams[t]
      BY <1>1, <2>1, <2>8, RemoveStreams, Zenon
    <3>3. streams' = Without(cur) /\ \A t \in Open : wire'[t].octets = wire[t].octets
      BY <1>1, <2>8, <3>1 DEF Remove, TypeOK
    <3>4. EntriesInv'
      BY <1>1, <2>1, <3>3, KeptByRemove
    <3>5. BatchInv'
      BY <2>1, <3>2, Zenon DEF BatchInv
    <3> QED
      BY <1>1, <2>1, <3>1, <3>2, <3>4, <3>5, Zenon
         DEF FlowInv, FreshInv, WindowsLegal, CreditInv
  <2>9. ASSUME UNCHANGED <<streams, closed_streams>>, Quiet
        PROVE  FlowInv'
    <3>1. /\ conn_sent' = conn_sent
          /\ \A t \in Streams : wire'[t].octets = wire[t].octets
      BY <2>9 DEF Quiet
    <3>2. Open' = Open /\ Open \subseteq Streams
      BY <1>1, <2>9 DEF Open, TypeOK
    <3>3. EntriesInv'
      BY <1>1, <2>9, <3>1, <3>2, Zenon DEF EntriesInv
    <3>4. BatchInv'
      <4> SUFFICES ASSUME cur \in Open PROVE BatchEntryInv(streams[cur], Rest)
        BY <2>1, <2>9, <3>2, Zenon DEF BatchInv
      <4>1. Len(streams[cur].pending_data) \in Nat
        BY <2>6, LenProperties, Zenon DEF StreamEntry
      <4>2. Len(streams[cur].pending_data) + Len(msgs) <= ChanCap
            /\ streams[cur].msg_rx = <<>>
        BY <2>6, Zenon DEF BatchEntryInv
      <4>3. Len(streams[cur].pending_data) + Len(Rest) <= ChanCap
        BY <2>2, <4>1, <4>2, FlowAssumption
      <4> QED
        BY <2>6, <4>2, <4>3 DEF BatchEntryInv
    <3> QED
      BY <1>1, <2>1, <2>9, <3>1, <3>2, <3>3, <3>4
         DEF FlowInv, FreshInv, WindowsLegal, CreditInv
  <2>10. CASE HandleData
    <3>1. Quiet
      BY <2>5, <2>10 DEF HandleData
    <3>2. CASE cur \notin Open \/ streams[cur].local_ended
      BY <2>9, <2>10, <3>1, <3>2, Zenon DEF HandleData
    <3>3. CASE ~(cur \notin Open \/ streams[cur].local_ended)
      <4> DEFINE c == [len |-> m.len, end |-> m.end \/ Merges]
                 q == Append(streams[cur].pending_data, c)
                 e == [streams[cur] EXCEPT !.pending_data = Append(@, c), !.raised = FALSE]
      <4>1. /\ streams[cur].pending_data \in Seq(Chunk)
            /\ Len(streams[cur].pending_data) \in Nat
        BY <2>6, <3>3, LenProperties DEF StreamEntry
      <4>2. (m.end \/ Merges) \in BOOLEAN
        BY Zenon
      <4>3. c \in Chunk
        BY <2>3, <4>2, Zenon DEF Chunk
      <4>4. q \in Seq(Chunk) /\ Len(q) = Len(streams[cur].pending_data) + 1
        BY <4>1, <4>3, AppendProperties
      <4> HIDE DEF c
      <4>5. e \in StreamEntry
        BY <2>6, <3>3, <4>4, Zenon DEF StreamEntry
      <4>6. Update(cur, e)
        BY <2>10, <3>3 DEF HandleData, c
      <4>7. /\ e.send_window = streams[cur].send_window /\ e.credit = streams[cur].credit
            /\ e.msg_rx = streams[cur].msg_rx /\ e.task = streams[cur].task
            /\ e.pending_data = q
            /\ e.task_done = streams[cur].task_done
            /\ e.local_ended = streams[cur].local_ended
        BY <2>6, <3>3, Zenon DEF StreamEntry
      <4> HIDE DEF e, q
      <4>8. Len(streams[cur].pending_data) + Len(msgs) <= ChanCap
            /\ streams[cur].msg_rx = <<>>
        BY <2>6, <3>3 DEF BatchEntryInv
      <4>9. Len(q) + Len(Rest) <= ChanCap /\ Len(q) <= ChanCap
        BY <2>2, <4>1, <4>4, <4>8, FlowAssumption, SMTT(30)
      <4>10. EntryInv(e, wire[cur].octets)
        BY <2>6, <3>3, <4>7, <4>9, Zenon DEF EntryInv
      <4>11. BatchEntryInv(e, Rest)
        BY <2>6, <3>3, <4>7, <4>8, <4>9, Zenon DEF BatchEntryInv
      <4> QED
        BY <2>7, <3>1, <3>3, <4>5, <4>6, <4>7, <4>10, <4>11, Zenon
    <3> QED
      BY <3>2, <3>3
  <2>11. ASSUME cur \in Open, NEW e \in StreamEntry, Update(cur, e), Quiet,
                e.send_window = streams[cur].send_window, e.credit = streams[cur].credit,
                e.msg_rx = streams[cur].msg_rx, e.task = streams[cur].task,
                e.pending_data = streams[cur].pending_data,
                ~(e.task_done /\ e.local_ended),
                e.task_done => Rest = <<>> /\ e.task = "closed"
         PROVE  FlowInv'
    <3>1. Len(e.pending_data) \in Nat
      BY <2>11, LenProperties, Zenon DEF StreamEntry
    <3>2. Len(e.pending_data) + Len(msgs) <= ChanCap /\ e.msg_rx = <<>>
      BY <2>6, <2>11 DEF BatchEntryInv
    <3>3. Len(e.pending_data) + Len(Rest) <= ChanCap
      BY <2>2, <3>1, <3>2, FlowAssumption
    <3>4. EntryInv(e, wire[cur].octets)
      BY <2>6, <2>11, <3>2, Zenon DEF EntryInv
    <3>5. BatchEntryInv(e, Rest)
      BY <2>6, <2>11, <3>2, <3>3 DEF BatchEntryInv
    <3> QED
      BY <2>7, <2>11, <3>4, <3>5, Zenon
  <2>12. CASE HandleHeaders
    <3>1. CASE cur \in Open /\ (m.type = "info" \/ ~streams[cur].local_ended)
      <4> DEFINE e == [streams[cur] EXCEPT !.local_ended = @ \/ m.end]
      <4>1. streams[cur] \in StreamEntry /\ ~streams[cur].task_done
        BY <2>6, <3>1
      <4>2. (streams[cur].local_ended \/ m.end) \in BOOLEAN
        OBVIOUS
      <4>3. e \in StreamEntry
        BY <4>1, <4>2, Zenon DEF StreamEntry
      <4>4. Update(cur, e) /\ Write(cur, m.type, 0, m.end)
        BY <2>12, <3>1 DEF HandleHeaders
      <4>5. /\ e.send_window = streams[cur].send_window /\ e.credit = streams[cur].credit
            /\ e.msg_rx = streams[cur].msg_rx /\ e.task = streams[cur].task
            /\ e.pending_data = streams[cur].pending_data
            /\ e.task_done = streams[cur].task_done
        BY <4>1 DEF StreamEntry
      <4> HIDE DEF e
      <4>6. Quiet
        BY <2>3, <2>4, <4>4
      <4> QED
        BY <2>11, <3>1, <4>1, <4>3, <4>4, <4>5, <4>6, Zenon
    <3>2. CASE cur \notin Open /\ m.type # "trailers"
      <4>1. Write(cur, m.type, 0, m.end) /\ UNCHANGED <<streams, closed_streams>>
        BY <2>12, <3>2 DEF HandleHeaders
      <4>2. Quiet
        BY <2>3, <2>4, <4>1
      <4> QED
        BY <2>9, <4>1, <4>2
    <3>3. CASE /\ ~(cur \in Open /\ (m.type = "info" \/ ~streams[cur].local_ended))
               /\ ~(cur \notin Open /\ m.type # "trailers")
      <4>1. UNCHANGED <<streams, closed_streams, out>>
        BY <2>12, <3>3 DEF HandleHeaders
      <4> QED
        BY <2>5, <2>9, <4>1
    <3> QED
      BY <3>1, <3>2, <3>3, Zenon
  <2>13. CASE HandleReset
    <3>1. Write(cur, "reset", 0, FALSE) /\ Remove(cur)
      BY <2>13, Zenon DEF HandleReset
    <3>2. Quiet
      BY <2>4, <3>1, Zenon
    <3> QED
      BY <2>8, <3>1, <3>2
  <2>14. CASE HandleClosed
    <3>1. Quiet /\ m.type = "closed"
      BY <2>5, <2>14 DEF HandleClosed
    <3>2. CASE cur \notin Open
      BY <2>9, <2>14, <3>1, <3>2 DEF HandleClosed
    <3>3. CASE cur \in Open /\ streams[cur].local_ended
      <4>1. Remove(cur)
        BY <2>14, <3>3, Zenon DEF HandleClosed
      <4> QED
        BY <2>8, <3>1, <4>1
    <3>4. CASE cur \in Open /\ ~streams[cur].local_ended
      <4> DEFINE e == TaskDone(streams[cur])
      <4>1. Update(cur, e)
        BY <2>14, <3>4, Zenon DEF HandleClosed
      <4>2. streams[cur] \in StreamEntry
        BY <2>6, <3>4
      <4>3. /\ e \in StreamEntry
            /\ e.send_window = streams[cur].send_window /\ e.credit = streams[cur].credit
            /\ e.msg_rx = streams[cur].msg_rx /\ e.task = streams[cur].task
            /\ e.pending_data = streams[cur].pending_data
            /\ e.local_ended = streams[cur].local_ended
        BY <4>2, Zenon DEF TaskDone, StreamEntry
      <4> HIDE DEF e
      <4>4. Rest = <<>> /\ streams[cur].task = "closed"
        BY <2>6, <3>1, <3>4
      <4> QED
        BY <2>11, <3>1, <3>4, <4>1, <4>3, <4>4
    <3> QED
      BY <3>2, <3>3, <3>4
  <2> QED
    BY <1>3, <2>10, <2>12, <2>13, <2>14, Zenon DEF HandleStreamMsg
<1> QED
  BY <1>2, <1>3

\* Every step keeps the invariant.
LEMMA FlowInvNext == FlowInv /\ [Next]_vars => FlowInv'
<1> SUFFICES ASSUME FlowInv, [Next]_vars
             PROVE  FlowInv'
  OBVIOUS
<1>1. TypeInv'
  BY TypeInvNext DEF FlowInv
<1>2. CASE PeerFrame
  BY <1>1, <1>2, FlowInvPeer
<1>3. CASE ConnectionStep
  BY <1>1, <1>3, FlowInvDrain, FlowInvMsgs DEF ConnectionStep, EndOfRead, Wake
<1>4. ASSUME NEW s \in Streams, TaskStep(s)
      PROVE  FlowInv'
  BY <1>1, <1>4, FlowInvTask, Zenon
<1>5. CASE UNCHANGED vars
  BY <1>1, <1>5 DEF vars, conn, drr, out, FlowInv, EntriesInv, BatchInv, FreshInv,
                    WindowsLegal, CreditInv, Open
<1> QED
  BY <1>2, <1>3, <1>4, <1>5 DEF Next

\* FlowInv is an invariant of every instance.
THEOREM FlowInvariant == Spec => []FlowInv
BY FlowInvInit, FlowInvNext, PTL DEF Spec
-----------------------------------------------------------------------------

\* handle_window_update and apply_peer_settings never leave the connection
\* window outside 0 .. MaxWindow, nor a stream window above it on a
\* connection that goes on.
THEOREM WindowsStayLegal == Spec => []WindowsLegal
<1>1. FlowInv => WindowsLegal
  BY DEF FlowInv
<1> QED
  BY <1>1, FlowInvariant, PTL

\* When the connection window starts where the peer's does, the windows the
\* connection keeps are the credit the peer granted minus the DATA written.
THEOREM WindowsAreCredit ==
    ASSUME ConnWindow = PeerConnWindow
    PROVE  Spec => []WindowsMatchCredit
<1>1. FlowInv => WindowsMatchCredit
  BY DEF FlowInv, EntriesInv, EntryInv, CreditInv, WindowsMatchCredit
<1> QED
  BY <1>1, FlowInvariant, PTL

\* drain_outbound leaves a blocked stream's channel alone, so what the
\* connection holds for a stream never exceeds one full channel.
THEOREM BufferIsBounded == Spec => []BufferBounded
<1>1. FlowInv => BufferBounded
  BY DEF FlowInv, EntriesInv, EntryInv, BatchInv, BatchEntryInv, BufferBounded
<1> QED
  BY <1>1, FlowInvariant, PTL

\* Whichever comes last of Closed and END_STREAM retires the entry: in
\* handle_stream_msg or in either pump.
THEOREM RetiredInTime == Spec => []RetiredWhenDone
<1>1. FlowInv => RetiredWhenDone
  BY DEF FlowInv, EntriesInv, EntryInv, RetiredWhenDone
<1> QED
  BY <1>1, FlowInvariant, PTL
-----------------------------------------------------------------------------

\* Only the two pumps write octets.
LEMMA OnlyPumpsSend ==
    ASSUME TypeInv, PeerFrame \/ HandleStreamMsg
    PROVE  \A s \in Streams : wire'[s].octets = wire[s].octets
<1> USE DEF conn, drr, out
<1>1. TypeOK
  BY DEF TypeInv
<1>2. ASSUME NEW t \in Streams, NEW kind, NEW fin \in BOOLEAN, Write(t, kind, 0, fin)
      PROVE  \A s \in Streams : wire'[s].octets = wire[s].octets
  <2>1. /\ wire'[t].octets = wire[t].octets + 0
        /\ \A s \in Streams : s # t => wire'[s] = wire[s]
    BY <1>1, <1>2, WriteWire
  <2>2. wire[t].octets \in Int
    BY <1>1, SMTT(30) DEF TypeOK
  <2> QED
    BY <2>1, <2>2
<1>3. CASE PeerFrame
  <2>1. ASSUME NEW t \in Streams, NEW inc \in Increments, StreamWindowUpdate(t, inc)
        PROVE  \A s \in Streams : wire'[s].octets = wire[s].octets
    <3>1. Write(t, "reset", 0, FALSE) \/ UNCHANGED out
      BY <2>1, Zenon DEF StreamWindowUpdate
    <3> QED
      BY <1>2, <3>1, Zenon
  <2> QED
    BY <1>3, <2>1, Zenon
       DEF PeerFrame, OpenStream, ResetFrame, ConnWindowUpdate, InitialWindowSetting,
           MaxFrameSetting, OtherFrame, PeerGoAway, LoopEnds
<1>4. CASE HandleStreamMsg
  <2> DEFINE m == Head(msgs)
  <2>1. cur \in Streams /\ m \in StreamMsg
    <3>1. pc = "msgs" /\ msgs # <<>> /\ msgs \in Seq(StreamMsg)
      BY <1>1, <1>4 DEF HandleStreamMsg, TypeOK
    <3> QED
      BY <3>1, RestOfBatch DEF TypeInv
  <2>2. m.end \in BOOLEAN
    BY <2>1 DEF StreamMsg
  <2>3. \/ UNCHANGED out
        \/ Write(cur, m.type, 0, m.end)
        \/ Write(cur, "reset", 0, FALSE)
    BY <1>4, Zenon DEF HandleStreamMsg, HandleData, HandleHeaders, HandleReset, HandleClosed
  <2> QED
    BY <1>2, <2>1, <2>2, <2>3, Zenon
<1> QED
  BY <1>3, <1>4

\* A DATA frame within the windows is within the credit they stand for.
LEMMA SendWithinCredit ==
    ASSUME FlowInv, ConnWindow = PeerConnWindow,
           NEW t \in Open, HasData(streams[t]),
           NEW n \in Nat, n <= Head(streams[t].pending_data).len,
           n > 0 => n <= conn_window /\ n <= streams[t].send_window,
           NEW d \in Nat, d <= streams[t].deficit, SendFront(t, n, d),
           NEW s \in Streams, wire'[s].octets > wire[s].octets
    PROVE  wire'[s].octets <= streams[s].credit /\ conn_sent' <= conn_credit
<1>1. TypeOK /\ EntriesInv /\ CreditInv
  BY SMTT(30) DEF FlowInv, TypeInv
<1>2. /\ conn_sent' = conn_sent + n
      /\ wire'[t].octets = wire[t].octets + n
      /\ \A i \in Streams : i # t => wire'[i] = wire[i]
  BY <1>1, SendFrontStep, Zenon
<1>3. /\ wire[s].octets \in Int /\ conn_window \in Int /\ conn_sent \in Int
      /\ conn_credit \in Int /\ streams[t] \in StreamEntry
  BY <1>1, SMTT(30) DEF TypeOK
<1>4. s = t
  BY <1>2, <1>3
<1>5. n > 0
  BY <1>2, <1>3, <1>4
<1>6. streams[t].send_window \in Int /\ streams[t].credit \in Int
  BY <1>3, Zenon DEF StreamEntry
<1>7. streams[t].send_window = streams[t].credit - wire[t].octets
  BY <1>1 DEF EntriesInv, EntryInv
<1>8. conn_window <= conn_credit - conn_sent
  BY <1>1 DEF CreditInv
<1> QED
  BY <1>2, <1>3, <1>4, <1>5, <1>6, <1>7, <1>8

\* Neither pump ever overruns the credit of the stream or, when the window
\* starts where the peer's does, of the connection, whatever WINDOW_UPDATE
\* and SETTINGS frames (which may make a window negative) came before.
THEOREM CreditIsRespected ==
    ASSUME ConnWindow = PeerConnWindow
    PROVE  Spec => NeverOverrun
<1>1. ASSUME FlowInv, [Next]_vars
      PROVE  [\A s \in Streams : wire'[s].octets > wire[s].octets =>
                  /\ wire'[s].octets <= streams[s].credit
                  /\ conn_sent' <= conn_credit]_vars
  <2> SUFFICES ASSUME Next, NEW s \in Streams, wire'[s].octets > wire[s].octets
               PROVE  wire'[s].octets <= streams[s].credit /\ conn_sent' <= conn_credit
    BY <1>1
  <2>1. TypeInv /\ TypeOK
    BY <1>1, Zenon DEF FlowInv, TypeInv
  <2>2. wire[s].octets \in Int
    BY <2>1 DEF TypeOK
  <2>3. wire' # wire /\ wire'[s].octets # wire[s].octets
    BY <2>2
  <2>4. CASE PumpStreamData
    <3>1. ~Stuck(cur)
      BY <2>3, <2>4, Zenon DEF PumpStreamData, out
    <3>2. cur \in Open /\ SendFront(cur, FrontAmount(cur), 0)
      BY <2>4, <3>1, Zenon DEF PumpStreamData, Stuck
    <3>3. 0 <= streams[cur].deficit
      BY <2>1, <3>2 DEF TypeOK, StreamEntry
    <3>4. /\ HasData(streams[cur]) /\ FrontAmount(cur) \in Nat
          /\ FrontAmount(cur) <= Head(streams[cur].pending_data).len
          /\ FrontAmount(cur) > 0 => /\ FrontAmount(cur) <= conn_window
                                     /\ FrontAmount(cur) <= streams[cur].send_window
      BY <2>1, <3>1, <3>2, FrontAmountBounds, Zenon
    <3> QED
      BY <1>1, <3>2, <3>3, <3>4, SendWithinCredit, Zenon
  <2>5. CASE DrrPump
    <3> DEFINE n == MinOf(FrontAmount(cur), streams[cur].deficit)
    <3>1. ~DrrStuck
      BY <2>3, <2>5, Zenon DEF DrrPump, out
    <3>2. cur \in Open /\ ~Stuck(cur) /\ SendFront(cur, n, n)
      BY <2>5, <3>1, Zenon DEF DrrPump, Turn, DrrStuck, Stuck
    <3>3. streams[cur].deficit \in Nat /\ streams[cur].send_window \in Int
          /\ conn_window \in Int
      BY <2>1, <3>2, Zenon DEF TypeOK, StreamEntry
    <3>4. /\ HasData(streams[cur]) /\ FrontAmount(cur) \in Nat
          /\ FrontAmount(cur) <= Head(streams[cur].pending_data).len
          /\ FrontAmount(cur) > 0 => /\ FrontAmount(cur) <= conn_window
                                     /\ FrontAmount(cur) <= streams[cur].send_window
      BY <2>1, <3>2, FrontAmountBounds, Zenon
    <3>5. n \in Nat /\ n <= FrontAmount(cur) /\ n <= streams[cur].deficit
      BY <3>3, <3>4 DEF MinOf
    <3>6. Head(streams[cur].pending_data).len \in Nat
      BY <2>1, <3>2, <3>4, HeadOfPending, Zenon
    <3> HIDE DEF n
    <3>7. /\ n <= Head(streams[cur].pending_data).len
          /\ n > 0 => n <= conn_window /\ n <= streams[cur].send_window
      BY <3>3, <3>4, <3>5, <3>6
    <3> QED
      BY <1>1, <3>2, <3>4, <3>5, <3>7, SendWithinCredit, Zenon
  <2>6. CASE PeerFrame \/ HandleStreamMsg
    BY <2>1, <2>3, <2>6, OnlyPumpsSend, SMTT(30)
  <2>7. ASSUME \/ \E t \in Streams : DrrVisit(t) \/ DrainStream(t)
               \/ DrrRound \/ EndOfRead \/ Wake \/ EndDrain \/ EndBatch
        PROVE  FALSE
    BY <2>3, <2>7, Zenon DEF DrrVisit, DrainStream, DrrRound, EndOfRead, Wake, StartDrain,
                      EndDrain, EndBatch, out
  <2>8. ASSUME NEW t \in Streams, TaskStep(t)
        PROVE  FALSE
    BY <2>3, <2>8, Zenon DEF TaskStep, TaskInformational, TaskResponse, TaskData, TaskBodyEnd,
                      TaskTrailers, TaskBodyError, TaskGivesUp, TaskClosed, Send, Room,
                      TaskMove, out
  <2> QED
    BY <2>4, <2>5, <2>6, <2>7, <2>8 DEF Next, ConnectionStep
<1> QED
  BY <1>1, FlowInvariant, PTL DEF Spec, NeverOverrun

=============================================================================
