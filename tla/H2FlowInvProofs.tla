-------------------------- MODULE H2FlowInvProofs ---------------------------
(***************************************************************************)
(* The inductive invariant of H2FlowControl; the frames of the peer and    *)
(* the steps of the stream tasks keep it.                                  *)
(***************************************************************************)
EXTENDS H2FlowTypeProofs

(***************************************************************************)
(* The inductive invariant behind the safety properties.  An entry keeps   *)
(* its window in step with the peer's ledger; Closed is the last message   *)
(* of its task, so a finished task's channel is empty; and the queue plus  *)
(* the rest of the batch at work never exceed one channel.                 *)
(***************************************************************************)
ClosedLast(q, task) ==
    \A i \in 1 .. Len(q) : q[i].type = "closed" => i = Len(q) /\ task = "closed"

EntryInv(e, octets) ==
    /\ e.send_window = e.credit - octets
    /\ Len(e.msg_rx) <= ChanCap
    /\ Len(e.pending_data) <= ChanCap
    /\ ~(e.task_done /\ e.local_ended)
    /\ ClosedLast(e.msg_rx, e.task)
    /\ e.task_done => e.task = "closed" /\ e.msg_rx = <<>>

EntriesInv == \A s \in Open : EntryInv(streams[s], wire[s].octets)

BatchEntryInv(e, q) ==
    /\ e.msg_rx = <<>>
    /\ Len(e.pending_data) + Len(q) <= ChanCap
    /\ ClosedLast(q, e.task)
    /\ e.task_done => q = <<>>

BatchInv ==
    pc \in {"msgs", "msgpump"} /\ cur \in Open => BatchEntryInv(streams[cur], msgs)

\* A stream the peer may still open has nothing on the wire.
FreshInv ==
    ending \/ \A s \in Streams \ (Open \cup closed_streams) : wire[s].octets = 0

\* The connection window never exceeds what the peer granted, provided it
\* starts at the window the peer starts from.
CreditInv ==
    ConnWindow = PeerConnWindow =>
        /\ conn_window <= conn_credit - conn_sent
        /\ ending \/ conn_window = conn_credit - conn_sent

FlowInv == TypeInv /\ EntriesInv /\ BatchInv /\ FreshInv /\ WindowsLegal /\ CreditInv

\* Writing back one good entry keeps all the entries good.
LEMMA KeptByUpdate ==
    ASSUME TypeOK, EntriesInv, NEW s \in Streams, NEW e \in StreamEntry, Update(s, e),
           EntryInv(e, wire'[s].octets),
           \A t \in Open : t # s => wire'[t].octets = wire[t].octets
    PROVE  EntriesInv'
<1>1. /\ Open' = Open \cup {s} /\ streams'[s] = e
      /\ \A t \in Open : t # s => streams'[t] = streams[t]
  BY UpdateStreams
<1> QED
  BY <1>1 DEF EntriesInv

\* Removing a stream keeps the other entries good.
LEMMA KeptByRemove ==
    ASSUME TypeOK, EntriesInv, NEW s \in Streams, streams' = Without(s),
           \A t \in Open : t # s => wire'[t].octets = wire[t].octets
    PROVE  EntriesInv'
BY DEF EntriesInv, Without, Open

\* The invariant holds of a new connection, which has no entry.
LEMMA FlowInvInit == Init => FlowInv
<1> SUFFICES ASSUME Init PROVE FlowInv
  OBVIOUS
<1>1. Open = {} /\ EntriesInv
  BY DEF Init, Open, EntriesInv
<1>2. BatchInv
  BY DEF Init, BatchInv
<1>3. FreshInv
  BY DEF Init, FreshInv
<1>4. WindowsLegal /\ CreditInv
  BY <1>1, FlowAssumption DEF Init, WindowsLegal, CreditInv
<1> QED
  BY <1>1, <1>2, <1>3, <1>4, TypeInvInit DEF FlowInv

\* The frames of the peer (WINDOW_UPDATE, SETTINGS, RST_STREAM and the new
\* streams) keep the invariant.
LEMMA FlowInvPeer ==
    ASSUME FlowInv, PeerFrame, TypeInv'
    PROVE  FlowInv'
<1> USE DEF conn, drr, out
<1>1. TypeOK /\ EntriesInv /\ FreshInv /\ WindowsLegal /\ CreditInv
  BY DEF FlowInv, TypeInv
<1>2. ASSUME NEW s \in Streams, OpenStream(s)
      PROVE  FlowInv'
  <2> DEFINE e == [send_window |-> initial_window_size, pending_data |-> <<>>,
                   local_ended |-> FALSE, task_done |-> FALSE, deficit |-> 0,
                   msg_rx |-> <<>>, task |-> "service",
                   credit |-> initial_window_size, produced |-> 0,
                   raised |-> FALSE]
  <2>1. e \in StreamEntry
    BY <1>1, EmptySeq, FlowAssumption DEF StreamEntry, TaskState, TypeOK
  <2>2. Update(s, e) /\ ~ending /\ s \notin Open \cup closed_streams
        /\ UNCHANGED <<wire, ending, conn_window, conn_sent, conn_credit>> /\ pc' = "frames"
    BY <1>2 DEF OpenStream, Reading
  <2>3. wire'[s].octets = 0
    BY <1>1, <2>2 DEF FreshInv
  <2>4. EntryInv(e, 0)
    BY <1>1, EmptySeq, FlowAssumption DEF EntryInv, ClosedLast, TypeOK
  <2>5. e.send_window <= MaxWindow
    BY <1>1, FlowAssumption DEF TypeOK
  <2> HIDE DEF e
  <2>6. /\ Open' = Open \cup {s} /\ closed_streams' = closed_streams
        /\ streams'[s] = e /\ \A t \in Open : t # s => streams'[t] = streams[t]
    BY <1>1, <2>1, <2>2, UpdateStreams
  <2>7. EntriesInv'
    BY <1>1, <2>1, <2>2, <2>3, <2>4, KeptByUpdate
  <2>8. FreshInv' /\ CreditInv' /\ BatchInv'
    BY <1>1, <2>2, <2>6 DEF FreshInv, CreditInv, BatchInv
  <2>9. WindowsLegal'
    BY <1>1, <2>2, <2>5, <2>6 DEF WindowsLegal
  <2> QED
    BY <2>7, <2>8, <2>9 DEF FlowInv
<1>3. ASSUME NEW s \in Streams, ResetFrame(s)
      PROVE  FlowInv'
  <2>1. streams' = Without(s) /\ UNCHANGED <<wire, conn_window, conn_sent, conn_credit>>
        /\ pc' = "frames"
        /\ ((ending' = ending /\ closed_streams' = closed_streams \cup {s}) \/ ending' = TRUE)
    BY <1>3 DEF ResetFrame, Remove
  <2>2. Open' = Open \ {s} /\ \A t \in Open' : streams'[t] = streams[t]
    BY <2>1 DEF Without, Open
  <2>3. EntriesInv'
    BY <1>1, <2>1, KeptByRemove
  <2> QED
    BY <1>1, <2>1, <2>2, <2>3 DEF FlowInv, FreshInv, CreditInv, BatchInv, WindowsLegal
<1>4. ASSUME NEW inc \in Increments, ConnWindowUpdate(inc)
      PROVE  FlowInv'
  <2>1. inc \in Nat
    BY FlowAssumption
  <2>2. /\ UNCHANGED <<streams, closed_streams, wire, conn_sent>>
        /\ pc' \in {"drr", "frames"} /\ conn_credit' = conn_credit + inc
        /\ ~ending
        /\ \/ ending' = TRUE /\ conn_window' = conn_window
           \/ ending' = ending /\ conn_window' = conn_window + inc
              /\ ~Overflows(conn_window, inc)
    BY <1>4 DEF ConnWindowUpdate, Reading
  <2>3. EntriesInv' /\ FreshInv' /\ BatchInv'
    BY <1>1, <2>2 DEF EntriesInv, FreshInv, BatchInv, Open
  <2>4. WindowsLegal'
    BY <1>1, <2>1, <2>2, FlowAssumption DEF WindowsLegal, Overflows, Open
  <2>5. CreditInv'
    <3>1. conn_window \in Int /\ conn_credit \in Int /\ conn_sent \in Int
      BY <1>1 DEF TypeOK
    <3> QED
      BY <1>1, <2>1, <2>2, <3>1 DEF CreditInv
  <2> QED
    BY <2>3, <2>4, <2>5 DEF FlowInv
<1>5. ASSUME NEW s \in Streams, NEW inc \in Increments, StreamWindowUpdate(s, inc)
      PROVE  FlowInv'
  <2>1. inc \in Nat
    BY FlowAssumption
  <2>2. /\ s \in Open /\ ~ending /\ streams[s] \in StreamEntry
        /\ UNCHANGED <<conn_window, conn_credit>>
    BY <1>1, <1>5 DEF StreamWindowUpdate, Reading, TypeOK
  <2>3. CASE Remove(s) /\ Write(s, "reset", 0, FALSE) /\ UNCHANGED ending /\ pc' = "frames"
    <3>1. /\ wire'[s].octets = wire[s].octets + 0 /\ conn_sent' = conn_sent + 0
          /\ \A t \in Streams : t # s => wire'[t] = wire[t]
      BY <1>1, <2>3, WriteWire, Zenon
    <3>2. conn_sent' = conn_sent /\ \A t \in Streams : wire'[t].octets = wire[t].octets
      <4>1. conn_sent \in Nat /\ wire[s].octets \in Nat
        BY <1>1 DEF TypeOK
      <4> QED
        BY <3>1, <4>1
    <3>3. /\ streams' = Without(s) /\ closed_streams' = closed_streams \cup {s}
          /\ Open' = Open \ {s} /\ \A t \in Open' : streams'[t] = streams[t]
      BY <2>3 DEF Remove, Without, Open
    <3>4. EntriesInv'
      BY <1>1, <3>2, <3>3, KeptByRemove DEF TypeOK
    <3>5. FreshInv' /\ BatchInv' /\ WindowsLegal' /\ CreditInv'
      BY <1>1, <2>2, <2>3, <3>2, <3>3 DEF FreshInv, BatchInv, WindowsLegal, CreditInv
    <3> QED
      BY <3>4, <3>5 DEF FlowInv
  <2>4. CASE ending' = TRUE /\ UNCHANGED <<streams, closed_streams, out>> /\ pc' = "frames"
    BY <1>1, <2>2, <2>4
       DEF FlowInv, EntriesInv, FreshInv, BatchInv, WindowsLegal, CreditInv, Open
  <2>5. CASE /\ Update(s, [streams[s] EXCEPT !.send_window = @ + inc, !.credit = @ + inc,
                                             !.raised = FALSE])
             /\ ~Overflows(streams[s].send_window, inc)
             /\ UNCHANGED <<out, ending>> /\ pc' = "pump"
    <3> DEFINE e == [streams[s] EXCEPT !.send_window = @ + inc, !.credit = @ + inc,
                                       !.raised = FALSE]
    <3>1. streams[s].send_window \in Int /\ streams[s].credit \in Int
      BY <2>2 DEF StreamEntry
    <3>2. streams[s].send_window + inc \in Int /\ streams[s].credit + inc \in Int
      BY <2>1, <3>1
    <3>3. e \in StreamEntry
      BY <2>2, <3>2, Zenon DEF StreamEntry
    <3>4. /\ e.send_window = streams[s].send_window + inc
          /\ e.credit = streams[s].credit + inc /\ e.msg_rx = streams[s].msg_rx
          /\ e.pending_data = streams[s].pending_data /\ e.task = streams[s].task
          /\ e.task_done = streams[s].task_done /\ e.local_ended = streams[s].local_ended
      BY <2>2 DEF StreamEntry
    <3>5. wire[s].octets \in Nat /\ EntryInv(streams[s], wire[s].octets)
      BY <1>1, <2>2 DEF EntriesInv, TypeOK
    <3>6. EntryInv(e, wire[s].octets)
      BY <2>1, <3>1, <3>4, <3>5 DEF EntryInv
    <3>7. e.send_window <= MaxWindow
      BY <2>1, <2>5, <3>1, <3>4, FlowAssumption DEF Overflows
    <3>8. Update(s, e)
      BY <2>5
    <3> HIDE DEF e
    <3>9. EntriesInv'
      BY <1>1, <2>5, <3>3, <3>6, <3>8, KeptByUpdate
    <3>10. /\ Open' = Open \cup {s} /\ closed_streams' = closed_streams
           /\ streams'[s] = e /\ \A t \in Open : t # s => streams'[t] = streams[t]
      BY <1>1, <3>3, <3>8, UpdateStreams
    <3>11. FreshInv' /\ BatchInv' /\ WindowsLegal' /\ CreditInv'
      BY <1>1, <2>2, <2>5, <3>7, <3>10 DEF FreshInv, BatchInv, WindowsLegal, CreditInv
    <3> QED
      BY <3>9, <3>11 DEF FlowInv
  <2> QED
    BY <1>5, <2>3, <2>4, <2>5, Zenon DEF StreamWindowUpdate
<1>6. ASSUME NEW v \in WindowSizes, InitialWindowSetting(v)
      PROVE  FlowInv'
  <2> DEFINE d == v - initial_window_size
             f(s) == [streams[s] EXCEPT !.send_window = Shifted(@, v), !.credit = @ + d,
                                        !.raised = @ \/ d > 0]
  <2>1. v \in Int /\ initial_window_size \in Int /\ d \in Int
    BY <1>1, FlowAssumption DEF TypeOK
  <2>2. /\ streams' = [s \in Open |-> f(s)] /\ ~ending
        /\ ending' = \E s \in Open : Shifted(streams[s].send_window, v) > MaxWindow
        /\ UNCHANGED <<conn_window, closed_streams, wire, conn_sent, conn_credit>>
        /\ pc' = "frames"
    BY <1>6, Zenon DEF InitialWindowSetting, Reading
  <2>3. ASSUME NEW s \in Open
        PROVE  /\ f(s).send_window = Shifted(streams[s].send_window, v)
               /\ f(s).send_window \in Int
               /\ EntryInv(f(s), wire[s].octets)
    <3>1. streams[s] \in StreamEntry /\ EntryInv(streams[s], wire[s].octets)
          /\ wire[s].octets \in Nat
      BY <1>1 DEF EntriesInv, TypeOK
    <3>2. streams[s].send_window \in Int /\ streams[s].credit \in Int
      BY <3>1 DEF StreamEntry
    <3>3. /\ f(s).send_window = Shifted(streams[s].send_window, v)
          /\ f(s).credit = streams[s].credit + d /\ f(s).msg_rx = streams[s].msg_rx
          /\ f(s).pending_data = streams[s].pending_data /\ f(s).task = streams[s].task
          /\ f(s).task_done = streams[s].task_done
          /\ f(s).local_ended = streams[s].local_ended
      BY <3>1 DEF StreamEntry
    <3>4. Shifted(streams[s].send_window, v) = streams[s].send_window + d
      BY DEF Shifted
    <3> HIDE DEF f, d
    <3> QED
      BY <2>1, <3>1, <3>2, <3>3, <3>4 DEF EntryInv
  <2> HIDE DEF f
  <2>4. Open' = Open /\ \A s \in Open : streams'[s] = f(s)
    BY <2>2 DEF Open
  <2>5. EntriesInv'
    BY <2>2, <2>3, <2>4 DEF EntriesInv
  <2>6. WindowsLegal'
    BY <1>1, <2>2, <2>3, <2>4, FlowAssumption DEF WindowsLegal
  <2>7. FreshInv' /\ BatchInv' /\ CreditInv'
    BY <1>1, <2>2, <2>4 DEF FreshInv, BatchInv, CreditInv
  <2> QED
    BY <2>5, <2>6, <2>7 DEF FlowInv
<1>7. ASSUME /\ UNCHANGED <<streams, closed_streams, wire, conn_window, conn_sent,
                            conn_credit>>
             /\ pc' \in {"frames", "closed"} /\ (ending' = ending \/ ending' = TRUE)
      PROVE  FlowInv'
  BY <1>1, <1>7
     DEF FlowInv, EntriesInv, FreshInv, BatchInv, WindowsLegal, CreditInv, Open
<1>8. ASSUME NEW v \in FrameSizes, MaxFrameSetting(v)
      PROVE  FlowInv'
  BY <1>7, <1>8 DEF MaxFrameSetting
<1>9. CASE OtherFrame \/ PeerGoAway \/ LoopEnds
  BY <1>7, <1>9, Zenon DEF OtherFrame, PeerGoAway, LoopEnds
<1> QED
  BY <1>2, <1>3, <1>4, <1>5, <1>6, <1>8, <1>9 DEF PeerFrame

\* A stream task only appends to its channel, Closed last, and keeps the
\* invariant.
LEMMA FlowInvTask ==
    ASSUME FlowInv, TypeInv', NEW s \in Streams, TaskStep(s)
    PROVE  FlowInv'
<1> USE DEF conn, drr, out
<1>1. TypeOK /\ EntriesInv /\ FreshInv /\ WindowsLegal /\ CreditInv
  BY DEF FlowInv, TypeInv
<1>2. ASSUME NEW from, from # "closed", TaskMove(s, from),
             NEW e \in StreamEntry, Update(s, e), EntryInv(e, wire[s].octets),
             e.send_window = streams[s].send_window
      PROVE  FlowInv'
  <2>1. /\ s \in Open /\ pc' = pc /\ pc \in {"select", "frames"}
        /\ UNCHANGED <<wire, conn_window, conn_sent, conn_credit, ending>>
    BY <1>2 DEF TaskMove
  <2>2. /\ Open' = Open \cup {s} /\ closed_streams' = closed_streams
        /\ streams'[s] = e /\ \A t \in Open : t # s => streams'[t] = streams[t]
    BY <1>1, <1>2, UpdateStreams, SMTT(30)
  <2>3. EntriesInv'
    BY <1>1, <1>2, <2>1, KeptByUpdate, SMTT(30)
  <2> QED
    BY <1>1, <1>2, <2>1, <2>2, <2>3, SMTT(30)
       DEF FlowInv, FreshInv, BatchInv, WindowsLegal, CreditInv
<1>3. ASSUME NEW from, from # "closed", NEW to \in TaskState, NEW m \in StreamMsg,
             m.type = "closed" => to = "closed", Send(s, from, to, m)
      PROVE  FlowInv'
  <2> DEFINE q == streams[s].msg_rx
             e == [streams[s] EXCEPT !.task = to, !.msg_rx = Append(@, m),
                                     !.produced = @ + m.len]
  <2>1. /\ TaskMove(s, from) /\ Len(q) < ChanCap /\ Update(s, e)
        /\ s \in Open /\ streams[s] \in StreamEntry /\ streams[s].task = from
    BY <1>1, <1>3 DEF Send, Room, TaskMove, TypeOK
  <2>2. q \in Seq(StreamMsg) /\ Len(q) \in Nat
    BY <2>1, LenProperties DEF StreamEntry
  <2>3. streams[s].produced + m.len \in Nat
    BY <2>1 DEF StreamEntry, StreamMsg
  <2>4. /\ Append(q, m) \in Seq(StreamMsg) /\ Len(Append(q, m)) = Len(q) + 1
        /\ \A i \in 1 .. Len(q) : Append(q, m)[i] = q[i]
        /\ Append(q, m)[Len(q) + 1] = m
    BY <2>2, AppendProperties
  <2>5. e \in StreamEntry
    BY <2>1, <2>3, <2>4, Zenon DEF StreamEntry
  <2>6. /\ e.send_window = streams[s].send_window /\ e.credit = streams[s].credit
        /\ e.msg_rx = Append(q, m) /\ e.task = to
        /\ e.pending_data = streams[s].pending_data
        /\ e.task_done = streams[s].task_done /\ e.local_ended = streams[s].local_ended
    BY <2>1 DEF StreamEntry
  <2> HIDE DEF e
  <2>7. EntryInv(streams[s], wire[s].octets) /\ ~streams[s].task_done
    BY <1>1, <1>3, <2>1 DEF EntriesInv, EntryInv
  <2>8. \A i \in 1 .. Len(q) : q[i].type # "closed"
    BY <1>3, <2>1, <2>7 DEF EntryInv, ClosedLast
  <2>9. ClosedLast(e.msg_rx, e.task)
    <3> SUFFICES ASSUME NEW i \in 1 .. Len(q) + 1, Append(q, m)[i].type = "closed"
                 PROVE  i = Len(q) + 1 /\ to = "closed"
      BY <2>4, <2>6 DEF ClosedLast
    <3>1. CASE i \in 1 .. Len(q)
      BY <2>4, <2>8, <3>1
    <3>2. CASE i = Len(q) + 1
      BY <1>3, <2>4, <3>2
    <3> QED
      BY <2>2, <3>1, <3>2
  <2>10. Len(e.msg_rx) <= ChanCap
    BY <2>1, <2>2, <2>4, <2>6, FlowAssumption
  <2>11. EntryInv(e, wire[s].octets)
    BY <2>6, <2>7, <2>9, <2>10 DEF EntryInv
  <2> QED
    BY <1>2, <1>3, <2>1, <2>5, <2>6, <2>11
<1>4. \A type \in MsgType, end \in BOOLEAN : Msg(type, 0, end) \in StreamMsg
  BY DEF Msg, StreamMsg
<1>5. \A n \in ChunkLens : Msg("data", n, FALSE) \in StreamMsg
  BY FlowAssumption DEF Msg, StreamMsg, MsgType
<1>6. \A t \in {"info", "headers", "data", "trailers", "reset", "closed"} : t \in MsgType
  BY DEF MsgType
<1>7. \A t \in {"service", "body", "ended", "closed"} : t \in TaskState
  BY DEF TaskState
<1>8. \A type \in MsgType \ {"closed"}, n \in Nat, end \in BOOLEAN :
        Msg(type, n, end).type # "closed"
  BY DEF Msg
<1>9. CASE TaskInformational(s)
  <2>1. /\ Msg("info", 0, FALSE) \in StreamMsg
        /\ Msg("info", 0, FALSE).type # "closed"
    BY <1>4, <1>6, <1>8, Zenon
  <2> QED
    BY <1>3, <1>7, <1>9, <2>1, Zenon DEF TaskInformational
<1>10. CASE TaskResponse(s)
  <2>1. \A end \in BOOLEAN : /\ Msg("headers", 0, end) \in StreamMsg
                             /\ Msg("headers", 0, end).type # "closed"
    BY <1>4, <1>6, <1>8
  <2> QED
    BY <1>3, <1>7, <1>10, <2>1, Zenon DEF TaskResponse
<1>11. ASSUME NEW n \in ChunkLens, TaskData(s, n)
       PROVE  FlowInv'
  <2>1. Msg("data", n, FALSE) \in StreamMsg /\ Msg("data", n, FALSE).type # "closed"
    BY <1>5, <1>6, <1>8, FlowAssumption, Zenon
  <2> QED
    BY <1>3, <1>7, <1>11, <2>1, Zenon DEF TaskData
<1>12. CASE TaskBodyEnd(s) \/ TaskTrailers(s) \/ TaskBodyError(s)
  <2>1. \A type \in {"data", "trailers", "reset"}, end \in BOOLEAN :
            Msg(type, 0, end) \in StreamMsg /\ Msg(type, 0, end).type # "closed"
    BY <1>4, <1>6, <1>8
  <2> QED
    BY <1>3, <1>7, <1>12, <2>1, Zenon DEF TaskBodyEnd, TaskTrailers, TaskBodyError
<1>13. CASE TaskClosed(s)
  BY <1>3, <1>4, <1>6, <1>7, <1>8, <1>13, Zenon DEF TaskClosed
<1>14. CASE TaskGivesUp(s)
  <2> DEFINE e == [streams[s] EXCEPT !.task = "ended"]
  <2>1. PICK from \in {"service", "body"} : TaskMove(s, from) /\ Update(s, e)
    BY <1>14 DEF TaskGivesUp
  <2>2. s \in Open /\ streams[s] \in StreamEntry /\ streams[s].task = from
    BY <1>1, <2>1 DEF TaskMove, TypeOK
  <2>3. /\ e \in StreamEntry
        /\ e.send_window = streams[s].send_window /\ e.credit = streams[s].credit
        /\ e.msg_rx = streams[s].msg_rx /\ e.task = "ended"
        /\ e.pending_data = streams[s].pending_data
        /\ e.task_done = streams[s].task_done /\ e.local_ended = streams[s].local_ended
    BY <1>7, <2>2, SMTT(30) DEF StreamEntry
  <2> HIDE DEF e
  <2>4. EntryInv(streams[s], wire[s].octets) /\ ~streams[s].task_done
    BY <1>1, <2>1, <2>2 DEF EntriesInv, EntryInv
  <2>5. ClosedLast(e.msg_rx, e.task)
    BY <2>1, <2>2, <2>3, <2>4 DEF EntryInv, ClosedLast
  <2>6. EntryInv(e, wire[s].octets)
    BY <2>3, <2>4, <2>5 DEF EntryInv
  <2> QED
    BY <1>2, <2>1, <2>3, <2>6
<1> QED
  BY <1>9, <1>10, <1>11, <1>12, <1>13, <1>14 DEF TaskStep

=============================================================================
