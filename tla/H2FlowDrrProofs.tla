-------------------------- MODULE H2FlowDrrProofs ---------------------------
(***************************************************************************)
(* Queued DATA is pumped when a window opens, and drain_pending_data(None) *)
(* shares the connection window fairly.                                    *)
(***************************************************************************)
EXTENDS H2FlowControlProofs

(***************************************************************************)
(* The rounds of drain_pending_data(None).  Round(r) holds in the round    *)
(* numbered r: what is in ids was served r times, what is kept for the     *)
(* next round once more, and every stream that could send is in one of the *)
(* two or at work.  Outside of the rounds DATA that could leave waits only *)
(* where SETTINGS opened the window, or where the pump is at work.         *)
(***************************************************************************)
InRounds == pc \in {"drr", "drrpump"}
Pumping == pc \in {"pump", "msgpump"}
Waits(e) == HasData(e) /\ e.send_window > 0

Visited(r) ==
    /\ conn_window > 0 /\ cur \in Streams \ (ids \cup next_ids) /\ served[cur] = r
    /\ cur \in Open => streams[cur].send_window > 0 /\ streams[cur].deficit > 0

Round(r) ==
    /\ \A s \in Streams : served[s] <= r + 1
    /\ \A s \in Open : Waits(streams[s]) =>
          /\ r <= served[s]
          /\ conn_window > 0 => s \in ids \cup next_ids \/ (pc = "drrpump" /\ s = cur)
    /\ \A s \in ids : served[s] = r
    /\ \A s \in next_ids : served[s] = r + 1
    /\ ids # {} => conn_window > 0
    /\ next_ids # {} => progress
    /\ pc = "drrpump" => Visited(r)

RoundInv ==
    /\ InRounds => \E r \in Nat : Round(r)
    /\ ~InRounds => next_ids = {} /\ served = [s \in Streams |-> 0]

PumpedInv ==
    ~InRounds /\ conn_window > 0 =>
        \A s \in Open : Waits(streams[s]) => streams[s].raised \/ (Pumping /\ s = cur)

DrrInv == RoundInv /\ PumpedInv

\* A step outside of the rounds leaves their locals alone.
LEMMA RoundsIdle ==
    ASSUME RoundInv, ~InRounds, ~InRounds', UNCHANGED <<next_ids, served>>
    PROVE  RoundInv'
BY DEF RoundInv

\* Writing back an entry that cannot send, or could before, leaves no DATA
\* behind open windows.
LEMMA PumpedByUpdate ==
    ASSUME PumpedInv, ~InRounds, ~Pumping, conn_window' = conn_window,
           NEW s \in Streams, NEW e, Update(s, e),
           \/ ~Waits(e) \/ e.raised \/ (Pumping' /\ s = cur')
           \/ s \in Open /\ Waits(streams[s]) /\ e.raised = streams[s].raised
    PROVE  PumpedInv'
<1>1. /\ Open' = Open \cup {s} /\ streams'[s] = e
      /\ \A t \in Open : t # s => streams'[t] = streams[t]
  BY Zenon DEF Update, With, Open
<1> SUFFICES ASSUME conn_window > 0, NEW t \in Open', Waits(streams'[t])
             PROVE  streams'[t].raised \/ (Pumping' /\ t = cur')
  BY DEF PumpedInv, Waits, HasData
<1>2. \A i \in Open : Waits(streams[i]) => streams[i].raised
  BY DEF PumpedInv
<1>3. CASE t = s
  BY <1>1, <1>2, <1>3
<1>4. CASE t # s
  BY <1>1, <1>2, <1>4
<1> QED
  BY <1>3, <1>4

\* Dropping an entry, or none, leaves no DATA behind open windows.
LEMMA PumpedByRemove ==
    ASSUME PumpedInv, ~InRounds, ~Pumping, conn_window' = conn_window,
           UNCHANGED streams \/ \E s \in Streams : streams' = Without(s)
    PROVE  PumpedInv'
<1>1. Open' \subseteq Open /\ \A t \in Open' : streams'[t] = streams[t]
  BY Zenon DEF Without, Open
<1>2. conn_window > 0 => \A t \in Open : Waits(streams[t]) => streams[t].raised
  BY DEF PumpedInv
<1> QED
  BY <1>1, <1>2 DEF PumpedInv, Waits, HasData

\* WINDOW_UPDATE on the connection starts the rounds with every blocked
\* stream; the other frames of the peer leave pumped what was pumped.
LEMMA DrrInvPeer ==
    ASSUME FlowInv, DrrInv, PeerFrame
    PROVE  DrrInv'
<1> USE DEF conn, drr, out
<1>1. TypeOK /\ RoundInv /\ PumpedInv
  BY DEF FlowInv, TypeInv, DrrInv
<1>2. pc \in {"select", "frames"} /\ ~InRounds /\ ~Pumping
  BY Zenon DEF PeerFrame, OpenStream, ResetFrame, ConnWindowUpdate, StreamWindowUpdate,
         InitialWindowSetting, MaxFrameSetting, OtherFrame, PeerGoAway, LoopEnds, Reading,
         InRounds, Pumping
<1>3. next_ids = {} /\ served = [s \in Streams |-> 0]
  BY <1>1, <1>2 DEF RoundInv
<1>4. ASSUME NEW s \in Streams, OpenStream(s)
      PROVE  DrrInv'
  <2> DEFINE e == [send_window |-> initial_window_size, pending_data |-> <<>>,
                   local_ended |-> FALSE, task_done |-> FALSE, deficit |-> 0,
                   msg_rx |-> <<>>, task |-> "service",
                   credit |-> initial_window_size, produced |-> 0,
                   raised |-> FALSE]
  <2>1. Update(s, e) /\ pc' = "frames" /\ UNCHANGED <<conn_window, next_ids, served>>
    BY <1>4, Zenon DEF OpenStream
  <2>2. ~Waits(e)
    BY DEF Waits, HasData
  <2> HIDE DEF e
  <2>3. ~InRounds'
    BY <2>1 DEF InRounds
  <2>4. PumpedInv'
    BY <1>1, <1>2, <2>1, <2>2, PumpedByUpdate
  <2> QED
    BY <1>1, <1>2, <2>1, <2>3, <2>4, RoundsIdle DEF DrrInv
<1>5. ASSUME NEW s \in Streams, ResetFrame(s)
      PROVE  DrrInv'
  <2>1. streams' = Without(s) /\ pc' = "frames" /\ UNCHANGED <<conn_window, next_ids, served>>
    BY <1>5, Zenon DEF ResetFrame, Remove
  <2>2. ~InRounds'
    BY <2>1 DEF InRounds
  <2> QED
    BY <1>1, <1>2, <2>1, <2>2, RoundsIdle, PumpedByRemove DEF DrrInv
<1>6. ASSUME NEW inc \in Increments, ConnWindowUpdate(inc)
      PROVE  DrrInv'
  <2>1. UNCHANGED <<streams, closed_streams, cur, next_ids, progress, served>>
    BY <1>6, Zenon DEF ConnWindowUpdate
  <2>2. CASE Overflows(conn_window, inc)
    <3>1. pc' = "frames" /\ UNCHANGED conn_window
      BY <1>6, <2>2, Zenon DEF ConnWindowUpdate
    <3>2. ~InRounds'
      BY <3>1 DEF InRounds
    <3> QED
      BY <1>1, <1>2, <2>1, <3>1, <3>2, RoundsIdle, PumpedByRemove DEF DrrInv
  <2>3. CASE ~Overflows(conn_window, inc)
    <3>1. /\ ids' = Reopened(conn_window')
          /\ pc' = IF ids' # {} THEN "drr" ELSE "frames"
      BY <1>6, <2>3, Zenon DEF ConnWindowUpdate
    <3>2. CASE ids' # {}
      <4>1. conn_window' > 0 /\ ids' = Blocked /\ pc' = "drr"
        BY <3>1, <3>2 DEF Reopened
      <4>2. Round(0)'
        BY <1>1, <1>3, <2>1, <4>1 DEF Round, Blocked, Waits, HasData, Open, TypeOK
      <4>3. PumpedInv' /\ InRounds'
        BY <4>1 DEF PumpedInv, InRounds
      <4> QED
        BY <4>2, <4>3 DEF DrrInv, RoundInv
    <3>3. CASE ids' = {}
      <4>1. pc' = "frames" /\ (conn_window' > 0 => Blocked = {})
        BY <3>1, <3>3 DEF Reopened
      <4>2. ~InRounds'
        BY <4>1 DEF InRounds
      <4>3. PumpedInv'
        BY <2>1, <4>1 DEF PumpedInv, Blocked, Waits, HasData, Open
      <4> QED
        BY <1>1, <1>2, <2>1, <4>2, <4>3, RoundsIdle DEF DrrInv
    <3> QED
      BY <3>2, <3>3
  <2> QED
    BY <2>2, <2>3
<1>7. ASSUME NEW s \in Streams, NEW inc \in Increments, StreamWindowUpdate(s, inc)
      PROVE  DrrInv'
  <2>1. s \in Open /\ UNCHANGED <<conn_window, next_ids, served>> /\ pc' \in {"frames", "pump"}
    BY <1>7, Zenon DEF StreamWindowUpdate
  <2>2. ~InRounds'
    BY <2>1 DEF InRounds
  <2>3. CASE Overflows(streams[s].send_window, inc)
    <3>1. streams' = Without(s) \/ UNCHANGED streams
      BY <1>7, <2>3, Zenon DEF StreamWindowUpdate, Remove
    <3> QED
      BY <1>1, <1>2, <2>1, <2>2, <3>1, RoundsIdle, PumpedByRemove DEF DrrInv
  <2>4. CASE ~Overflows(streams[s].send_window, inc)
    <3> DEFINE e == [streams[s] EXCEPT !.send_window = @ + inc, !.credit = @ + inc,
                                       !.raised = FALSE]
    <3>1. Update(s, e) /\ pc' = "pump" /\ cur' = s
      BY <1>7, <2>4, Zenon DEF StreamWindowUpdate
    <3> HIDE DEF e
    <3>2. PumpedInv'
      BY <1>1, <1>2, <2>1, <3>1, PumpedByUpdate DEF Pumping
    <3> QED
      BY <1>1, <1>2, <2>1, <2>2, <3>2, RoundsIdle DEF DrrInv
  <2> QED
    BY <2>3, <2>4
<1>8. ASSUME NEW v \in WindowSizes, InitialWindowSetting(v)
      PROVE  DrrInv'
  <2> DEFINE delta == v - initial_window_size
  <2>1. /\ streams' = [s \in Open |->
              [streams[s] EXCEPT !.send_window = Shifted(@, v), !.credit = @ + delta,
                                 !.raised = @ \/ delta > 0]]
        /\ pc' = "frames" /\ UNCHANGED <<conn_window, next_ids, served>>
    BY <1>8, Zenon DEF InitialWindowSetting
  <2>2. ~InRounds'
    BY <2>1, Zenon DEF InRounds
  <2>3. v \in Int /\ initial_window_size \in Int
    BY <1>1, FlowAssumption DEF TypeOK
  <2>4. ASSUME conn_window > 0, NEW s \in Open, Waits(streams'[s])
        PROVE  streams'[s].raised
    <3>1. streams[s] \in StreamEntry
      BY <1>1 DEF TypeOK
    <3>2. /\ streams'[s].send_window = streams[s].send_window + delta
          /\ streams'[s].raised = (streams[s].raised \/ delta > 0)
          /\ streams'[s].pending_data = streams[s].pending_data
          /\ streams'[s].local_ended = streams[s].local_ended
      BY <2>1, <3>1, Zenon DEF Shifted, StreamEntry
    <3>3. streams[s].send_window \in Int
      BY <3>1 DEF StreamEntry
    <3>4. delta > 0 \/ Waits(streams[s])
      BY <2>3, <2>4, <3>2, <3>3 DEF Waits, HasData
    <3>5. Waits(streams[s]) => streams[s].raised
      BY <1>1, <1>2, <2>4 DEF PumpedInv
    <3> QED
      BY <3>2, <3>4, <3>5, Zenon
  <2>5. Open' = Open
    BY <2>1, Zenon DEF Open
  <2>6. PumpedInv'
    BY <2>1, <2>4, <2>5, Zenon DEF PumpedInv, Waits, HasData
  <2> QED
    BY <1>1, <1>2, <2>1, <2>2, <2>6, RoundsIdle, Zenon DEF DrrInv
<1>9. CASE (\E v \in FrameSizes : MaxFrameSetting(v)) \/ OtherFrame \/ PeerGoAway \/ LoopEnds
  <2>1. pc' \in {"frames", "closed"} /\ UNCHANGED <<streams, conn_window, next_ids, served>>
    BY <1>9, Zenon DEF MaxFrameSetting, OtherFrame, PeerGoAway, LoopEnds
  <2>2. ~InRounds'
    BY <2>1 DEF InRounds
  <2> QED
    BY <1>1, <1>2, <2>1, <2>2, RoundsIdle, PumpedByRemove DEF DrrInv
<1> QED
  BY <1>4, <1>5, <1>6, <1>7, <1>8, <1>9 DEF PeerFrame

\* One frame of cur in the rounds: with octets it ends the visit and counts as
\* the stream's frame of this round, without it the visit goes on.
LEMMA DrrInvSend ==
    ASSUME FlowInv, NEW r \in Nat, Round(r), DrrPump, ~DrrStuck
    PROVE  Round(r)' /\ InRounds'
<1> USE DEF conn, drr, out
<1> DEFINE n == MinOf(FrontAmount(cur), streams[cur].deficit)
<1>1. TypeOK /\ pc = "drrpump" /\ Visited(r)
  BY DEF FlowInv, TypeInv, DrrPump, Round
<1>2. cur \in Open /\ ~Stuck(cur)
  BY DEF DrrStuck, Stuck
<1>3. /\ SendFront(cur, n, Turn(n).spent)
      /\ progress' = (progress \/ n > 0)
      /\ served' = [served EXCEPT ![cur] = IF n > 0 THEN @ + 1 ELSE @]
      /\ pc' = IF Turn(n).over THEN "drr" ELSE "drrpump"
      /\ next_ids' = IF pc' = "drr" /\ cur \in Blocked' THEN next_ids \cup {cur} ELSE next_ids
      /\ ids' = IF conn_window' <= 0 THEN {} ELSE ids
      /\ cur' = IF pc' = "drr" THEN NoStream ELSE cur
  BY Zenon DEF DrrPump
<1>4. Turn(n).spent = n /\ (Turn(n).over <=> n > 0)
  BY Zenon DEF Turn
<1>5. streams[cur].deficit \in Nat /\ streams[cur].send_window \in Int /\ conn_window \in Int
  BY <1>1, <1>2, SMTT(30) DEF TypeOK, StreamEntry
<1>6. /\ HasData(streams[cur]) /\ FrontAmount(cur) \in Nat
      /\ FrontAmount(cur) <= Head(streams[cur].pending_data).len
  BY <1>1, <1>2, FrontAmountBounds, Zenon
<1>7. n \in Nat /\ n <= FrontAmount(cur) /\ n <= streams[cur].deficit
  BY <1>5, <1>6, SMTT(30) DEF MinOf
<1>8. Head(streams[cur].pending_data).len \in Nat
  BY <1>1, <1>2, <1>6, HeadOfPending, SMTT(30)
<1> HIDE DEF n
<1>9. n <= Head(streams[cur].pending_data).len /\ SendFront(cur, n, n)
  BY <1>3, <1>4, <1>6, <1>7, <1>8, SMTT(30)
<1>10. /\ conn_window' = conn_window - n
       /\ Open' \subseteq Open
       /\ \A t \in Open' : t # cur => streams'[t] = streams[t]
       /\ cur \in Open' => /\ streams'[cur].send_window = streams[cur].send_window - n
                           /\ streams'[cur].deficit = streams[cur].deficit - n
  BY <1>1, <1>2, <1>6, <1>7, <1>9, SendFrontStep
<1>11. /\ cur \in Streams /\ cur \notin ids /\ cur \notin next_ids
       /\ served[cur] = r /\ conn_window > 0
       /\ streams[cur].send_window > 0 /\ streams[cur].deficit > 0
  BY <1>1, <1>2 DEF Visited
<1>12. served \in [Streams -> Nat] /\ Open \subseteq Streams /\ ids \subseteq Streams
       /\ next_ids \subseteq Streams
  BY <1>1 DEF TypeOK
<1>13. /\ \A s \in Streams : served[s] <= r + 1
       /\ \A s \in Open : Waits(streams[s]) =>
             r <= served[s] /\ (s \in ids \cup next_ids \/ s = cur)
       /\ \A s \in ids : served[s] = r
       /\ \A s \in next_ids : served[s] = r + 1
       /\ next_ids # {} => progress
  BY <1>11 DEF Round
<1>14. CASE n > 0
  <2>1. /\ pc' = "drr" /\ progress' = TRUE /\ served'[cur] = r + 1
        /\ \A s \in Streams : s # cur => served'[s] = served[s]
        /\ next_ids' = IF cur \in Blocked' THEN next_ids \cup {cur} ELSE next_ids
        /\ ids' \subseteq ids /\ (conn_window' > 0 => ids' = ids)
        /\ ids' # {} => conn_window' > 0
    <3>1. pc' = "drr" /\ progress' = TRUE
      BY <1>1, <1>3, <1>4, <1>14, Zenon DEF TypeOK
    <3>2. next_ids' = IF cur \in Blocked' THEN next_ids \cup {cur} ELSE next_ids
      BY <1>3, <3>1, Zenon
    <3>3. served' = [served EXCEPT ![cur] = @ + 1]
      BY <1>3, <1>14, Zenon
    <3>4. conn_window' \in Int /\ ids' = IF conn_window' <= 0 THEN {} ELSE ids
      BY <1>3, <1>5, <1>7, <1>10
    <3>5. /\ ids' \subseteq ids /\ (conn_window' > 0 => ids' = ids)
          /\ ids' # {} => conn_window' > 0
      BY <3>4
    <3>6. served'[cur] = r + 1 /\ \A s \in Streams : s # cur => served'[s] = served[s]
      BY <1>11, <1>12, <3>3
    <3> QED
      BY <3>1, <3>2, <3>5, <3>6, Zenon
  <2>2. \A s \in Open' : Waits(streams'[s]) =>
             /\ r <= served'[s]
             /\ conn_window' > 0 => s \in ids' \cup next_ids'
    <3> SUFFICES ASSUME NEW s \in Open', Waits(streams'[s])
                 PROVE  /\ r <= served'[s]
                        /\ conn_window' > 0 => s \in ids' \cup next_ids'
      OBVIOUS
    <3>1. CASE s = cur
      <4>1. cur \in Blocked'
        BY <3>1 DEF Waits, Blocked
      <4> QED
        BY <2>1, <3>1, <4>1
    <3>2. CASE s # cur
      <4>1. s \in Open /\ Waits(streams[s]) /\ s \in Streams
        BY <1>10, <1>12, <3>2
      <4> QED
        BY <1>13, <2>1, <3>2, <4>1
    <3> QED
      BY <3>1, <3>2
  <2>3. /\ \A s \in Streams : served'[s] <= r + 1
        /\ \A s \in ids' : served'[s] = r
        /\ \A s \in next_ids' : served'[s] = r + 1
    BY <1>11, <1>12, <1>13, <2>1
  <2> QED
    BY <2>1, <2>2, <2>3 DEF Round, InRounds
<1>15. CASE n = 0
  <2>1. /\ pc' = "drrpump" /\ cur' = cur /\ served' = served
        /\ next_ids' = next_ids /\ ids' = ids /\ conn_window' = conn_window
        /\ progress' = progress
    <3>1. ~(n > 0)
      BY <1>15
    <3>2. pc' = "drrpump"
      BY <1>3, <1>4, <3>1, Zenon
    <3>3. cur' = cur /\ next_ids' = next_ids
      BY <1>3, <3>2
    <3>4. served' = [served EXCEPT ![cur] = @] /\ progress' = progress
      BY <1>1, <1>3, <3>1, Zenon DEF TypeOK
    <3>5. conn_window' = conn_window /\ ids' = ids
      BY <1>3, <1>5, <1>10, <1>11, <1>15
    <3> QED
      BY <1>11, <1>12, <3>2, <3>3, <3>4, <3>5
  <2>2. cur \in Open' => streams'[cur].send_window > 0 /\ streams'[cur].deficit > 0
    BY <1>5, <1>10, <1>11, <1>15
  <2>3. Visited(r)'
    BY <1>11, <2>1, <2>2 DEF Visited
  <2>4. \A s \in Open' : Waits(streams'[s]) =>
             /\ r <= served'[s]
             /\ s \in ids' \cup next_ids' \/ s = cur
    <3> SUFFICES ASSUME NEW s \in Open', Waits(streams'[s]), s # cur
                 PROVE  r <= served'[s] /\ s \in ids' \cup next_ids'
      BY <1>11, <2>1
    <3>1. s \in Open /\ Waits(streams[s])
      BY <1>10
    <3> QED
      BY <1>13, <2>1, <3>1
  <2> QED
    BY <1>11, <1>13, <2>1, <2>3, <2>4 DEF Round, InRounds
<1> QED
  BY <1>7, <1>14, <1>15

\* The visits and rounds of drain_pending_data(None), and the pump of one
\* stream: when they are over, nothing is left that could be sent.
LEMMA DrrInvDrain ==
    ASSUME FlowInv, DrrInv,
           PumpStreamData \/ (\E s \in Streams : DrrVisit(s)) \/ DrrPump \/ DrrRound
    PROVE  DrrInv'
<1> USE DEF conn, drr, out
<1>1. TypeOK /\ RoundInv /\ PumpedInv
  BY DEF FlowInv, TypeInv, DrrInv
<1>2. CASE PumpStreamData
  <2>1. pc \in {"pump", "msgpump"} /\ ~InRounds /\ UNCHANGED <<next_ids, served>>
    BY <1>2, Zenon DEF PumpStreamData, InRounds
  <2>2. conn_window > 0 => \A s \in Open : Waits(streams[s]) => streams[s].raised \/ s = cur
    BY <1>1, <2>1 DEF PumpedInv
  <2>3. CASE Stuck(cur)
    <3>1. pc' \in {"frames", "msgs"} /\ UNCHANGED <<streams, conn_window>>
      BY <1>2, <2>3, Zenon DEF PumpStreamData
    <3>2. ~InRounds'
      BY <3>1 DEF InRounds
    <3>3. ASSUME cur \in Open, conn_window > 0
          PROVE  ~Waits(streams[cur])
      <4>1. streams[cur].send_window \in Int /\ conn_window \in Int
        BY <1>1, <3>3, SMTT(30) DEF TypeOK, StreamEntry
      <4> QED
        BY <2>3, <3>3, <4>1 DEF Stuck, Waits, Available, MinOf
    <3>4. PumpedInv'
      BY <2>2, <3>1, <3>3 DEF PumpedInv, Waits, HasData, Open
    <3> QED
      BY <1>1, <2>1, <3>2, <3>4, RoundsIdle DEF DrrInv
  <2>4. CASE ~Stuck(cur)
    <3>1. cur \in Open /\ SendFront(cur, FrontAmount(cur), 0) /\ UNCHANGED <<pc, cur>>
      BY <1>2, <2>4 DEF PumpStreamData, Stuck
    <3>2. 0 <= streams[cur].deficit
      BY <1>1, <3>1 DEF TypeOK, StreamEntry
    <3>3. /\ HasData(streams[cur]) /\ FrontAmount(cur) \in Nat
          /\ FrontAmount(cur) <= Head(streams[cur].pending_data).len
      BY <1>1, <2>4, <3>1, FrontAmountBounds, Zenon
    <3>4. /\ conn_window' = conn_window - FrontAmount(cur)
          /\ Open' \subseteq Open
          /\ \A t \in Open' : t # cur => streams'[t] = streams[t]
      BY <1>1, <3>1, <3>2, <3>3, SendFrontStep
    <3>5. conn_window' > 0 => conn_window > 0
      BY <1>1, <3>3, <3>4 DEF TypeOK
    <3>6. PumpedInv'
      BY <2>1, <2>2, <3>1, <3>4, <3>5 DEF PumpedInv, Pumping, Waits, HasData
    <3>7. ~InRounds'
      BY <2>1, <3>1 DEF InRounds
    <3> QED
      BY <1>1, <2>1, <3>6, <3>7, RoundsIdle DEF DrrInv
  <2> QED
    BY <2>3, <2>4
<1>3. ASSUME NEW s \in Streams, DrrVisit(s)
      PROVE  DrrInv'
  <2>1. /\ pc = "drr" /\ s \in ids /\ ids' = ids \ {s}
        /\ UNCHANGED <<conn_window, next_ids, progress, served>>
    BY <1>3, Zenon DEF DrrVisit
  <2>2. PICK r \in Nat : Round(r)
    BY <1>1, <2>1, Zenon DEF RoundInv, InRounds
  <2>3. /\ conn_window > 0 /\ served[s] = r /\ s \notin next_ids
        /\ \A t \in Streams : served[t] <= r + 1
        /\ \A t \in Open : Waits(streams[t]) => r <= served[t] /\ t \in ids \cup next_ids
        /\ \A t \in ids : served[t] = r
        /\ \A t \in next_ids : served[t] = r + 1
        /\ next_ids # {} => progress
    BY <2>1, <2>2 DEF Round
  <2>4. CASE Waits(streams[s]) /\ s \in Open
    <3> DEFINE e == [streams[s] EXCEPT !.deficit = @ + max_frame_size, !.raised = FALSE]
    <3>1. Update(s, e) /\ pc' = "drrpump" /\ cur' = s
      BY <1>3, <2>4, Zenon DEF DrrVisit, Waits, Blocked
    <3>2. streams[s] \in StreamEntry /\ max_frame_size \in Nat \ {0}
      BY <1>1, <2>4 DEF TypeOK
    <3>3. e.deficit > 0 /\ e.send_window = streams[s].send_window
      BY <3>2 DEF StreamEntry
    <3> HIDE DEF e
    <3>4. /\ Open' = Open /\ streams'[s] = e
          /\ \A t \in Open : t # s => streams'[t] = streams[t]
      BY <2>4, <3>1, Zenon DEF Update, With, Open
    <3>5. e.send_window > 0
      BY <2>4, <3>3 DEF Waits
    <3>6. Visited(r)'
      BY <2>1, <2>3, <3>1, <3>3, <3>4, <3>5 DEF Visited
    <3>7. \A t \in Open' : Waits(streams'[t]) =>
              /\ r <= served'[t]
              /\ t \in ids' \cup next_ids' \/ t = cur'
      BY <2>1, <2>3, <2>4, <3>1, <3>4
    <3>8. Round(r)'
      BY <2>1, <2>3, <3>1, <3>6, <3>7 DEF Round
    <3>9. InRounds'
      BY <3>1 DEF InRounds
    <3> QED
      BY <3>8, <3>9 DEF DrrInv, RoundInv, PumpedInv
  <2>5. CASE ~(Waits(streams[s]) /\ s \in Open)
    <3>1. UNCHANGED <<streams, pc, cur>>
      BY <1>3, <2>5, Zenon DEF DrrVisit, Waits, Blocked
    <3>2. Round(r)'
      BY <2>1, <2>3, <2>5, <3>1 DEF Round, Waits, HasData, Open
    <3>3. InRounds'
      BY <2>1, <3>1 DEF InRounds
    <3> QED
      BY <3>2, <3>3 DEF DrrInv, RoundInv, PumpedInv
  <2> QED
    BY <2>4, <2>5
<1>4. CASE DrrPump
  <2>1. pc = "drrpump"
    BY <1>4 DEF DrrPump
  <2>2. PICK r \in Nat : Round(r)
    BY <1>1, <2>1, Zenon DEF RoundInv, InRounds
  <2>3. Round(r)' /\ InRounds'
    <3>1. CASE ~DrrStuck
      BY <1>4, <2>2, <3>1, DrrInvSend
    <3>2. CASE DrrStuck
      <4>1. /\ pc' = "drr" /\ UNCHANGED <<conn_window, streams, progress, served>>
            /\ next_ids' = IF pc' = "drr" /\ cur \in Blocked'
                              THEN next_ids \cup {cur} ELSE next_ids
            /\ ids' = IF conn_window' <= 0 THEN {} ELSE ids
        BY <1>4, <3>2, Zenon DEF DrrPump
      <4>2. Visited(r) /\ conn_window \in Int
        BY <1>1, <2>1, <2>2 DEF Round, TypeOK
      <4>3. ASSUME cur \in Open, HasData(streams[cur])
            PROVE  FALSE
        <5>1. streams[cur].send_window \in Int /\ streams[cur].deficit \in Nat
          BY <1>1, <4>3, SMTT(30) DEF TypeOK, StreamEntry
        <5>2. streams[cur].send_window > 0 /\ streams[cur].deficit > 0 /\ conn_window > 0
          BY <4>2, <4>3 DEF Visited
        <5> QED
          BY <3>2, <4>2, <4>3, <5>1, <5>2 DEF DrrStuck, Stuck, Available, MinOf
      <4>4. next_ids' = next_ids /\ ids' = ids
        <5>1. cur \notin Blocked'
          BY <4>1, <4>3 DEF Blocked, HasData, Open
        <5> QED
          BY <4>1, <4>2, <5>1 DEF Visited
      <4>5. \A t \in Open : Waits(streams[t]) => r <= served[t] /\ t \in ids \cup next_ids
        BY <2>2, <4>2, <4>3 DEF Round, Waits, Visited
      <4>6. Round(r)'
        BY <2>2, <4>1, <4>4, <4>5 DEF Round, Waits, HasData, Open
      <4> QED
        BY <4>1, <4>6 DEF InRounds
    <3> QED
      BY <3>1, <3>2
  <2> QED
    BY <2>3 DEF DrrInv, RoundInv, PumpedInv
<1>5. CASE DrrRound
  <2>1. pc = "drr" /\ ids = {} /\ next_ids' = {} /\ UNCHANGED <<streams, conn_window, cur>>
    BY <1>5, Zenon DEF DrrRound
  <2>2. PICK r \in Nat : Round(r)
    BY <1>1, <2>1, Zenon DEF RoundInv, InRounds
  <2>3. /\ \A t \in Streams : served[t] <= r + 1
        /\ \A t \in Open : Waits(streams[t]) =>
              r <= served[t] /\ (conn_window > 0 => t \in next_ids)
        /\ \A t \in next_ids : served[t] = r + 1
        /\ next_ids # {} => progress
    BY <2>1, <2>2 DEF Round
  <2>4. CASE progress /\ conn_window > 0 /\ next_ids # {}
    <3>1. ids' = next_ids /\ UNCHANGED <<pc, served>>
      BY <1>5, <2>4, Zenon DEF DrrRound
    <3>2. served \in [Streams -> Nat] /\ Open \subseteq Streams /\ r + 1 \in Nat
      BY <1>1 DEF TypeOK
    <3>3. Round(r + 1)'
      BY <2>1, <2>3, <2>4, <3>1, <3>2 DEF Round, Waits, HasData, Open
    <3>4. InRounds'
      BY <2>1, <3>1 DEF InRounds
    <3> QED
      BY <3>2, <3>3, <3>4 DEF DrrInv, RoundInv, PumpedInv
  <2>5. CASE ~(progress /\ conn_window > 0 /\ next_ids # {})
    <3>1. pc' = "frames" /\ served' = [s \in Streams |-> 0]
      BY <1>5, <2>5, Zenon DEF DrrRound
    <3>2. conn_window > 0 => \A t \in Open : ~Waits(streams[t])
      BY <2>3, <2>5, Zenon
    <3>3. PumpedInv'
      BY <2>1, <3>2 DEF PumpedInv, Waits, HasData, Open
    <3>4. ~InRounds'
      BY <3>1 DEF InRounds
    <3> QED
      BY <2>1, <3>1, <3>3, <3>4 DEF DrrInv, RoundInv
  <2> QED
    BY <2>4, <2>5
<1> QED
  BY <1>2, <1>3, <1>4, <1>5

\* drain_outbound: a message that queues DATA is followed by the pump of its
\* stream, the others queue nothing.
LEMMA DrrInvMsgs ==
    ASSUME FlowInv, DrrInv,
           \/ StartDrain /\ pc \in {"select", "frames"}
           \/ (\E s \in Streams : DrainStream(s)) \/ EndDrain \/ HandleStreamMsg \/ EndBatch
    PROVE  DrrInv'
<1> USE DEF conn, drr, out
<1>1. TypeOK /\ RoundInv /\ PumpedInv
  BY DEF FlowInv, TypeInv, DrrInv
<1>2. pc \in {"select", "frames", "drain", "msgs"} /\ ~InRounds /\ ~Pumping
  BY Zenon DEF DrainStream, EndDrain, HandleStreamMsg, EndBatch, InRounds, Pumping
<1>3. /\ pc' \in {"drain", "closed", "select", "msgs", "msgpump"}
      /\ UNCHANGED <<conn_window, next_ids, served>>
  BY <1>2, Zenon DEF StartDrain, DrainStream, EndDrain, HandleStreamMsg, HandleData,
         HandleHeaders, HandleReset, HandleClosed, EndBatch
<1>4. RoundInv'
  <2>1. ~InRounds'
    BY <1>3 DEF InRounds
  <2> QED
    BY <1>1, <1>2, <1>3, <2>1, RoundsIdle
<1>5. CASE StartDrain \/ EndDrain \/ EndBatch
  <2>1. UNCHANGED streams
    BY <1>5, Zenon DEF StartDrain, EndDrain, EndBatch
  <2> QED
    BY <1>1, <1>2, <1>3, <1>4, <2>1, PumpedByRemove DEF DrrInv
<1>6. ASSUME NEW s \in Streams, DrainStream(s)
      PROVE  DrrInv'
  <2>1. CASE s \in Open /\ ~LeftAlone(streams[s])
    <3> DEFINE e == [streams[s] EXCEPT !.msg_rx = <<>>]
    <3>1. Update(s, e)
      BY <1>6, <2>1, Zenon DEF DrainStream
    <3>2. streams[s] \in StreamEntry
      BY <1>1, <2>1 DEF TypeOK
    <3>3. ~Waits(e)
      BY <2>1, <3>2, Zenon DEF StreamEntry, LeftAlone, Waits, HasData
    <3> HIDE DEF e
    <3> QED
      BY <1>1, <1>2, <1>3, <1>4, <3>1, <3>3, PumpedByUpdate DEF DrrInv
  <2>2. CASE ~(s \in Open /\ ~LeftAlone(streams[s]))
    <3>1. UNCHANGED streams
      BY <1>6, <2>2, Zenon DEF DrainStream
    <3> QED
      BY <1>1, <1>2, <1>3, <1>4, <3>1, PumpedByRemove DEF DrrInv
  <2> QED
    BY <2>1, <2>2
<1>7. CASE HandleStreamMsg
  <2> DEFINE m == Head(msgs)
  <2>1. cur \in Streams /\ cur' = cur
    BY <1>7, Zenon DEF FlowInv, TypeInv, HandleStreamMsg
  <2>2. ASSUME NEW e, cur \in Open, Update(cur, e), pc' = "msgpump"
        PROVE  DrrInv'
    <3>1. PumpedInv'
      BY <1>1, <1>2, <1>3, <2>1, <2>2, PumpedByUpdate DEF Pumping
    <3> QED
      BY <1>4, <3>1 DEF DrrInv
  <2>3. ASSUME NEW e, cur \in Open, Update(cur, e),
               e.raised = streams[cur].raised, Waits(e) => Waits(streams[cur])
        PROVE  DrrInv'
    <3>1. PumpedInv'
      BY <1>1, <1>2, <1>3, <2>1, <2>3, PumpedByUpdate
    <3> QED
      BY <1>4, <3>1 DEF DrrInv
  <2>4. ASSUME UNCHANGED streams \/ Remove(cur)
        PROVE  DrrInv'
    <3>1. UNCHANGED streams \/ streams' = Without(cur)
      BY <2>4, Zenon DEF Remove
    <3> QED
      BY <1>1, <1>2, <1>3, <1>4, <2>1, <3>1, PumpedByRemove DEF DrrInv
  <2>5. CASE HandleData
    BY <2>2, <2>4, <2>5, Zenon DEF HandleData
  <2>6. CASE HandleHeaders
    <3> DEFINE e == [streams[cur] EXCEPT !.local_ended = @ \/ m.end]
    <3>1. UNCHANGED streams \/ (cur \in Open /\ Update(cur, e))
      BY <2>6, Zenon DEF HandleHeaders
    <3>2. ASSUME cur \in Open
          PROVE  e.raised = streams[cur].raised /\ (Waits(e) => Waits(streams[cur]))
      <4>1. streams[cur] \in StreamEntry
        BY <1>1, <3>2 DEF TypeOK
      <4> QED
        BY <4>1, Zenon DEF StreamEntry, Waits, HasData
    <3> HIDE DEF e
    <3> QED
      BY <2>3, <2>4, <3>1, <3>2, Zenon
  <2>7. CASE HandleReset
    BY <2>4, <2>7, Zenon DEF HandleReset
  <2>8. CASE HandleClosed
    <3> DEFINE e == TaskDone(streams[cur])
    <3>1. UNCHANGED streams \/ Remove(cur) \/ (cur \in Open /\ Update(cur, e))
      BY <2>8, Zenon DEF HandleClosed
    <3>2. ASSUME cur \in Open
          PROVE  e.raised = streams[cur].raised /\ (Waits(e) => Waits(streams[cur]))
      <4>1. streams[cur] \in StreamEntry
        BY <1>1, <3>2 DEF TypeOK
      <4> QED
        BY <4>1, Zenon DEF StreamEntry, Waits, HasData, TaskDone
    <3> HIDE DEF e
    <3> QED
      BY <2>3, <2>4, <3>1, <3>2, Zenon
  <2> QED
    BY <1>7, <2>5, <2>6, <2>7, <2>8 DEF HandleStreamMsg
<1> QED
  BY <1>5, <1>6, <1>7

\* A stream task only fills its channel.
LEMMA DrrInvTask ==
    ASSUME FlowInv, DrrInv, NEW s \in Streams, TaskStep(s)
    PROVE  DrrInv'
<1> USE DEF conn, drr, out
<1>1. TypeOK /\ RoundInv /\ PumpedInv
  BY DEF FlowInv, TypeInv, DrrInv
<1>2. PICK to, q, k : /\ s \in Open /\ pc \in {"select", "frames"}
                      /\ UNCHANGED <<conn_window, pc, cur, next_ids, served>>
                      /\ \/ Update(s, [streams[s] EXCEPT !.task = to, !.msg_rx = q, !.produced = k])
                         \/ Update(s, [streams[s] EXCEPT !.task = to])
  <2>1. ASSUME NEW from, NEW to, NEW m, Send(s, from, to, m)
        PROVE  \E q, k : /\ s \in Open /\ pc \in {"select", "frames"}
                         /\ UNCHANGED <<conn_window, pc, cur, next_ids, served>>
                         /\ Update(s, [streams[s] EXCEPT !.task = to, !.msg_rx = q, !.produced = k])
    BY <2>1, Zenon DEF Send, TaskMove
  <2> QED
    BY <2>1, Zenon DEF TaskStep, TaskInformational, TaskResponse, TaskData, TaskBodyEnd, TaskTrailers,
             TaskBodyError, TaskGivesUp, TaskClosed, TaskMove
<1>3. ~InRounds /\ ~InRounds' /\ ~Pumping
  BY <1>2 DEF InRounds, Pumping
<1>4. streams[s] \in StreamEntry
  BY <1>1, <1>2 DEF TypeOK
<1>5. PICK e : /\ Update(s, e)
               /\ e.raised = streams[s].raised /\ (Waits(e) => Waits(streams[s]))
  <2> DEFINE f == [streams[s] EXCEPT !.task = to, !.msg_rx = q, !.produced = k]
             g == [streams[s] EXCEPT !.task = to]
  <2>1. /\ f.raised = streams[s].raised /\ (Waits(f) => Waits(streams[s]))
        /\ g.raised = streams[s].raised /\ (Waits(g) => Waits(streams[s]))
    BY <1>4, Zenon DEF StreamEntry, Waits, HasData
  <2> HIDE DEF f, g
  <2>2. Update(s, f) \/ Update(s, g)
    BY <1>2 DEF f, g
  <2> QED
    BY <2>1, <2>2, Zenon
<1>6. PumpedInv'
  BY <1>1, <1>2, <1>3, <1>5, PumpedByUpdate
<1> QED
  BY <1>1, <1>2, <1>3, <1>6, RoundsIdle DEF DrrInv

\* The rounds and the pumps keep their invariant in every reachable state.
THEOREM DrrInvariant == Spec => []DrrInv
<1>1. Init => DrrInv
  <2> SUFFICES ASSUME Init PROVE DrrInv
    OBVIOUS
  <2>1. Open = {} /\ ~InRounds
    BY DEF Init, Open, InRounds
  <2> QED
    BY <2>1 DEF Init, DrrInv, RoundInv, PumpedInv
<1>2. FlowInv /\ DrrInv /\ [Next]_vars => DrrInv'
  <2> SUFFICES ASSUME FlowInv, DrrInv, [Next]_vars
               PROVE  DrrInv'
    OBVIOUS
  <2>1. CASE PeerFrame
    BY <2>1, DrrInvPeer
  <2>2. CASE ConnectionStep
    <3>1. CASE EndOfRead \/ Wake
      BY <3>1, DrrInvMsgs DEF EndOfRead, Wake
    <3> QED
      BY <2>2, <3>1, DrrInvDrain, DrrInvMsgs DEF ConnectionStep
  <2>3. ASSUME NEW s \in Streams, TaskStep(s)
        PROVE  DrrInv'
    BY <2>3, DrrInvTask
  <2>4. CASE UNCHANGED vars
    BY <2>4 DEF vars, conn, drr, out, DrrInv, RoundInv, PumpedInv, Round, Visited, InRounds,
                Pumping, Waits, HasData, Open
  <2> QED
    BY <2>1, <2>2, <2>3, <2>4 DEF Next
<1> QED
  BY <1>1, <1>2, FlowInvariant, PTL DEF Spec

\* When the drive loop is back at select, handle_window_update and
\* handle_stream_msg have pumped all the DATA the windows allow, for any number
\* of streams; only a window SETTINGS opened may have DATA behind it.
THEOREM WindowUpdatesDrain == Spec => []DrainedByWindowUpdate
<1>1. FlowInv /\ DrrInv => DrainedByWindowUpdate
  <2> SUFFICES ASSUME FlowInv, DrrInv, pc = "select", NEW s \in Blocked
               PROVE  streams[s].raised \/ Available(streams[s]) <= 0
    BY DEF DrainedByWindowUpdate
  <2>1. s \in Open /\ HasData(streams[s])
    BY DEF Blocked
  <2>2. conn_window \in Int /\ streams[s].send_window \in Int
    BY <2>1, SMTT(30) DEF FlowInv, TypeInv, TypeOK, StreamEntry
  <2>3. conn_window > 0 /\ streams[s].send_window > 0 => streams[s].raised
    BY <2>1 DEF DrrInv, PumpedInv, InRounds, Pumping, Waits
  <2> QED
    BY <2>2, <2>3 DEF Available, MinOf
<1> QED
  BY <1>1, FlowInvariant, DrrInvariant, PTL

\* drain_pending_data(None) never lets a stream that has DATA and window fall
\* more than one frame behind another, for any number of streams and whatever
\* their chunks and windows.
THEOREM RoundsAreFair == Spec => []DrrFair
<1>1. FlowInv /\ DrrInv => DrrFair
  <2> SUFFICES ASSUME FlowInv, DrrInv, pc = "drr",
                      NEW s \in Streams, NEW t \in Blocked, streams[t].send_window > 0
               PROVE  served[s] <= served[t] + 1
    BY DEF DrrFair
  <2>1. PICK r \in Nat : Round(r)
    BY Zenon DEF DrrInv, RoundInv, InRounds
  <2>2. served[s] \in Int /\ t \in Open /\ served[t] \in Int
    BY DEF FlowInv, TypeInv, TypeOK, Blocked
  <2>3. served[s] <= r + 1 /\ r <= served[t]
    BY <2>1, <2>2 DEF Round, Waits, Blocked
  <2> QED
    BY <2>2, <2>3
<1> QED
  BY <1>1, FlowInvariant, DrrInvariant, PTL

=============================================================================
