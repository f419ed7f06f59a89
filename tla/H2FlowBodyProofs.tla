-------------------------- MODULE H2FlowBodyProofs --------------------------
(***************************************************************************)
(* A response body leaves whole: the DATA frame with END_STREAM is behind  *)
(* every octet of it.                                                      *)
(***************************************************************************)
EXTENDS H2FlowControlProofs

(***************************************************************************)
(* The ledger of a response body.  Spans places the items of a queue on    *)
(* the body: a function gives the offset behind every item, from a before  *)
(* the first to b after the last, and an item that ends the body stands at *)
(* its end, with the task over.  The queues of a stream, one after the     *)
(* other, span what is not yet written of what its task produced.          *)
(***************************************************************************)
Places(f, q, a, b, total, over) ==
    /\ f[0] = a /\ f[Len(q)] = b
    /\ \A i \in 1 .. Len(q) : /\ f[i] = f[i - 1] + q[i].len
                              /\ q[i].end => over /\ f[i] = total

Spans(q, a, b, total, over) ==
    \E f \in [0 .. Len(q) -> Nat] : Places(f, q, a, b, total, over)

\* An empty queue spans nothing.
LEMMA SpansEmpty ==
    ASSUME NEW a \in Nat, NEW b \in Nat, NEW total, NEW over
    PROVE  Spans(<<>>, a, b, total, over) <=> a = b
<1>1. Len(<<>>) = 0
  BY EmptySeq
<1>2. ASSUME a = b
      PROVE  Spans(<<>>, a, b, total, over)
  <2> DEFINE f == [i \in 0 .. 0 |-> a]
  <2>1. f \in [0 .. Len(<<>>) -> Nat] /\ f[0] = a
    BY <1>1
  <2>2. Places(f, <<>>, a, b, total, over)
    BY <1>1, <1>2, <2>1 DEF Places
  <2> QED
    BY <2>1, <2>2, Zenon DEF Spans
<1>3. ASSUME Spans(<<>>, a, b, total, over)
      PROVE  a = b
  BY <1>1, <1>3, Zenon DEF Spans, Places
<1> QED
  BY <1>2, <1>3

\* An item at the back extends the span by its length.  What was queued before
\* it has no end, or the item is of no length and the total stays.
LEMMA SpansAppend ==
    ASSUME NEW S, \A e \in S : e.len \in Nat, NEW q \in Seq(S), NEW m \in S,
           NEW a \in Nat, NEW b \in Nat, NEW total, NEW over, NEW total2, NEW over2,
           Spans(q, a, b, total, over),
           ~over \/ (over2 /\ total2 = total),
           m.end => over2 /\ b + m.len = total2
    PROVE  Spans(Append(q, m), a, b + m.len, total2, over2)
<1> DEFINE n == Len(q)
<1>1. PICK f \in [0 .. n -> Nat] : Places(f, q, a, b, total, over)
  BY DEF Spans
<1>2. n \in Nat /\ Len(Append(q, m)) = n + 1 /\ Append(q, m)[n + 1] = m
      /\ \A i \in 1 .. n : Append(q, m)[i] = q[i]
  BY AppendProperties, LenProperties
<1> DEFINE g == [i \in 0 .. n + 1 |-> IF i = n + 1 THEN b + m.len ELSE f[i]]
<1>3. g \in [0 .. n + 1 -> Nat]
  BY <1>2
<1>4. g[0] = a /\ g[n + 1] = b + m.len
  BY <1>1, <1>2 DEF Places
<1>5. ASSUME NEW i \in 1 .. n
      PROVE  /\ g[i] = g[i - 1] + q[i].len
             /\ q[i].end => over2 /\ g[i] = total2
  <2>1. g[i] = f[i] /\ g[i - 1] = f[i - 1]
    BY <1>2
  <2> HIDE DEF g
  <2> QED
    BY <1>1, <2>1, Zenon DEF Places
<1>6. /\ g[n + 1] = g[n] + m.len
      /\ m.end => over2 /\ g[n + 1] = total2
  <2>1. g[n] = f[n] /\ f[n] = b
    BY <1>1, <1>2 DEF Places
  <2> HIDE DEF g
  <2> QED
    BY <1>4, <2>1
<1> HIDE DEF g
<1>7. \A i \in 1 .. n + 1 : i \in 1 .. n \/ i = n + 1
  BY <1>2
<1>8. n + 1 - 1 = n
  BY <1>2
<1>9. Places(g, Append(q, m), a, b + m.len, total2, over2)
  BY <1>2, <1>4, <1>5, <1>6, <1>7, <1>8 DEF Places
<1> QED
  BY <1>2, <1>3, <1>9 DEF Spans

\* Without its front a queue spans the rest.
LEMMA SpansTail ==
    ASSUME NEW S, \A e \in S : e.len \in Nat, NEW q \in Seq(S), q # <<>>,
           NEW a \in Nat, NEW b \in Nat, NEW total, NEW over,
           Spans(q, a, b, total, over)
    PROVE  /\ Spans(Tail(q), a + Head(q).len, b, total, over)
           /\ Head(q).end => over /\ a + Head(q).len = total
<1> DEFINE n == Len(q)
<1>1. PICK f \in [0 .. n -> Nat] : Places(f, q, a, b, total, over)
  BY DEF Spans
<1>2. /\ n \in Nat \ {0} /\ Len(Tail(q)) = n - 1 /\ Head(q) = q[1]
      /\ \A i \in 1 .. n - 1 : Tail(q)[i] = q[i + 1]
  BY HeadTailProperties, LenProperties, EmptySeq
<1> DEFINE g == [i \in 0 .. n - 1 |-> f[i + 1]]
<1>3. g \in [0 .. n - 1 -> Nat]
  BY <1>2
<1>4. /\ f[1] = a + Head(q).len
      /\ Head(q).end => over /\ f[1] = total
  <2>1. 1 \in 1 .. n /\ 1 - 1 = 0
    BY <1>2
  <2> QED
    BY <1>1, <1>2, <2>1 DEF Places
<1>5. g[0] = a + Head(q).len /\ g[n - 1] = b
  <2>1. 0 \in 0 .. n - 1 /\ n - 1 \in 0 .. n - 1 /\ n - 1 + 1 = n
    BY <1>2
  <2> QED
    BY <1>1, <1>4, <2>1 DEF Places
<1>6. ASSUME NEW i \in 1 .. n - 1
      PROVE  /\ g[i] = g[i - 1] + Tail(q)[i].len
             /\ Tail(q)[i].end => over /\ g[i] = total
  <2>1. g[i] = f[i + 1] /\ g[i - 1] = f[i] /\ i + 1 \in 1 .. n /\ i + 1 - 1 = i
    BY <1>2
  <2> HIDE DEF g
  <2> QED
    BY <1>1, <1>2, <2>1 DEF Places
<1> HIDE DEF g
<1>7. Places(g, Tail(q), a + Head(q).len, b, total, over)
  BY <1>2, <1>5, <1>6 DEF Places
<1>8. Spans(Tail(q), a + Head(q).len, b, total, over)
  BY <1>2, <1>3, <1>7 DEF Spans
<1> QED
  BY <1>4, <1>8

\* A front item that gave away n octets spans from n further on.
LEMMA SpansFront ==
    ASSUME NEW q \in Seq(Chunk), q # <<>>, NEW a \in Nat, NEW b \in Nat,
           NEW total, NEW over, Spans(q, a, b, total, over),
           NEW n \in Nat, n <= Head(q).len
    PROVE  Spans([q EXCEPT ![1] = [len |-> Head(q).len - n, end |-> Head(q).end]],
                 a + n, b, total, over)
<1> DEFINE l == Len(q)
           c == [len |-> Head(q).len - n, end |-> Head(q).end]
           p == [q EXCEPT ![1] = c]
<1>1. PICK f \in [0 .. l -> Nat] : Places(f, q, a, b, total, over)
  BY DEF Spans
<1>2. l \in Nat \ {0} /\ 1 \in 1 .. l /\ Head(q) = q[1] /\ Head(q) \in Chunk
  BY HeadTailProperties, LenProperties, EmptySeq
<1>3. Head(q).len \in Nat /\ c \in Chunk /\ c.len = Head(q).len - n /\ c.end = Head(q).end
  BY <1>2 DEF Chunk
<1>4. Len(p) = l /\ p[1] = c /\ \A i \in 1 .. l : i # 1 => p[i] = q[i]
  BY <1>2, <1>3, FrontReplaced, ExceptSeq
<1> HIDE DEF c, p
<1> DEFINE g == [f EXCEPT ![0] = a + n]
<1>5. g \in [0 .. l -> Nat] /\ g[0] = a + n /\ \A i \in 1 .. l : g[i] = f[i]
  BY <1>2
<1> HIDE DEF g
<1>6. ASSUME NEW i \in 1 .. l
      PROVE  /\ g[i] = g[i - 1] + p[i].len
             /\ p[i].end => over /\ g[i] = total
  <2>1. CASE i = 1
    <3>1. f[1] = a + Head(q).len /\ (Head(q).end => over /\ f[1] = total)
      <4>1. 1 - 1 = 0
        OBVIOUS
      <4> QED
        BY <1>1, <1>2, <4>1 DEF Places
    <3>2. g[1] = f[1] /\ g[1 - 1] = a + n
      BY <1>2, <1>5
    <3> QED
      BY <1>3, <1>4, <2>1, <3>1, <3>2
  <2>2. CASE i # 1
    <3>1. i - 1 \in 1 .. l
      BY <1>2, <2>2
    <3> QED
      BY <1>1, <1>4, <1>5, <2>2, <3>1 DEF Places
  <2> QED
    BY <2>1, <2>2
<1>7. g[l] = b
  BY <1>1, <1>2, <1>5 DEF Places
<1>8. Places(g, p, a + n, b, total, over)
  BY <1>4, <1>5, <1>6, <1>7, Zenon DEF Places
<1>9. Spans(p, a + n, b, total, over)
  BY <1>4, <1>5, <1>8 DEF Spans
<1> QED
  BY <1>9 DEF p, c

\* A queue keeps its place while the total changes, if the task goes on or the
\* change is none.
LEMMA SpansStay ==
    ASSUME NEW q, NEW a, NEW b, NEW total, NEW over, NEW total2, NEW over2,
           Spans(q, a, b, total, over), ~over \/ (over2 /\ total2 = total)
    PROVE  Spans(q, a, b, total2, over2)
BY DEF Spans, Places

Over(e) == e.task \in {"ended", "closed"}
BatchOf(s) == IF pc \in {"msgs", "msgpump"} /\ s = cur THEN msgs ELSE <<>>

Ledger(e, q, octets) ==
    \E j, k \in Nat :
        /\ Spans(e.pending_data, octets, j, e.produced, Over(e))
        /\ Spans(q, j, k, e.produced, Over(e))
        /\ Spans(e.msg_rx, k, e.produced, e.produced, Over(e))

LedgerInv ==
    \A s \in Open : ~streams[s].local_ended => Ledger(streams[s], BatchOf(s), wire[s].octets)

\* Only DATA messages have a length.
Plain(q) == \A i \in 1 .. Len(q) : q[i].type # "data" => q[i].len = 0

PlainInv == Plain(msgs) /\ \A s \in Open : Plain(streams[s].msg_rx)

BodyInv == LedgerInv /\ PlainInv

SameBody(e, f) ==
    /\ e.pending_data = f.pending_data /\ e.msg_rx = f.msg_rx /\ e.produced = f.produced
    /\ e.task = f.task /\ e.local_ended = f.local_ended

\* What the types say of the entry and of the wire of an open stream.
LEMMA EntryTyped ==
    ASSUME TypeOK, NEW s \in Open
    PROVE  /\ s \in Streams /\ streams[s] \in StreamEntry
           /\ streams[s].pending_data \in Seq(Chunk)
           /\ streams[s].msg_rx \in Seq(StreamMsg)
           /\ streams[s].deficit \in Nat /\ streams[s].produced \in Nat
           /\ wire[s].octets \in Nat
<1>1. s \in Streams /\ streams[s] \in StreamEntry
  BY DEF TypeOK
<1>2. wire[s].octets \in Nat
  BY <1>1 DEF TypeOK
<1> QED
  BY <1>1, <1>2 DEF StreamEntry

\* A queue stays plain when a plain message joins it.
LEMMA PlainAppend ==
    ASSUME NEW q \in Seq(StreamMsg), Plain(q),
           NEW m \in StreamMsg, m.type # "data" => m.len = 0
    PROVE  Plain(Append(q, m))
<1>1. /\ Len(q) \in Nat /\ Len(Append(q, m)) = Len(q) + 1
      /\ Append(q, m)[Len(q) + 1] = m
      /\ \A i \in 1 .. Len(q) : Append(q, m)[i] = q[i]
  BY AppendProperties, LenProperties
<1> QED
  BY <1>1 DEF Plain

\* A step that leaves the queues of every stream but one alone keeps their
\* ledgers.
LEMMA LedgerKept ==
    ASSUME LedgerInv, NEW s,
           \A t \in Open' : t # s => /\ t \in Open /\ SameBody(streams'[t], streams[t])
                                     /\ BatchOf(t)' = BatchOf(t)
                                     /\ wire'[t].octets = wire[t].octets,
           s \in Open' /\ ~streams'[s].local_ended =>
               Ledger(streams'[s], BatchOf(s)', wire'[s].octets)
    PROVE  LedgerInv'
<1> SUFFICES ASSUME NEW t \in Open', ~streams'[t].local_ended
             PROVE  Ledger(streams'[t], BatchOf(t)', wire'[t].octets)
  BY Zenon DEF LedgerInv, Ledger, Spans, Places, Over, BatchOf
<1>1. CASE t = s
  BY <1>1
<1>2. CASE t # s
  <2>1. /\ t \in Open /\ SameBody(streams'[t], streams[t]) /\ BatchOf(t)' = BatchOf(t)
        /\ wire'[t].octets = wire[t].octets
    BY <1>2
  <2>2. Ledger(streams[t], BatchOf(t), wire[t].octets)
    BY <2>1, Zenon DEF LedgerInv, SameBody
  <2>3. Ledger(streams'[t], BatchOf(t), wire[t].octets)
    BY <2>1, <2>2 DEF Ledger, SameBody, Over
  <2> QED
    BY <2>1, <2>3
<1> QED
  BY <1>1, <1>2

\* A step that leaves all the queues alone keeps the books.
LEMMA BodyKept ==
    ASSUME BodyInv, Plain(msgs'),
           \A t \in Open' : /\ t \in Open /\ SameBody(streams'[t], streams[t])
                            /\ BatchOf(t)' = BatchOf(t)
                            /\ wire'[t].octets = wire[t].octets
    PROVE  BodyInv'
<1>1. LedgerInv'
  <2>1. PICK s : s \notin Open'
    BY NoSetContainsEverything
  <2> QED
    BY <2>1, LedgerKept DEF BodyInv
<1>2. PlainInv'
  BY DEF BodyInv, PlainInv, SameBody, Plain
<1> QED
  BY <1>1, <1>2 DEF BodyInv

\* The frames of the peer move windows, not DATA.
LEMMA BodyInvPeer ==
    ASSUME FlowInv, BodyInv, PeerFrame
    PROVE  BodyInv'
<1> USE DEF conn, drr, out
<1>1. TypeOK /\ TypeInv /\ FreshInv /\ LedgerInv /\ PlainInv
  BY DEF FlowInv, TypeInv, BodyInv
<1>2. /\ pc \in {"select", "frames"} /\ pc' \in {"frames", "drr", "pump", "closed"}
      /\ UNCHANGED msgs
  BY Zenon DEF PeerFrame, OpenStream, ResetFrame, ConnWindowUpdate, StreamWindowUpdate,
         InitialWindowSetting, MaxFrameSetting, OtherFrame, PeerGoAway, LoopEnds, Reading
<1>3. \A t : BatchOf(t) = <<>> /\ BatchOf(t)' = <<>>
  BY <1>2 DEF BatchOf
<1>4. \A t \in Streams : wire'[t].octets = wire[t].octets
  BY <1>1, OnlyPumpsSend
<1>5. Plain(msgs')
  BY <1>1, <1>2 DEF PlainInv
<1>6. Open \subseteq Streams
  BY <1>1 DEF TypeOK
<1>7. ASSUME \A t \in Open' : t \in Open /\ SameBody(streams'[t], streams[t])
      PROVE  BodyInv'
  BY <1>3, <1>4, <1>5, <1>6, <1>7, BodyKept
<1>8. ASSUME UNCHANGED streams \/ \E s \in Streams : streams' = Without(s)
      PROVE  BodyInv'
  <2>1. Open' \subseteq Open /\ \A t \in Open' : streams'[t] = streams[t]
    BY <1>8, Zenon DEF Without, Open
  <2> QED
    BY <1>7, <2>1 DEF SameBody
<1>9. ASSUME NEW s \in Streams, OpenStream(s)
      PROVE  BodyInv'
  <2> DEFINE e == [send_window |-> initial_window_size, pending_data |-> <<>>,
                   local_ended |-> FALSE, task_done |-> FALSE, deficit |-> 0,
                   msg_rx |-> <<>>, task |-> "service",
                   credit |-> initial_window_size, produced |-> 0,
                   raised |-> FALSE]
  <2>1. Update(s, e) /\ s \notin Open \cup closed_streams /\ ~ending
    BY <1>9, Zenon DEF OpenStream, Reading
  <2>2. /\ e.pending_data = <<>> /\ e.msg_rx = <<>> /\ e.produced = 0
    OBVIOUS
  <2> HIDE DEF e
  <2>3. /\ Open' = Open \cup {s} /\ streams'[s] = e
        /\ \A t \in Open : t # s => streams'[t] = streams[t]
    BY <2>1, Zenon DEF Update, With, Open
  <2>4. wire'[s].octets = 0
    BY <1>1, <1>4, <2>1 DEF FreshInv
  <2>5. Spans(<<>>, 0, 0, e.produced, Over(e))
    BY SpansEmpty
  <2>6. Ledger(streams'[s], BatchOf(s)', wire'[s].octets)
    BY <1>3, <2>2, <2>3, <2>4, <2>5 DEF Ledger
  <2>7. LedgerInv'
    BY <1>1, <1>3, <1>4, <1>6, <2>3, <2>6, LedgerKept DEF SameBody
  <2>8. Plain(<<>>)
    BY EmptySeq DEF Plain
  <2>9. PlainInv'
    BY <1>1, <1>5, <2>2, <2>3, <2>8 DEF PlainInv, Plain
  <2> QED
    BY <2>7, <2>9 DEF BodyInv
<1>10. ASSUME NEW s \in Streams, ResetFrame(s)
       PROVE  BodyInv'
  BY <1>8, <1>10, Zenon DEF ResetFrame, Remove
<1>11. ASSUME NEW s \in Streams, NEW inc \in Increments, StreamWindowUpdate(s, inc)
       PROVE  BodyInv'
  <2>1. CASE Overflows(streams[s].send_window, inc)
    BY <1>8, <1>11, <2>1, Zenon DEF StreamWindowUpdate, Remove
  <2>2. CASE ~Overflows(streams[s].send_window, inc)
    <3> DEFINE e == [streams[s] EXCEPT !.send_window = @ + inc, !.credit = @ + inc,
                                       !.raised = FALSE]
    <3>1. Update(s, e) /\ s \in Open
      BY <1>11, <2>2, Zenon DEF StreamWindowUpdate
    <3>2. streams[s] \in StreamEntry
      BY <1>1, <3>1 DEF TypeOK
    <3>3. SameBody(e, streams[s])
      BY <3>2, Zenon DEF StreamEntry, SameBody
    <3> HIDE DEF e
    <3>4. /\ Open' = Open /\ streams'[s] = e
          /\ \A t \in Open : t # s => streams'[t] = streams[t]
      BY <3>1, Zenon DEF Update, With, Open
    <3> QED
      BY <1>7, <3>3, <3>4 DEF SameBody
  <2> QED
    BY <2>1, <2>2
<1>12. ASSUME NEW v \in WindowSizes, InitialWindowSetting(v)
       PROVE  BodyInv'
  <2>1. streams' = [s \in Open |->
              [streams[s] EXCEPT !.send_window = Shifted(@, v),
                                 !.credit = @ + (v - initial_window_size),
                                 !.raised = @ \/ (v - initial_window_size) > 0]]
    BY <1>12, Zenon DEF InitialWindowSetting
  <2>2. Open' = Open
    BY <2>1, Zenon DEF Open
  <2>3. ASSUME NEW t \in Open
        PROVE  SameBody(streams'[t], streams[t])
    <3>1. streams[t] \in StreamEntry
      BY <1>1 DEF TypeOK
    <3> QED
      BY <2>1, <3>1, Zenon DEF StreamEntry, SameBody
  <2> QED
    BY <1>7, <2>2, <2>3
<1>13. CASE \/ \E inc \in Increments : ConnWindowUpdate(inc)
            \/ \E v \in FrameSizes : MaxFrameSetting(v)
            \/ OtherFrame \/ PeerGoAway \/ LoopEnds
  BY <1>8, <1>13, Zenon DEF ConnWindowUpdate, MaxFrameSetting, OtherFrame, PeerGoAway, LoopEnds
<1> QED
  BY <1>9, <1>10, <1>11, <1>12, <1>13, Zenon DEF PeerFrame

\* A turn of a pump sends one frame of the front chunk of cur, or nothing.
LEMMA PumpTurn ==
    ASSUME TypeOK, PumpStreamData \/ DrrPump
    PROVE  \/ UNCHANGED <<streams, closed_streams, wire>>
           \/ \E n, d \in Nat :
                /\ cur \in Open /\ HasData(streams[cur]) /\ SendFront(cur, n, d)
                /\ n <= Head(streams[cur].pending_data).len
                /\ d <= streams[cur].deficit
<1>1. CASE (PumpStreamData /\ Stuck(cur)) \/ (DrrPump /\ DrrStuck)
  BY <1>1, Zenon DEF PumpStreamData, DrrPump, out
<1>2. CASE PumpStreamData /\ ~Stuck(cur)
  <2>1. cur \in Open /\ SendFront(cur, FrontAmount(cur), 0)
    BY <1>2 DEF PumpStreamData, Stuck
  <2>2. 0 <= streams[cur].deficit
    BY <2>1, EntryTyped
  <2>3. /\ HasData(streams[cur]) /\ FrontAmount(cur) \in Nat
        /\ FrontAmount(cur) <= Head(streams[cur].pending_data).len
    BY <1>2, <2>1, FrontAmountBounds, Zenon
  <2> QED
    BY <2>1, <2>2, <2>3
<1>3. CASE DrrPump /\ ~DrrStuck
  <2> DEFINE n == MinOf(FrontAmount(cur), streams[cur].deficit)
  <2>1. cur \in Open /\ ~Stuck(cur) /\ SendFront(cur, n, n)
    BY <1>3, Zenon DEF DrrPump, Turn, DrrStuck, Stuck
  <2>2. streams[cur].deficit \in Nat
    BY <2>1, EntryTyped
  <2>3. /\ HasData(streams[cur]) /\ FrontAmount(cur) \in Nat
        /\ FrontAmount(cur) <= Head(streams[cur].pending_data).len
    BY <2>1, FrontAmountBounds, Zenon
  <2>4. Head(streams[cur].pending_data).len \in Nat
    BY <2>1, <2>3, HeadOfPending, Zenon
  <2>5. n \in Nat /\ n <= Head(streams[cur].pending_data).len /\ n <= streams[cur].deficit
    BY <2>2, <2>3, <2>4 DEF MinOf
  <2> HIDE DEF n
  <2> QED
    BY <2>1, <2>3, <2>5, Zenon
<1> QED
  BY <1>1, <1>2, <1>3

\* The pumps leave the batch at work alone.
LEMMA PumpKeepsBatch ==
    ASSUME PumpStreamData \/ DrrPump
    PROVE  UNCHANGED msgs /\ \A t : BatchOf(t)' = BatchOf(t)
<1>1. CASE PumpStreamData
  <2>1. /\ UNCHANGED msgs
        /\ \/ UNCHANGED <<pc, cur>>
           \/ pc = "pump" /\ pc' = "frames"
           \/ pc = "msgpump" /\ pc' = "msgs" /\ cur' = cur
    BY <1>1, Zenon DEF PumpStreamData
  <2> QED
    BY <2>1 DEF BatchOf
<1>2. CASE DrrPump
  <2>1. UNCHANGED msgs /\ pc = "drrpump" /\ pc' \in {"drr", "drrpump"}
    BY <1>2, Zenon DEF DrrPump
  <2> QED
    BY <2>1 DEF BatchOf
<1> QED
  BY <1>1, <1>2

\* A frame of the front chunk moves octets from the queue to the wire; if it
\* ends the body, everything the task produced is on the wire.
LEMMA FrontSent ==
    ASSUME FlowInv, BodyInv, NEW s \in Open, HasData(streams[s]),
           NEW n \in Nat, n <= Head(streams[s].pending_data).len,
           NEW d \in Nat, d <= streams[s].deficit,
           SendFront(s, n, d), UNCHANGED msgs,
           \A t \in Open' : BatchOf(t)' = BatchOf(t)
    PROVE  /\ BodyInv'
           /\ FrameEnd(Head(streams[s].pending_data), n) =>
                wire'[s].octets = streams[s].produced
<1> DEFINE e == streams[s]
           q == e.pending_data
           c == Head(q)
           a == wire[s].octets
           p == IF n = c.len THEN Tail(q)
                ELSE [q EXCEPT ![1] = [len |-> c.len - n, end |-> c.end]]
<1>1. TypeOK /\ LedgerInv /\ PlainInv
  BY DEF FlowInv, TypeInv, BodyInv
<1>2. /\ s \in Streams /\ e \in StreamEntry /\ q \in Seq(Chunk) /\ q # <<>>
      /\ ~e.local_ended /\ a \in Nat
  BY <1>1, EntryTyped, Zenon DEF HasData
<1>3. c \in Chunk /\ \A x \in Chunk : x.len \in Nat
  BY <1>2, HeadTailProperties, Zenon DEF Chunk
<1>4. PICK j \in Nat, k \in Nat :
        /\ Spans(q, a, j, e.produced, Over(e))
        /\ Spans(BatchOf(s), j, k, e.produced, Over(e))
        /\ Spans(e.msg_rx, k, e.produced, e.produced, Over(e))
  BY <1>1, <1>2 DEF LedgerInv, Ledger
<1>5. Spans(p, a + n, j, e.produced, Over(e))
  <2>1. CASE n = c.len
    BY <1>2, <1>3, <1>4, <2>1, SpansTail, Zenon
  <2>2. CASE n # c.len
    BY <1>2, <1>3, <1>4, <2>2, SpansFront, Zenon
  <2> QED
    BY <2>1, <2>2, Zenon
<1>6. c.end => a + c.len = e.produced
  BY <1>2, <1>3, <1>4, SpansTail, Zenon
<1>7. /\ wire'[s].octets = a + n
      /\ \A t \in Streams : t # s => wire'[t] = wire[t]
      /\ Open' \subseteq Open
      /\ \A t \in Open' : t # s => streams'[t] = streams[t]
  BY <1>1, SendFrontStep
<1> DEFINE f == [e EXCEPT !.pending_data = p, !.send_window = @ - n,
                          !.local_ended = @ \/ FrameEnd(c, n), !.deficit = @ - d]
<1>8. s \in Open' => streams'[s] = f
  <2>1. CASE Retire(e, FrameEnd(c, n))
    BY <2>1 DEF SendFront, Remove, Without, Open
  <2>2. CASE ~Retire(e, FrameEnd(c, n))
    <3>1. Update(s, f)
      BY <2>2 DEF SendFront
    <3> HIDE DEF f
    <3> QED
      BY <3>1, Zenon DEF Update, With, Open
  <2> QED
    BY <2>1, <2>2
<1>9. /\ f.pending_data = p /\ f.msg_rx = e.msg_rx /\ f.produced = e.produced
      /\ f.task = e.task
  BY <1>2, Zenon DEF StreamEntry
<1> HIDE DEF f, p
<1>10. s \in Open' => Ledger(streams'[s], BatchOf(s)', wire'[s].octets)
  BY <1>4, <1>5, <1>7, <1>8, <1>9, Zenon DEF Ledger, Over
<1>11. Open \subseteq Streams
  BY <1>1, Zenon DEF TypeOK
<1>12. LedgerInv'
  BY <1>1, <1>7, <1>10, <1>11, LedgerKept, Zenon DEF SameBody
<1>13. PlainInv'
  <2>1. \A t \in Open' : t \in Open /\ streams'[t].msg_rx = streams[t].msg_rx
    BY <1>7, <1>8, <1>9
  <2> QED
    BY <1>1, <2>1, Zenon DEF PlainInv, Plain
<1> QED
  BY <1>6, <1>7, <1>12, <1>13 DEF BodyInv, FrameEnd

\* The draining loops.
LEMMA BodyInvDrain ==
    ASSUME FlowInv, BodyInv,
           \/ PumpStreamData
           \/ \E s \in Streams : DrrVisit(s)
           \/ DrrPump
           \/ DrrRound
           \/ StartDrain /\ pc \in {"select", "frames"}
           \/ \E s \in Streams : DrainStream(s)
           \/ EndDrain
           \/ EndBatch
    PROVE  BodyInv'
<1> USE DEF conn, drr, out
<1>1. TypeOK /\ LedgerInv /\ PlainInv
  BY Zenon DEF FlowInv, TypeInv, BodyInv
<1>2. CASE PumpStreamData \/ DrrPump
  <2>1. UNCHANGED msgs /\ \A t : BatchOf(t)' = BatchOf(t)
    BY <1>2, PumpKeepsBatch
  <2>2. CASE UNCHANGED <<streams, closed_streams, wire>>
    BY <1>1, <2>1, <2>2, BodyKept, Zenon DEF SameBody, PlainInv, Open
  <2>3. ASSUME NEW n \in Nat, NEW d \in Nat,
               cur \in Open, HasData(streams[cur]), SendFront(cur, n, d),
               n <= Head(streams[cur].pending_data).len, d <= streams[cur].deficit
        PROVE  BodyInv'
    BY <2>1, <2>3, FrontSent
  <2> QED
    BY <1>1, <1>2, <2>2, <2>3, PumpTurn
<1>3. ASSUME NEW s \in Streams, DrrVisit(s)
      PROVE  BodyInv'
  <2>1. UNCHANGED <<msgs, wire>> /\ pc = "drr" /\ pc' \in {"drr", "drrpump"}
    BY <1>3, Zenon DEF DrrVisit
  <2>2. \A t : BatchOf(t)' = BatchOf(t)
    BY <2>1, Zenon DEF BatchOf
  <2>3. CASE s \in Blocked /\ streams[s].send_window > 0
    <3> DEFINE e == [streams[s] EXCEPT !.deficit = @ + max_frame_size, !.raised = FALSE]
    <3>1. Update(s, e) /\ s \in Open /\ streams[s] \in StreamEntry
      BY <1>1, <1>3, <2>3, Zenon DEF DrrVisit, Blocked, TypeOK
    <3>2. SameBody(e, streams[s])
      BY <3>1, Zenon DEF StreamEntry, SameBody
    <3> HIDE DEF e
    <3>3. /\ Open' = Open /\ streams'[s] = e
          /\ \A t \in Open : t # s => streams'[t] = streams[t]
      BY <3>1, Zenon DEF Update, With, Open
    <3> QED
      BY <1>1, <2>1, <2>2, <3>2, <3>3, BodyKept DEF SameBody, PlainInv
  <2>4. CASE ~(s \in Blocked /\ streams[s].send_window > 0)
    <3>1. UNCHANGED streams
      BY <1>3, <2>4, Zenon DEF DrrVisit
    <3> QED
      BY <1>1, <2>1, <2>2, <3>1, BodyKept DEF SameBody, PlainInv, Open
  <2> QED
    BY <2>3, <2>4
<1>4. CASE DrrRound \/ (StartDrain /\ pc \in {"select", "frames"}) \/ EndDrain \/ EndBatch
  <2>1. /\ UNCHANGED <<msgs, wire, streams>> /\ pc' \notin {"msgs", "msgpump"}
        /\ pc \notin {"msgs", "msgpump"} \/ msgs = <<>>
    BY <1>4, SMTT(30) DEF DrrRound, StartDrain, EndDrain, EndBatch
  <2>2. \A t : BatchOf(t)' = BatchOf(t)
    BY <2>1 DEF BatchOf
  <2> QED
    BY <1>1, <2>1, <2>2, BodyKept, Zenon DEF SameBody, PlainInv, Open
<1>5. ASSUME NEW s \in Streams, DrainStream(s)
      PROVE  BodyInv'
  <2>1. UNCHANGED wire /\ pc = "drain"
    BY <1>5, Zenon DEF DrainStream
  <2>2. CASE s \in Open /\ ~LeftAlone(streams[s])
    <3> DEFINE e == [streams[s] EXCEPT !.msg_rx = <<>>]
    <3>1. /\ Update(s, e) /\ msgs' = streams[s].msg_rx /\ pc' = "msgs" /\ cur' = s
          /\ streams[s].pending_data = <<>> /\ streams[s] \in StreamEntry
      BY <1>1, <1>5, <2>2, Zenon DEF DrainStream, LeftAlone, TypeOK
    <3>2. /\ e.pending_data = <<>> /\ e.msg_rx = <<>> /\ e.produced = streams[s].produced
          /\ e.task = streams[s].task /\ e.local_ended = streams[s].local_ended
      BY <3>1, Zenon DEF StreamEntry
    <3>3. streams[s].produced \in Nat /\ wire[s].octets \in Nat
      BY <1>1, <2>2, EntryTyped, Zenon
    <3> HIDE DEF e
    <3>4. /\ Open' = Open /\ streams'[s] = e
          /\ \A t \in Open : t # s => streams'[t] = streams[t]
      BY <2>2, <3>1, Zenon DEF Update, With, Open
    <3>5. BatchOf(s) = <<>> /\ BatchOf(s)' = streams[s].msg_rx
          /\ \A t : t # s => BatchOf(t) = <<>> /\ BatchOf(t)' = <<>>
      BY <2>1, <3>1, Zenon DEF BatchOf
    <3>6. ASSUME ~e.local_ended
          PROVE  Ledger(e, streams[s].msg_rx, wire[s].octets)
      <4> DEFINE r == streams[s].produced
                 o == Over(streams[s])
      <4>1. PICK j \in Nat, k \in Nat : /\ Spans(<<>>, wire[s].octets, j, r, o)
                                        /\ Spans(<<>>, j, k, r, o)
                                        /\ Spans(streams[s].msg_rx, k, r, r, o)
        BY <1>1, <2>2, <3>1, <3>2, <3>5, <3>6, Zenon DEF LedgerInv, Ledger
      <4>2. wire[s].octets = j /\ j = k
        BY <3>3, <4>1, SpansEmpty, Zenon
      <4>3. Spans(<<>>, j, j, r, o) /\ Spans(<<>>, r, r, r, o)
        BY <3>3, SpansEmpty, Zenon
      <4> QED
        BY <3>2, <3>3, <4>1, <4>2, <4>3 DEF Ledger, Over
    <3>7. LedgerInv'
      <4>1. \A t \in Open' : t # s => /\ t \in Open /\ SameBody(streams'[t], streams[t])
                                      /\ BatchOf(t)' = BatchOf(t)
                                      /\ wire'[t].octets = wire[t].octets
        BY <2>1, <3>4, <3>5 DEF SameBody
      <4>2. ~streams'[s].local_ended => Ledger(streams'[s], BatchOf(s)', wire'[s].octets)
        BY <2>1, <3>4, <3>5, <3>6, Zenon
      <4> QED
        BY <1>1, <4>1, <4>2, LedgerKept, Zenon
    <3>8. Plain(<<>>) /\ Plain(streams[s].msg_rx)
      <4>1. Plain(<<>>)
        BY EmptySeq DEF Plain
      <4> QED
        BY <1>1, <2>2, <4>1, Zenon DEF PlainInv
    <3>9. PlainInv'
      <4>1. Plain(msgs')
        BY <3>1, <3>8, Zenon
      <4>2. ASSUME NEW t \in Open'
            PROVE  Plain(streams'[t].msg_rx)
        <5>1. CASE t = s
          BY <3>2, <3>4, <3>8, <5>1, Zenon
        <5>2. CASE t # s
          BY <1>1, <3>4, <5>2, Zenon DEF PlainInv
        <5> QED
          BY <5>1, <5>2
      <4> QED
        BY <4>1, <4>2, Zenon DEF PlainInv, Plain
    <3> QED
      BY <3>7, <3>9 DEF BodyInv
  <2>3. CASE ~(s \in Open /\ ~LeftAlone(streams[s]))
    <3>1. UNCHANGED <<msgs, streams, pc, cur>>
      BY <1>5, <2>3, Zenon DEF DrainStream
    <3>2. \A t : BatchOf(t)' = BatchOf(t)
      BY <3>1 DEF BatchOf
    <3> QED
      BY <1>1, <2>1, <3>1, <3>2, BodyKept DEF SameBody, PlainInv, Open
  <2> QED
    BY <2>2, <2>3
<1> QED
  BY <1>2, <1>3, <1>4, <1>5

\* The rest of a batch spans what the message at its front leaves, and a front
\* message that ends the body, by itself or by the one merged into it, stands
\* at its end.
LEMMA SpansRest ==
    ASSUME NEW q \in Seq(StreamMsg), q # <<>>, q = msgs,
           NEW j \in Nat, NEW k \in Nat, NEW total, NEW over, Spans(q, j, k, total, over)
    PROVE  /\ Spans(Rest, j + Head(q).len, k, total, over)
           /\ Head(q).end \/ Merges => over /\ j + Head(q).len = total
<1> DEFINE t == Tail(q)
           b == j + Head(q).len
<1>1. /\ Head(q) \in StreamMsg /\ t \in Seq(StreamMsg) /\ Len(t) = Len(q) - 1
      /\ \A i \in 1 .. Len(t) : t[i] = q[i + 1]
  BY HeadTailProperties
<1>2. Head(q).len \in Nat /\ \A x \in StreamMsg : x.len \in Nat
  BY <1>1 DEF StreamMsg
<1>3. b \in Nat
  BY <1>2
<1>4. Spans(t, b, k, total, over) /\ (Head(q).end => over /\ b = total)
  BY <1>2, SpansTail
<1> HIDE DEF t, b
<1>5. ASSUME Merges
      PROVE  Spans(Tail(t), b, k, total, over) /\ over /\ b = total
  <2>1. Len(q) > 1 /\ q[2].len = 0 /\ q[2].end /\ Len(q) \in Nat
    BY <1>5, LenProperties DEF Merges, IsEmptyEnd
  <2>2. t # <<>>
    <3>1. Len(t) # 0 /\ Len(<<>>) = 0
      BY <1>1, <2>1, EmptySeq
    <3> QED
      BY <3>1, Zenon
  <2>3. Head(t) = q[2]
    <3>1. 1 \in 1 .. Len(t) /\ 1 + 1 = 2
      BY <1>1, <2>1
    <3>2. Head(t) = t[1]
      BY <1>1, <2>2, HeadTailProperties
    <3> QED
      BY <1>1, <3>1, <3>2
  <2>4. /\ Spans(Tail(t), b + Head(t).len, k, total, over)
        /\ Head(t).end => over /\ b + Head(t).len = total
    BY <1>1, <1>2, <1>3, <1>4, <2>2, SpansTail
  <2>5. b + Head(t).len = b
    BY <1>3, <2>1, <2>3
  <2> QED
    BY <2>1, <2>3, <2>4, <2>5
<1>6. Spans(Rest, b, k, total, over)
  BY <1>4, <1>5 DEF Rest, t
<1>7. Head(q).end \/ Merges => over /\ b = total
  BY <1>4, <1>5
<1> QED
  BY <1>6, <1>7 DEF b

\* Messages of a batch: DATA joins the queue, and what ends the response
\* another way ends the ledger with it.
LEMMA BodyInvMsgs ==
    ASSUME FlowInv, BodyInv, HandleStreamMsg
    PROVE  BodyInv'
<1> DEFINE m == Head(msgs)
<1>0. PICK s : s = cur
  OBVIOUS
<1>1. TypeOK /\ TypeInv /\ LedgerInv /\ PlainInv
  BY DEF FlowInv, TypeInv, BodyInv
<1>2. /\ pc = "msgs" /\ msgs # <<>> /\ msgs' = Rest /\ UNCHANGED cur
      /\ msgs \in Seq(StreamMsg) /\ s \in Streams
  BY <1>0, <1>1, Zenon DEF HandleStreamMsg, TypeOK, TypeInv
<1>3. pc' \in {"msgs", "msgpump"}
  BY <1>2, Zenon DEF HandleStreamMsg, HandleData, HandleHeaders, HandleReset, HandleClosed
<1>4. /\ BatchOf(s) = msgs /\ BatchOf(s)' = Rest
      /\ \A t : t # s => BatchOf(t) = <<>> /\ BatchOf(t)' = <<>>
  BY <1>0, <1>2, <1>3 DEF BatchOf
<1>5. /\ m \in StreamMsg /\ m = msgs[1] /\ Tail(msgs) \in Seq(StreamMsg)
      /\ Len(msgs) \in Nat \ {0} /\ Len(Tail(msgs)) = Len(msgs) - 1
      /\ \A i \in 1 .. Len(Tail(msgs)) : Tail(msgs)[i] = msgs[i + 1]
  BY <1>2, HeadTailProperties, LenProperties, EmptySeq
<1>6. /\ m.len \in Nat /\ m.end \in BOOLEAN /\ m.type \in MsgType
      /\ \A x \in StreamMsg : x.len \in Nat
      /\ \A x \in Chunk : x.len \in Nat
  BY <1>5 DEF StreamMsg, Chunk
<1>7. \A t \in Streams : wire'[t].octets = wire[t].octets
  BY <1>1, OnlyPumpsSend
<1>8. Open \subseteq Streams
  BY <1>1 DEF TypeOK
<1>9. Plain(msgs')
  <2>1. PICK k \in {1, 2} : /\ Len(Rest) = Len(msgs) - k
                            /\ \A i \in 1 .. Len(Rest) : Rest[i] = msgs[i + k]
    BY <1>2, RestOfBatch
  <2>2. \A i \in 1 .. Len(Rest) : i + k \in 1 .. Len(msgs)
    BY <1>5, <2>1
  <2> QED
    BY <1>1, <1>2, <2>1, <2>2 DEF Plain, PlainInv
\* A message that is not DATA takes no part of the body with it.
<1>10. ASSUME m.type # "data", NEW a \in Nat, NEW b \in Nat, NEW total, NEW over,
              Spans(msgs, a, b, total, over)
       PROVE  Spans(Rest, a, b, total, over)
  <2>1. m.len = 0
    BY <1>1, <1>5, <1>10 DEF Plain, PlainInv
  <2>2. Spans(Rest, a + m.len, b, total, over) /\ a + m.len = a
    BY <1>2, <1>10, <2>1, SpansRest
  <2> QED
    BY <2>2, Zenon
\* The steps that touch at most the flags of s, or drop it.
<1>11. ASSUME \A t \in Open' : t \in Open /\ (t # s => streams'[t] = streams[t]),
              s \in Open' =>
                /\ streams'[s].msg_rx = streams[s].msg_rx
                /\ ~streams'[s].local_ended =>
                     /\ SameBody(streams'[s], streams[s])
                     /\ m.type # "data"
       PROVE  BodyInv'
  <2>1. ASSUME s \in Open', ~streams'[s].local_ended
        PROVE  Ledger(streams'[s], BatchOf(s)', wire'[s].octets)
    <3>1. Ledger(streams[s], msgs, wire[s].octets)
      BY <1>1, <1>4, <1>11, <2>1, Zenon DEF LedgerInv, SameBody
    <3>2. Ledger(streams[s], Rest, wire[s].octets)
      BY <1>10, <1>11, <2>1, <3>1, Zenon DEF Ledger
    <3> QED
      BY <1>2, <1>4, <1>7, <1>11, <2>1, <3>2, Zenon DEF Ledger, SameBody, Over
  <2>2. LedgerInv'
    <3>1. \A t \in Open' : t # s => /\ t \in Open /\ SameBody(streams'[t], streams[t])
                                    /\ BatchOf(t)' = BatchOf(t)
                                    /\ wire'[t].octets = wire[t].octets
      BY <1>4, <1>7, <1>8, <1>11 DEF SameBody
    <3> QED
      BY <1>1, <3>1, <2>1, LedgerKept, Zenon
  <2>3. PlainInv'
    BY <1>1, <1>9, <1>11 DEF PlainInv, Plain
  <2> QED
    BY <2>2, <2>3, Zenon DEF BodyInv
<1>12. CASE HandleData
  <2>1. CASE s \notin Open \/ streams[s].local_ended
    <3>1. UNCHANGED streams
      BY <1>0, <1>12, <2>1, Zenon DEF HandleData
    <3> QED
      BY <1>11, <2>1, <3>1 DEF Open
  <2>2. CASE s \in Open /\ ~streams[s].local_ended
    <3> DEFINE e == streams[s]
               c == [len |-> m.len, end |-> m.end \/ Merges]
               p == Append(e.pending_data, c)
               f == [e EXCEPT !.pending_data = p, !.raised = FALSE]
    <3>1. Update(s, f) /\ e \in StreamEntry /\ m.type = "data"
      BY <1>0, <1>1, <1>12, <2>2, Zenon DEF HandleData, TypeOK
    <3>2. /\ f.pending_data = p /\ f.msg_rx = e.msg_rx /\ f.produced = e.produced
          /\ f.task = e.task
          /\ e.pending_data \in Seq(Chunk)
      BY <3>1, Zenon DEF StreamEntry
    <3>3. /\ c.len = m.len /\ c \in Chunk
          /\ c.end <=> (m.end \/ Merges)
      BY <1>6, Zenon DEF Chunk
    <3>4. wire[s].octets \in Nat
      BY <1>1, <1>2 DEF TypeOK
    <3> HIDE DEF f, c
    <3>5. /\ Open' = Open /\ streams'[s] = f
          /\ \A t \in Open : t # s => streams'[t] = streams[t]
      BY <2>2, <3>1, Zenon DEF Update, With, Open
    <3>6. PICK j \in Nat, k \in Nat :
            /\ Spans(e.pending_data, wire[s].octets, j, e.produced, Over(e))
            /\ Spans(msgs, j, k, e.produced, Over(e))
            /\ Spans(e.msg_rx, k, e.produced, e.produced, Over(e))
      BY <1>1, <1>4, <2>2, Zenon DEF LedgerInv, Ledger
    <3>7. /\ Spans(Rest, j + m.len, k, e.produced, Over(e))
          /\ m.end \/ Merges => Over(e) /\ j + m.len = e.produced
      BY <1>2, <3>6, SpansRest, Zenon
    <3>8. c.end => Over(e) /\ j + c.len = e.produced
      BY <3>3, <3>7, Zenon
    <3>9. Spans(p, wire[s].octets, j + c.len, e.produced, Over(e))
      <4> DEFINE r == e.produced
                 o == Over(e)
                 a == wire[s].octets
      <4>1. /\ Spans(e.pending_data, a, j, r, o) /\ a \in Nat
            /\ ~o \/ (o /\ r = r)
            /\ c.end => o /\ j + c.len = r
        BY <3>4, <3>6, <3>8
      <4> HIDE DEF r, o, a
      <4>2. Spans(p, a, j + c.len, r, o)
        BY <1>6, <3>2, <3>3, <4>1, SpansAppend, Zenon
      <4> QED
        BY <4>2, Zenon DEF r, o, a
    <3>10. j + m.len \in Nat
      BY <1>6
    <3> HIDE DEF p
    <3>11. Ledger(streams'[s], BatchOf(s)', wire'[s].octets)
      BY <1>2, <1>4, <1>7, <3>2, <3>3, <3>5, <3>6, <3>7, <3>9, <3>10, Zenon DEF Ledger, Over
    <3>12. LedgerInv'
      <4>1. \A t \in Open' : t # s => /\ t \in Open /\ SameBody(streams'[t], streams[t])
                                      /\ BatchOf(t)' = BatchOf(t)
                                      /\ wire'[t].octets = wire[t].octets
        BY <1>4, <1>7, <1>8, <3>5 DEF SameBody
      <4> QED
        BY <1>1, <4>1, <3>11, LedgerKept, Zenon
    <3>13. PlainInv'
      BY <1>1, <1>9, <3>2, <3>5 DEF PlainInv, Plain
    <3> QED
      BY <3>12, <3>13 DEF BodyInv
  <2> QED
    BY <2>1, <2>2
<1>13. CASE HandleHeaders
  <2>1. m.type # "data"
    BY <1>0, <1>13, Zenon DEF HandleHeaders
  <2>2. CASE s \in Open /\ (m.type = "info" \/ ~streams[s].local_ended)
    <3> DEFINE f == [streams[s] EXCEPT !.local_ended = @ \/ m.end]
    <3>1. Update(s, f) /\ streams[s] \in StreamEntry
      BY <1>0, <1>1, <1>13, <2>2 DEF HandleHeaders, TypeOK
    <3>2. /\ f.pending_data = streams[s].pending_data /\ f.msg_rx = streams[s].msg_rx
          /\ f.produced = streams[s].produced /\ f.task = streams[s].task
          /\ f.local_ended <=> (streams[s].local_ended \/ m.end)
      BY <3>1, Zenon DEF StreamEntry
    <3>3. streams[s].local_ended \in BOOLEAN /\ f.local_ended \in BOOLEAN
      BY <3>1, Zenon DEF StreamEntry
    <3> HIDE DEF f
    <3>4. /\ Open' = Open /\ streams'[s] = f
          /\ \A t \in Open : t # s => streams'[t] = streams[t]
      BY <2>2, <3>1, Zenon DEF Update, With, Open
    <3>5. ~f.local_ended => f.local_ended = streams[s].local_ended
      BY <3>2, <3>3
    <3>6. ~f.local_ended => SameBody(f, streams[s])
      BY <3>2, <3>5, Zenon DEF SameBody
    <3> QED
      BY <1>11, <2>1, <3>2, <3>4, <3>6
  <2>3. CASE ~(s \in Open /\ (m.type = "info" \/ ~streams[s].local_ended))
    <3>1. UNCHANGED streams
      BY <1>0, <1>13, <2>3, Zenon DEF HandleHeaders
    <3> QED
      BY <1>11, <2>1, <3>1 DEF Open, SameBody
  <2> QED
    BY <2>2, <2>3
<1>14. CASE HandleReset
  <2>1. Open' \subseteq Open /\ s \notin Open' /\ \A t \in Open' : streams'[t] = streams[t]
    BY <1>0, <1>14, Zenon DEF HandleReset, Remove, Without, Open
  <2> QED
    BY <1>11, <2>1
<1>15. CASE HandleClosed
  <2>1. m.type # "data"
    BY <1>0, <1>15 DEF HandleClosed
  <2>2. CASE s \notin Open
    <3>1. UNCHANGED streams
      BY <1>0, <1>15, <2>2, Zenon DEF HandleClosed
    <3> QED
      BY <1>11, <2>2, <3>1 DEF Open
  <2>3. CASE s \in Open /\ streams[s].local_ended
    <3>1. Remove(s)
      BY <1>0, <1>15, <2>3 DEF HandleClosed
    <3>2. Open' \subseteq Open /\ s \notin Open'
          /\ \A t \in Open' : streams'[t] = streams[t]
      BY <3>1, Zenon DEF Remove, Without, Open
    <3> QED
      BY <1>11, <3>2
  <2>4. CASE s \in Open /\ ~streams[s].local_ended
    <3>1. Update(s, TaskDone(streams[s])) /\ streams[s] \in StreamEntry
      BY <1>0, <1>1, <1>15, <2>4 DEF HandleClosed, TypeOK
    <3>2. SameBody(TaskDone(streams[s]), streams[s])
      BY <3>1, Zenon DEF SameBody, TaskDone, StreamEntry
    <3>3. /\ Open' = Open /\ streams'[s] = TaskDone(streams[s])
          /\ \A t \in Open : t # s => streams'[t] = streams[t]
      BY <2>4, <3>1, Zenon DEF Update, With, Open
    <3> QED
      BY <1>11, <2>1, <3>2, <3>3 DEF SameBody
  <2> QED
    BY <2>2, <2>3, <2>4
<1> QED
  BY <1>12, <1>13, <1>14, <1>15, Zenon DEF HandleStreamMsg

\* The stream tasks: every message is counted when it is sent, and none with a
\* length follows the end.
LEMMA BodyInvTask ==
    ASSUME FlowInv, BodyInv, NEW s \in Streams, TaskStep(s)
    PROVE  BodyInv'
<1> USE DEF conn, drr, out
<1>1. TypeOK /\ LedgerInv /\ PlainInv
  BY DEF FlowInv, TypeInv, BodyInv
<1>2. /\ s \in Open /\ pc \in {"select", "frames"} /\ UNCHANGED <<pc, cur, msgs, wire>>
  BY Zenon DEF TaskStep, TaskInformational, TaskResponse, TaskData, TaskBodyEnd,
      TaskTrailers, TaskBodyError, TaskGivesUp, TaskClosed, Send, TaskMove
<1>3. \A t : BatchOf(t) = <<>> /\ BatchOf(t)' = <<>>
  BY <1>2 DEF BatchOf
<1> DEFINE e == streams[s]
           a == wire[s].octets
<1>4. /\ e \in StreamEntry /\ e.msg_rx \in Seq(StreamMsg) /\ e.produced \in Nat /\ a \in Nat
  BY <1>1, <1>2, EntryTyped, Zenon
<1>5. ASSUME NEW f, Update(s, f), f.local_ended = e.local_ended, Plain(f.msg_rx),
             ~e.local_ended => Ledger(f, <<>>, a)
      PROVE  BodyInv'
  <2>1. /\ Open' = Open /\ streams'[s] = f
        /\ \A t \in Open : t # s => streams'[t] = streams[t]
    BY <1>2, <1>5, Zenon DEF Update, With, Open
  <2>2. LedgerInv'
    BY <1>1, <1>2, <1>3, <1>5, <2>1, LedgerKept, Zenon DEF SameBody
  <2>3. PlainInv'
    BY <1>1, <1>2, <1>5, <2>1 DEF PlainInv, Plain
  <2> QED
    BY <2>2, <2>3 DEF BodyInv
<1>6. ASSUME NEW from \in TaskState, NEW to \in TaskState, NEW m \in StreamMsg,
             Send(s, from, to, m),
             m.type # "data" => m.len = 0,
             m.end => to = "ended",
             from = "ended" => to = "closed" /\ m.len = 0,
             from # "closed"
      PROVE  BodyInv'
  <2> DEFINE f == [e EXCEPT !.task = to, !.msg_rx = Append(@, m), !.produced = @ + m.len]
             r == e.produced
             o == Over(e)
             o2 == Over(f)
  <2>1. Update(s, f) /\ e.task = from
    BY <1>6, Zenon DEF Send, TaskMove
  <2>2. /\ f.task = to /\ f.msg_rx = Append(e.msg_rx, m) /\ f.produced = r + m.len
        /\ f.pending_data = e.pending_data /\ f.local_ended = e.local_ended
    BY <1>4, Zenon DEF StreamEntry
  <2>3. m.len \in Nat /\ \A x \in StreamMsg : x.len \in Nat
    BY <1>6 DEF StreamMsg
  <2>4. /\ ~o \/ (o2 /\ r + m.len = r)
        /\ m.end => o2
    BY <1>4, <1>6, <2>1, <2>2, <2>3 DEF Over
  <2>5. Plain(f.msg_rx)
    <3>1. Plain(e.msg_rx)
      BY <1>1, <1>2, Zenon DEF PlainInv
    <3> QED
      BY <1>4, <1>6, <2>2, <3>1, PlainAppend, Zenon
  <2>6. ASSUME ~e.local_ended
        PROVE  Ledger(f, <<>>, a)
    <3>1. PICK j \in Nat, k \in Nat : /\ Spans(e.pending_data, a, j, r, o)
                                      /\ Spans(<<>>, j, k, r, o)
                                      /\ Spans(e.msg_rx, k, r, r, o)
      BY <1>1, <1>2, <1>3, <2>6 DEF LedgerInv, Ledger
    <3> DEFINE q == e.msg_rx
               p == e.pending_data
    <3>2. q \in Seq(StreamMsg) /\ r \in Nat
      BY <1>4, Zenon
    <3> HIDE DEF o, o2, a, r, q, p, f, e
    <3>3. Spans(p, a, j, r + m.len, o2) /\ Spans(<<>>, j, k, r + m.len, o2)
      BY <2>4, <3>1, SpansStay DEF p
    <3>4. Spans(Append(q, m), k, r + m.len, r + m.len, o2)
      BY <1>6, <2>3, <2>4, <3>1, <3>2, SpansAppend, Zenon DEF q
    <3> QED
      BY <2>2, <3>3, <3>4, Zenon DEF Ledger, o2, q, p
  <2> HIDE DEF f
  <2> QED
    BY <1>5, <2>1, <2>2, <2>5, <2>6, Zenon
<1>7. /\ \A t \in {"service", "body", "ended", "closed"} : t \in TaskState
      /\ \A type \in MsgType, end \in BOOLEAN :
           /\ Msg(type, 0, end) \in StreamMsg
           /\ Msg(type, 0, end).len = 0 /\ (Msg(type, 0, end).end <=> end)
      /\ \A t \in {"info", "headers", "data", "trailers", "reset", "closed"} : t \in MsgType
  BY DEF TaskState, Msg, StreamMsg, MsgType
<1>8. \A n \in ChunkLens : /\ Msg("data", n, FALSE) \in StreamMsg
                           /\ Msg("data", n, FALSE).type = "data"
                           /\ ~Msg("data", n, FALSE).end
  BY FlowAssumption DEF Msg, StreamMsg, MsgType
<1>9. ASSUME NEW from \in {"service", "body"}, NEW to \in {"service", "body"},
             NEW type \in MsgType, Send(s, from, to, Msg(type, 0, FALSE))
      PROVE  BodyInv'
  BY <1>6, <1>7, <1>9, Zenon
<1>10. ASSUME NEW from \in {"service", "body"}, NEW end \in BOOLEAN,
              NEW type \in MsgType, Send(s, from, "ended", Msg(type, 0, end))
       PROVE  BodyInv'
  BY <1>6, <1>7, <1>10
<1>11. CASE TaskInformational(s)
  BY <1>7, <1>9, <1>11, Zenon DEF TaskInformational
<1>12. CASE TaskResponse(s)
  BY <1>7, <1>9, <1>10, <1>12, Zenon DEF TaskResponse
<1>13. ASSUME NEW n \in ChunkLens, TaskData(s, n)
       PROVE  BodyInv'
  <2>1. Send(s, "body", "body", Msg("data", n, FALSE))
    BY <1>13, Zenon DEF TaskData
  <2> QED
    BY <1>6, <1>7, <1>8, <2>1, Zenon
<1>14. CASE TaskBodyEnd(s) \/ TaskTrailers(s) \/ TaskBodyError(s)
  BY <1>7, <1>10, <1>14, Zenon DEF TaskBodyEnd, TaskTrailers, TaskBodyError
<1>15. CASE TaskClosed(s)
  <2>1. Send(s, "ended", "closed", Msg("closed", 0, FALSE))
    BY <1>15, Zenon DEF TaskClosed
  <2> QED
    BY <1>6, <1>7, <2>1, Zenon
<1>16. CASE TaskGivesUp(s)
  <2> DEFINE f == [e EXCEPT !.task = "ended"]
  <2>1. Update(s, f) /\ e.task \in {"service", "body"}
    BY <1>16, Zenon DEF TaskGivesUp, TaskMove
  <2>2. /\ f.msg_rx = e.msg_rx /\ f.produced = e.produced
        /\ f.pending_data = e.pending_data /\ f.local_ended = e.local_ended
    BY <1>4, Zenon DEF StreamEntry
  <2>3. ~Over(e)
    BY <2>1, Zenon DEF Over
  <2> HIDE DEF f
  <2>4. ASSUME ~e.local_ended
        PROVE  Ledger(f, <<>>, a)
    <3>1. PICK j \in Nat, k \in Nat :
            /\ Spans(e.pending_data, a, j, e.produced, Over(e))
            /\ Spans(<<>>, j, k, e.produced, Over(e))
            /\ Spans(e.msg_rx, k, e.produced, e.produced, Over(e))
      BY <1>1, <1>2, <1>3, <2>4, Zenon DEF LedgerInv, Ledger
    <3>2. /\ Spans(e.pending_data, a, j, e.produced, Over(f))
          /\ Spans(<<>>, j, k, e.produced, Over(f))
          /\ Spans(e.msg_rx, k, e.produced, e.produced, Over(f))
      BY <2>3, <3>1, SpansStay
    <3> QED
      BY <2>2, <3>2, Zenon DEF Ledger
  <2>5. Plain(f.msg_rx)
    BY <1>1, <1>2, <2>2 DEF PlainInv
  <2> QED
    BY <1>5, <2>1, <2>2, <2>4, <2>5
<1> QED
  BY <1>11, <1>12, <1>13, <1>14, <1>15, <1>16, Zenon DEF TaskStep

\* The books balance: for every open stream whose response is not over, the
\* octets on the wire, the chunks queued, the batch at work and the channel
\* follow one another without a gap and add up to what the task produced.
THEOREM BodyInvariant == Spec => []BodyInv
<1>1. Init => BodyInv
  <2> SUFFICES ASSUME Init PROVE BodyInv
    OBVIOUS
  <2>1. Open = {} /\ Len(msgs) = 0
    BY EmptySeq DEF Init, Open
  <2> QED
    BY <2>1 DEF BodyInv, LedgerInv, PlainInv, Plain
<1>2. FlowInv /\ BodyInv /\ [Next]_vars => BodyInv'
  <2> SUFFICES ASSUME FlowInv, BodyInv, [Next]_vars
               PROVE  BodyInv'
    OBVIOUS
  <2>1. CASE PeerFrame
    BY <2>1, BodyInvPeer
  <2>2. CASE ConnectionStep
    <3>1. CASE HandleStreamMsg
      BY <3>1, BodyInvMsgs
    <3>2. CASE ~HandleStreamMsg
      <4>1. ASSUME EndOfRead \/ Wake
            PROVE  StartDrain /\ pc \in {"select", "frames"}
        BY <4>1 DEF EndOfRead, Wake
      <4> QED
        BY <2>2, <3>2, <4>1, BodyInvDrain, Zenon DEF ConnectionStep
    <3> QED
      BY <3>1, <3>2
  <2>3. ASSUME NEW s \in Streams, TaskStep(s)
        PROVE  BodyInv'
    BY <2>3, BodyInvTask, Zenon
  <2>4. CASE UNCHANGED vars
    <3>1. UNCHANGED <<streams, wire, msgs, pc, cur>>
      BY <2>4 DEF vars, out
    <3>2. \A t : BatchOf(t)' = BatchOf(t)
      BY <3>1 DEF BatchOf
    <3> QED
      BY <3>1, <3>2, BodyKept DEF SameBody, PlainInv, BodyInv, Open
  <2> QED
    BY <2>1, <2>2, <2>3, <2>4 DEF Next
<1> QED
  BY <1>1, <1>2, FlowInvariant, PTL DEF Spec

\* The DATA frame that carries END_STREAM, sent by pump_stream_data or by
\* pump_stream_data_drr, ends a complete body: with it every octet the task
\* produced is on the wire, however the chunks were split and merged.
THEOREM BodiesAreComplete == Spec => CompleteAtEnd
<1>1. FlowInv /\ BodyInv /\ [Next]_vars =>
        [\A s \in Streams :
            /\ wire'[s].phase = "ended" /\ wire[s].phase = "open"
            /\ pc \in {"pump", "msgpump", "drrpump"}
            => wire'[s].octets = streams[s].produced]_vars
  <2> SUFFICES ASSUME FlowInv, BodyInv, Next, NEW s \in Streams,
                      wire'[s].phase = "ended", wire[s].phase = "open",
                      pc \in {"pump", "msgpump", "drrpump"}
               PROVE  wire'[s].octets = streams[s].produced
    OBVIOUS
  <2>1. TypeOK
    BY DEF FlowInv, TypeInv
  <2>2. wire' # wire
    OBVIOUS
  <2>3. PumpStreamData \/ DrrPump
    <3>1. ~PeerFrame
      BY Zenon DEF PeerFrame, OpenStream, ResetFrame, ConnWindowUpdate, StreamWindowUpdate,
          InitialWindowSetting, MaxFrameSetting, OtherFrame, PeerGoAway, LoopEnds, Reading
    <3>2. ~(\E t \in Streams : TaskStep(t))
      BY Zenon DEF TaskStep, TaskInformational, TaskResponse, TaskData, TaskBodyEnd,
          TaskTrailers, TaskBodyError, TaskGivesUp, TaskClosed, Send, TaskMove
    <3>3. ~(\E t \in Streams : DrrVisit(t) \/ DrainStream(t)) /\ ~DrrRound
          /\ ~EndOfRead /\ ~Wake /\ ~EndDrain /\ ~HandleStreamMsg /\ ~EndBatch
      BY Zenon DEF DrrVisit, DrainStream, DrrRound, EndOfRead, Wake, EndDrain,
          HandleStreamMsg, EndBatch
    <3> QED
      BY <3>1, <3>2, <3>3, Zenon DEF Next, ConnectionStep
  <2>4. PICK n \in Nat, d \in Nat :
          /\ cur \in Open /\ HasData(streams[cur]) /\ SendFront(cur, n, d)
          /\ n <= Head(streams[cur].pending_data).len /\ d <= streams[cur].deficit
    BY <2>1, <2>2, <2>3, PumpTurn
  <2> DEFINE fin == FrameEnd(Head(streams[cur].pending_data), n)
  <2>5. Write(cur, "data", n, fin) /\ cur \in Streams
    BY <2>1, <2>4, EntryTyped, Zenon DEF SendFront
  <2>6. s = cur
    BY <2>1, <2>2, <2>5 DEF Write, TypeOK
  <2>7. fin
    <3>1. wire'[s].phase = NextPhase("open", "data", fin)
      BY <2>1, <2>5, <2>6 DEF Write, TypeOK
    <3> QED
      BY <3>1, Zenon DEF NextPhase
  <2>8. UNCHANGED msgs /\ \A t \in Open' : BatchOf(t)' = BatchOf(t)
    BY <2>3, PumpKeepsBatch
  <2> QED
    BY <2>4, <2>6, <2>7, <2>8, FrontSent
<1> QED
  BY <1>1, FlowInvariant, BodyInvariant, PTL DEF Spec, CompleteAtEnd

=============================================================================
