---------------------------- MODULE H2FlowControl ----------------------------
(***************************************************************************)
(* The sending half of an HTTP/2 connection (src/h2/connection): how the   *)
(* connection task turns the messages of its stream tasks into frames      *)
(* under the peer's flow-control windows.                                  *)
(*                                                                         *)
(* Stream tasks put StreamMsg values on bounded channels (msg_rx).  The    *)
(* drive loop empties the channels with drain_outbound after every read    *)
(* and after every wake; DATA the windows cannot absorb waits in           *)
(* pending_data and leaves with the peer's WINDOW_UPDATE frames, stream by *)
(* stream (pump_stream_data) or by deficit round-robin over all streams    *)
(* (drain_pending_data(None)).                                             *)
(*                                                                         *)
(* The connection task does not yield inside a handler, so a handler with  *)
(* a loop is a run of steps with pc telling the place; stream tasks move   *)
(* only where the connection awaits: at select, and between two frames of  *)
(* one read.  Octets are counted, their values dropped.                    *)
(***************************************************************************)
EXTENDS Integers, Sequences

CONSTANTS
    Streams,         \* stream identifiers the peer may open
    NoStream,        \* no handler is at work on a stream
    MaxWindow,       \* i32::MAX, the largest legal window
    ConnWindow,      \* opts.initial_connection_window_size
    PeerConnWindow,  \* initial connection window by the protocol (65535)
    StreamWindow,    \* peer.initial_window_size before any SETTINGS
    FrameSize,       \* peer.max_frame_size before any SETTINGS
    Increments,      \* WINDOW_UPDATE increments the peer uses
    WindowSizes,     \* SETTINGS_INITIAL_WINDOW_SIZE values the peer uses
    FrameSizes,      \* SETTINGS_MAX_FRAME_SIZE values the peer uses
    ChunkLens,       \* lengths of the non-empty chunks a body yields
    MaxBody,         \* bound: octets one response body yields
    MaxCredit,       \* bound: credit the peer hands out per window
    ChanCap          \* messages a channel holds, its parked send included

ASSUME FlowAssumption ==
    /\ NoStream \notin Streams
    /\ MaxWindow \in Nat /\ MaxBody \in Nat /\ MaxCredit \in Nat
    /\ ConnWindow \in 0 .. MaxWindow /\ PeerConnWindow \in 0 .. MaxWindow
    /\ StreamWindow \in 0 .. MaxWindow
    /\ FrameSize \in Nat \ {0} /\ FrameSizes \subseteq Nat \ {0}
    /\ Increments \subseteq Nat \ {0} /\ WindowSizes \subseteq 0 .. MaxWindow
    /\ ChunkLens \subseteq Nat \ {0}
    /\ ChanCap \in Nat \ {0}

VARIABLES
    conn_window,         \* octets the connection may still send
    initial_window_size, \* peer.initial_window_size
    max_frame_size,      \* peer.max_frame_size, also the DRR quantum
    ending,              \* process_frames returned true: the loop ends
    streams,             \* open streams: id -> StreamEntry
    closed_streams,      \* ids of the streams that were removed
    pc, cur,             \* the handler at work, and the stream it works on
    ids, next_ids, progress, served,  \* locals of the draining loops
    msgs,                \* the batch taken from cur's channel
    wire,                \* per stream: frame phase and DATA octets written
    conn_sent,           \* DATA octets written on the connection
    conn_credit          \* connection credit the peer has granted

conn == <<conn_window, initial_window_size, max_frame_size, ending>>
drr == <<ids, next_ids, progress, served>>
out == <<wire, conn_sent>>
vars == <<conn, streams, closed_streams, pc, cur, drr, msgs, out, conn_credit>>

Chunk == [len : Nat, end : BOOLEAN]
MsgType == {"info", "headers", "data", "trailers", "reset", "closed"}
StreamMsg == [type : MsgType, len : Nat, end : BOOLEAN]
Msg(type, len, end) == [type |-> type, len |-> len, end |-> end]
IsEmptyEnd(m) == m.type = "data" /\ m.len = 0 /\ m.end

Phase == {"idle", "open", "ended", "reset", "bad"}
Pc == {"select", "frames", "pump", "msgpump", "drr", "drrpump", "drain", "msgs",
       "closed"}
TaskState == {"service", "body", "ended", "closed"}

\* StreamEntry, with the place of its task and, for the properties, the
\* credit the peer granted the stream, the octets its body produced and
\* whether SETTINGS raised the window since the stream was last pumped.
StreamEntry ==
    [send_window : Int, pending_data : Seq(Chunk), local_ended : BOOLEAN,
     task_done : BOOLEAN, deficit : Nat, msg_rx : Seq(StreamMsg),
     task : TaskState, credit : Int, produced : Nat, raised : BOOLEAN]

Open == DOMAIN streams
With(s, e) == [i \in Open \cup {s} |-> IF i = s THEN e ELSE streams[i]]
Without(s) == [i \in Open \ {s} |-> streams[i]]

MinOf(a, b) == IF a <= b THEN a ELSE b
MutAvailable(e) == conn_window
Available(e) == MinOf(conn_window, e.send_window)

\* DATA that may still be sent: END_STREAM is not on the wire yet.
HasData(e) == e.pending_data # <<>> /\ ~e.local_ended

\* The streams drain_pending_data(None) collects.
Blocked == {s \in Open : HasData(streams[s])}
-----------------------------------------------------------------------------
\* What a frame does to the stream's phase on the wire.
NextPhase(ph, kind, fin) ==
    CASE kind = "info" /\ ph = "idle" -> "idle"
      [] kind = "headers" /\ ph = "idle" -> IF fin THEN "ended" ELSE "open"
      [] kind \in {"data", "trailers"} /\ ph = "open" ->
            IF fin THEN "ended" ELSE "open"
      [] kind = "reset" /\ ph \in {"idle", "open", "ended"} -> "reset"
      [] OTHER -> "bad"

Write(s, kind, n, fin) ==
    /\ wire' = [wire EXCEPT ![s] = [phase |-> NextPhase(@.phase, kind, fin),
                                    octets |-> @.octets + n]]
    /\ conn_sent' = conn_sent + n

\* mark_closed and streams.remove.  The LRU bound of closed_streams is the
\* subject of H2Streams.
Remove(s) ==
    /\ streams' = Without(s)
    /\ closed_streams' = closed_streams \cup {s}

Update(s, e) == streams' = With(s, e) /\ UNCHANGED closed_streams

\* A frame of n octets of chunk c carries END_STREAM.
MutFrameEnd(c, n) == c.end
FrameEnd(c, n) == c.end /\ n = c.len

\* The frame that ends the response of a finished task retires its stream.
MutRetire(e, fin) == FALSE
Retire(e, fin) == fin /\ e.task_done

\* One DATA frame of n octets from the front chunk of s; spent is what the
\* frame costs the stream's deficit.
SendFront(s, n, spent) ==
    LET e   == streams[s]
        c   == Head(e.pending_data)
        fin == FrameEnd(c, n)
    IN  /\ conn_window' = conn_window - n
        /\ IF Retire(e, fin)
              THEN Remove(s)
              ELSE Update(s, [e EXCEPT
                      !.pending_data = IF n = c.len THEN Tail(@)
                         ELSE [@ EXCEPT ![1] = [len |-> c.len - n, end |-> c.end]],
                      !.send_window = @ - n,
                      !.local_ended = @ \/ fin,
                      !.deficit = @ - spent])
        /\ Write(s, "data", n, fin)

\* The front chunk of s cannot move: no entry, response over, nothing queued,
\* or a window is exhausted (an empty chunk is not flow controlled).
Stuck(s) ==
    \/ s \notin Open
    \/ ~HasData(streams[s])
    \/ Head(streams[s].pending_data).len > 0 /\ Available(streams[s]) <= 0

\* The octets the next frame of s may carry.
FrontAmount(s) ==
    LET len == Head(streams[s].pending_data).len
    IN  IF len = 0 THEN 0
        ELSE MinOf(MinOf(len, Available(streams[s])), max_frame_size)
-----------------------------------------------------------------------------
(* Frames of the peer.  A read hands the loop any number of them. *)
Reading == pc \in {"select", "frames"} /\ ~ending

\* HEADERS that open a stream and spawn its task.
OpenStream(s) ==
    /\ Reading
    /\ s \notin Open \cup closed_streams
    /\ Update(s, [send_window |-> initial_window_size, pending_data |-> <<>>,
                  local_ended |-> FALSE, task_done |-> FALSE, deficit |-> 0,
                  msg_rx |-> <<>>, task |-> "service",
                  credit |-> initial_window_size, produced |-> 0,
                  raised |-> FALSE])
    /\ pc' = "frames"
    /\ UNCHANGED <<conn, cur, drr, msgs, out, conn_credit>>

\* An increment would take window w past 2^31-1.
MutOverflows(w, inc) == FALSE
Overflows(w, inc) == w > MaxWindow - inc

\* The streams a larger connection window lets drain_pending_data visit.
MutReopened(w) == {}
Reopened(w) == IF w > 0 THEN Blocked ELSE {}

\* handle_window_update on stream 0: overflow is a connection error.
ConnWindowUpdate(inc) ==
    /\ Reading
    /\ conn_credit + inc <= MaxCredit
    /\ conn_credit' = conn_credit + inc
    /\ IF Overflows(conn_window, inc)
          THEN ending' = TRUE /\ pc' = "frames" /\ UNCHANGED <<conn_window, ids>>
          ELSE /\ conn_window' = conn_window + inc
               /\ ids' = Reopened(conn_window')
               /\ pc' = IF ids' # {} THEN "drr" ELSE "frames"
               /\ UNCHANGED ending
    /\ UNCHANGED <<initial_window_size, max_frame_size, streams, closed_streams,
                   cur, next_ids, progress, served, msgs, out>>

\* handle_window_update on an open stream: overflow is a stream error, or,
\* once the budget for those is spent (see H2Streams), a connection error.
StreamWindowUpdate(s, inc) ==
    /\ Reading
    /\ s \in Open
    /\ streams[s].credit + inc <= MaxCredit
    /\ IF Overflows(streams[s].send_window, inc)
          THEN /\ \/ Remove(s) /\ Write(s, "reset", 0, FALSE) /\ UNCHANGED ending
                  \/ ending' = TRUE /\ UNCHANGED <<streams, closed_streams, out>>
               /\ pc' = "frames" /\ UNCHANGED cur
          ELSE /\ Update(s, [streams[s] EXCEPT !.send_window = @ + inc,
                                               !.credit = @ + inc,
                                               !.raised = FALSE])
               /\ pc' = "pump" /\ cur' = s
               /\ UNCHANGED <<ending, out>>
    /\ UNCHANGED <<conn_window, initial_window_size, max_frame_size, drr, msgs,
                   conn_credit>>

\* The window of an open stream when the peer's initial size moves to v.
MutShifted(w, v) == v
Shifted(w, v) == w + (v - initial_window_size)

\* SETTINGS_INITIAL_WINDOW_SIZE: shifts every open stream's window.
InitialWindowSetting(v) ==
    LET delta == v - initial_window_size
    IN  /\ Reading
        /\ initial_window_size' = v
        /\ streams' = [s \in Open |->
              [streams[s] EXCEPT !.send_window = Shifted(@, v), !.credit = @ + delta,
                                 !.raised = @ \/ delta > 0]]
        /\ ending' = \E s \in Open : Shifted(streams[s].send_window, v) > MaxWindow
        /\ pc' = "frames"
        /\ UNCHANGED <<conn_window, max_frame_size, closed_streams, cur, drr,
                       msgs, out, conn_credit>>

\* SETTINGS_MAX_FRAME_SIZE, validated by the codec.
MaxFrameSetting(v) ==
    /\ Reading
    /\ max_frame_size' = v
    /\ pc' = "frames"
    /\ UNCHANGED <<conn_window, initial_window_size, ending, streams,
                   closed_streams, cur, drr, msgs, out, conn_credit>>

\* RST_STREAM: the entry is dropped with its channels; once the budget for
\* resets before a response is spent, the connection ends with it.
ResetFrame(s) ==
    /\ Reading
    /\ s \in Open
    /\ \/ Remove(s) /\ UNCHANGED ending
       \/ streams' = Without(s) /\ ending' = TRUE /\ UNCHANGED closed_streams
    /\ pc' = "frames"
    /\ UNCHANGED <<conn_window, initial_window_size, max_frame_size, cur, drr,
                   msgs, out, conn_credit>>

\* A frame that leaves the sending half alone (PING, PRIORITY, SETTINGS ACK).
OtherFrame ==
    /\ Reading
    /\ pc' = "frames"
    /\ UNCHANGED <<conn, streams, closed_streams, cur, drr, msgs, out, conn_credit>>

\* GOAWAY of the peer, or a frame answered with GOAWAY: process_frames
\* returns true.
PeerGoAway ==
    /\ Reading
    /\ ending' = TRUE
    /\ pc' = "frames"
    /\ UNCHANGED <<conn_window, initial_window_size, max_frame_size, streams,
                   closed_streams, cur, drr, msgs, out, conn_credit>>

\* End of file, a read error or the idle timeout: the loop is left at once.
LoopEnds ==
    /\ pc = "select"
    /\ pc' = "closed"
    /\ UNCHANGED <<conn, streams, closed_streams, cur, drr, msgs, out, conn_credit>>
-----------------------------------------------------------------------------
\* pump_stream_data(cur), one turn of its loop per step, called by
\* handle_window_update ("pump") or handle_stream_msg ("msgpump").
PumpStreamData ==
    /\ pc \in {"pump", "msgpump"}
    /\ IF Stuck(cur)
          THEN /\ IF pc = "pump" THEN pc' = "frames" /\ cur' = NoStream
                                 ELSE pc' = "msgs" /\ cur' = cur
               /\ UNCHANGED <<conn_window, streams, closed_streams, out>>
          ELSE SendFront(cur, FrontAmount(cur), 0) /\ UNCHANGED <<pc, cur>>
    /\ UNCHANGED <<initial_window_size, max_frame_size, ending, drr, msgs,
                   conn_credit>>

\* drain_pending_data(None): ids is what the round has still to visit, in
\* any order (the order of a hash map).
DrrVisit(s) ==
    /\ pc = "drr"
    /\ s \in ids
    /\ ids' = ids \ {s}
    /\ IF s \in Blocked /\ streams[s].send_window > 0
          THEN /\ Update(s, [streams[s] EXCEPT !.deficit = @ + max_frame_size,
                                               !.raised = FALSE])
               /\ pc' = "drrpump" /\ cur' = s
          ELSE UNCHANGED <<streams, closed_streams, pc, cur>>
    /\ UNCHANGED <<conn, next_ids, progress, served, msgs, out, conn_credit>>

\* One frame per quantum: a frame with octets is charged to the deficit and
\* ends the visit.
MutTurn(n) == [spent |-> 0, over |-> FALSE]
Turn(n) == [spent |-> n, over |-> n > 0]

\* An empty chunk is sent whatever the deficit.
DrrStuck ==
    \/ Stuck(cur)
    \/ Head(streams[cur].pending_data).len > 0 /\ streams[cur].deficit = 0

\* pump_stream_data_drr(cur): empty chunks, then at most one frame.  Back in
\* drain_pending_data the stream is kept for the next round while it has
\* DATA, and an exhausted connection window breaks off the round.
DrrPump ==
    /\ pc = "drrpump"
    /\ LET n == MinOf(FrontAmount(cur), streams[cur].deficit)
       IN  IF DrrStuck
              THEN /\ pc' = "drr"
                   /\ UNCHANGED <<conn_window, streams, closed_streams, out,
                                  progress, served>>
              ELSE /\ SendFront(cur, n, Turn(n).spent)
                   /\ progress' = (progress \/ n > 0)
                   /\ served' = [served EXCEPT ![cur] = IF n > 0 THEN @ + 1 ELSE @]
                   /\ pc' = IF Turn(n).over THEN "drr" ELSE "drrpump"
    /\ next_ids' = IF pc' = "drr" /\ cur \in Blocked'
                      THEN next_ids \cup {cur} ELSE next_ids
    /\ ids' = IF conn_window' <= 0 THEN {} ELSE ids
    /\ cur' = IF pc' = "drr" THEN NoStream ELSE cur
    /\ UNCHANGED <<initial_window_size, max_frame_size, ending, msgs, conn_credit>>

\* The round is over: another one if it moved DATA and streams are left.
DrrRound ==
    /\ pc = "drr"
    /\ ids = {}
    /\ IF progress /\ conn_window > 0 /\ next_ids # {}
          THEN ids' = next_ids /\ UNCHANGED <<pc, served>>
          ELSE /\ ids' = {} /\ pc' = "frames"
               /\ served' = [s \in Streams |-> 0]
    /\ next_ids' = {}
    /\ progress' = FALSE
    /\ UNCHANGED <<conn, streams, closed_streams, cur, msgs, out, conn_credit>>
-----------------------------------------------------------------------------
(* drain_outbound: ids is the snapshot of streams with messages. *)
StartDrain ==
    /\ ids' = {s \in Open : streams[s].msg_rx # <<>>}
    /\ pc' = "drain"
    /\ UNCHANGED <<conn, streams, closed_streams, cur, next_ids, progress, served,
                   msgs, out, conn_credit>>

\* The buffered frames are handled; the read branch drains the channels.
EndOfRead == pc = "frames" /\ StartDrain

\* A wake; which messages send one is the subject of H2StreamTask.
Wake ==
    /\ pc = "select"
    /\ \E s \in Open : streams[s].msg_rx # <<>>
    /\ StartDrain

\* Flow-control backpressure: the channel is left alone while DATA waits.
LeftAlone(e) == e.pending_data # <<>>

\* The next stream of the snapshot: skipped while its DATA is blocked, else
\* its whole channel is taken.
DrainStream(s) ==
    /\ pc = "drain"
    /\ s \in ids
    /\ ids' = ids \ {s}
    /\ IF s \in Open /\ ~LeftAlone(streams[s])
          THEN /\ msgs' = streams[s].msg_rx
               /\ Update(s, [streams[s] EXCEPT !.msg_rx = <<>>])
               /\ pc' = "msgs" /\ cur' = s
          ELSE UNCHANGED <<msgs, streams, closed_streams, pc, cur>>
    /\ UNCHANGED <<conn, next_ids, progress, served, out, conn_credit>>

\* Flush, then back to select unless the loop ends.
EndDrain ==
    /\ pc = "drain"
    /\ ids = {}
    /\ pc' = IF ending THEN "closed" ELSE "select"
    /\ UNCHANGED <<conn, streams, closed_streams, cur, drr, msgs, out, conn_credit>>

\* DATA followed by the empty END_STREAM message absorbs it.
Merges == /\ Len(msgs) > 1
          /\ Head(msgs).type = "data"
          /\ IsEmptyEnd(msgs[2])
Rest == IF Merges THEN Tail(Tail(msgs)) ELSE Tail(msgs)

(* handle_stream_msg on the next message of the batch. *)
HandleData ==
    /\ Head(msgs).type = "data"
    /\ IF cur \notin Open \/ streams[cur].local_ended
          THEN UNCHANGED <<streams, closed_streams, pc>>
          ELSE /\ Update(cur, [streams[cur] EXCEPT
                      !.pending_data = Append(@, [len |-> Head(msgs).len,
                                                  end |-> Head(msgs).end \/ Merges]),
                      !.raised = FALSE])
               /\ pc' = "msgpump"
    /\ UNCHANGED out

\* Interim and final HEADERS, and trailers; the last two end at most once.
\* Only trailers need the entry.
HandleHeaders ==
    LET m == Head(msgs)
    IN  /\ m.type \in {"info", "headers", "trailers"}
        /\ CASE cur \in Open /\ (m.type = "info" \/ ~streams[cur].local_ended) ->
                  /\ Write(cur, m.type, 0, m.end)
                  /\ Update(cur, [streams[cur] EXCEPT !.local_ended = @ \/ m.end])
             [] cur \notin Open /\ m.type # "trailers" ->
                  /\ Write(cur, m.type, 0, m.end)
                  /\ UNCHANGED <<streams, closed_streams>>
             [] OTHER -> UNCHANGED <<streams, closed_streams, out>>
        /\ UNCHANGED pc

HandleReset ==
    /\ Head(msgs).type = "reset"
    /\ Write(cur, "reset", 0, FALSE)
    /\ Remove(cur)
    /\ UNCHANGED pc

\* The entry of a finished task whose END_STREAM is not sent yet is kept.
TaskDone(e) == [e EXCEPT !.task_done = TRUE]

HandleClosed ==
    /\ Head(msgs).type = "closed"
    /\ CASE cur \notin Open -> UNCHANGED <<streams, closed_streams>>
         [] cur \in Open /\ streams[cur].local_ended -> Remove(cur)
         [] OTHER -> Update(cur, TaskDone(streams[cur]))
    /\ UNCHANGED <<pc, out>>

HandleStreamMsg ==
    /\ pc = "msgs"
    /\ msgs # <<>>
    /\ msgs' = Rest
    /\ HandleData \/ HandleHeaders \/ HandleReset \/ HandleClosed
    /\ UNCHANGED <<conn, cur, drr, conn_credit>>

EndBatch ==
    /\ pc = "msgs"
    /\ msgs = <<>>
    /\ pc' = "drain" /\ cur' = NoStream
    /\ UNCHANGED <<conn, streams, closed_streams, drr, msgs, out, conn_credit>>
-----------------------------------------------------------------------------
(* Stream tasks (StreamDriver): the messages one may send, in order.  The  *)
(* body is a ConnBody, whose is_end_stream is always false.  A task whose  *)
(* entry is gone is severed and has no effect any more.                    *)
TaskMove(s, from) ==
    /\ pc \in {"select", "frames"}
    /\ s \in Open
    /\ streams[s].task = from
    /\ UNCHANGED <<conn, pc, cur, drr, msgs, out, conn_credit>>

\* A task with a parked send sends nothing more until the channel took it.
MutRoom(s) == Len(streams[s].msg_rx) <= ChanCap
Room(s) == Len(streams[s].msg_rx) < ChanCap

Send(s, from, to, m) ==
    /\ TaskMove(s, from)
    /\ Room(s)
    /\ Update(s, [streams[s] EXCEPT !.task = to, !.msg_rx = Append(@, m),
                                    !.produced = @ + m.len])

\* 100 Continue or 103 Early Hints before the response.
TaskInformational(s) == Send(s, "service", "service", Msg("info", 0, FALSE))

\* The final HEADERS: with END_STREAM for HEAD and for an empty body.
TaskResponse(s) ==
    \/ Send(s, "service", "body", Msg("headers", 0, FALSE))
    \/ Send(s, "service", "ended", Msg("headers", 0, TRUE))

\* A frame of the body (empty ones are skipped).
TaskData(s, n) ==
    /\ s \in Open /\ streams[s].produced + n <= MaxBody
    /\ Send(s, "body", "body", Msg("data", n, FALSE))

\* The body has no more frames: an empty DATA message with END_STREAM.
TaskBodyEnd(s) == Send(s, "body", "ended", Msg("data", 0, TRUE))

TaskTrailers(s) == Send(s, "body", "ended", Msg("trailers", 0, TRUE))

\* The body failed, before or after its first frame.
TaskBodyError(s) ==
    \E from \in {"service", "body"} : Send(s, from, "ended", Msg("reset", 0, FALSE))

\* The handler returned Err, or the body a frame of an unknown kind: the
\* task ends without a message.
TaskGivesUp(s) ==
    \E from \in {"service", "body"} :
        /\ TaskMove(s, from)
        /\ Update(s, [streams[s] EXCEPT !.task = "ended"])

\* On every exit path Closed is the last message.
TaskClosed(s) == Send(s, "ended", "closed", Msg("closed", 0, FALSE))
-----------------------------------------------------------------------------
Init ==
    /\ conn_window = ConnWindow
    /\ initial_window_size = StreamWindow
    /\ max_frame_size = FrameSize
    /\ ending = FALSE
    /\ streams = [s \in {} |-> 0]
    /\ closed_streams = {}
    /\ pc = "select" /\ cur = NoStream
    /\ ids = {} /\ next_ids = {} /\ progress = FALSE
    /\ served = [s \in Streams |-> 0]
    /\ msgs = <<>>
    /\ wire = [s \in Streams |-> [phase |-> "idle", octets |-> 0]]
    /\ conn_sent = 0
    /\ conn_credit = PeerConnWindow

PeerFrame ==
    \/ \E s \in Streams : OpenStream(s) \/ ResetFrame(s)
    \/ \E inc \in Increments : ConnWindowUpdate(inc)
    \/ \E s \in Streams, inc \in Increments : StreamWindowUpdate(s, inc)
    \/ \E v \in WindowSizes : InitialWindowSetting(v)
    \/ \E v \in FrameSizes : MaxFrameSetting(v)
    \/ OtherFrame
    \/ PeerGoAway
    \/ LoopEnds

ConnectionStep ==
    \/ PumpStreamData
    \/ \E s \in Streams : DrrVisit(s)
    \/ DrrPump
    \/ DrrRound
    \/ EndOfRead
    \/ Wake
    \/ \E s \in Streams : DrainStream(s)
    \/ EndDrain
    \/ HandleStreamMsg
    \/ EndBatch

TaskStep(s) ==
    \/ TaskInformational(s) \/ TaskResponse(s)
    \/ \E n \in ChunkLens : TaskData(s, n)
    \/ TaskBodyEnd(s) \/ TaskTrailers(s) \/ TaskBodyError(s)
    \/ TaskGivesUp(s) \/ TaskClosed(s)

Next == PeerFrame \/ ConnectionStep \/ \E s \in Streams : TaskStep(s)

Spec == Init /\ [][Next]_vars
-----------------------------------------------------------------------------
\* The connection's and the streams' state stays within its types: deficits,
\* octet counts and frame sizes never go negative.
TypeOK ==
    /\ conn_window \in Int /\ initial_window_size \in 0 .. MaxWindow
    /\ max_frame_size \in Nat \ {0} /\ ending \in BOOLEAN
    /\ Open \subseteq Streams /\ streams \in [Open -> StreamEntry]
    /\ closed_streams \subseteq Streams
    /\ pc \in Pc /\ cur \in Streams \cup {NoStream}
    /\ ids \subseteq Streams /\ next_ids \subseteq Streams /\ progress \in BOOLEAN
    /\ served \in [Streams -> Nat]
    /\ msgs \in Seq(StreamMsg)
    /\ wire \in [Streams -> [phase : Phase, octets : Nat]]
    /\ conn_sent \in Nat /\ conn_credit \in Nat

\* The windows the connection keeps are the ones the peer grants: what is
\* left is the credit minus the DATA written, for the connection and for
\* every open stream.
WindowsMatchCredit ==
    /\ ending \/ conn_window = conn_credit - conn_sent
    /\ \A s \in Open : streams[s].send_window = streams[s].credit - wire[s].octets

\* A DATA frame never overruns the credit of its stream or of the
\* connection, whatever WINDOW_UPDATE and SETTINGS came before it.
NeverOverrun ==
    [][\A s \in Streams : wire'[s].octets > wire[s].octets =>
            /\ wire'[s].octets <= streams[s].credit
            /\ conn_sent' <= conn_credit]_vars

\* The windows stay legal: the connection window is in 0 .. MaxWindow and no
\* stream window exceeds MaxWindow, unless the connection is ending for it.
WindowsLegal ==
    /\ conn_window \in 0 .. MaxWindow
    /\ ending \/ \A s \in Open : streams[s].send_window <= MaxWindow

\* Flow-control backpressure bounds what the connection holds for a stream:
\* queued chunks and messages taken but not handled yet never exceed one full
\* channel, however slow the peer is.
BufferBounded ==
    \A s \in Open :
        /\ Len(streams[s].pending_data) <= ChanCap
        /\ pc \in {"msgs", "msgpump"} /\ cur = s =>
              Len(streams[s].pending_data) + Len(msgs) <= ChanCap

\* A stream whose task is done and whose END_STREAM is written has no entry
\* left, whichever of the two came last.
RetiredWhenDone ==
    \A s \in Open : ~(streams[s].task_done /\ streams[s].local_ended)

\* A DATA frame that carries END_STREAM closes a complete body: every octet
\* the task produced is written by then.  (Trailers carry END_STREAM on another
\* path, handle_stream_msg, which does not wait for queued DATA.)
CompleteAtEnd ==
    [][\A s \in Streams :
          /\ wire'[s].phase = "ended" /\ wire[s].phase = "open"
          /\ pc \in {"pump", "msgpump", "drrpump"}
          => wire'[s].octets = streams[s].produced]_vars

\* Between reads no DATA waits behind open windows, unless it was SETTINGS
\* that opened the stream's window.
DrainedByWindowUpdate ==
    pc = "select" =>
        \A s \in Blocked : streams[s].raised \/ Available(streams[s]) <= 0

\* drain_pending_data(None) shares a reopened connection window: a stream
\* that still has DATA and window is never more than one frame behind any
\* other.
DrrFair ==
    pc = "drr" =>
        \A s \in Streams, t \in {i \in Blocked : streams[i].send_window > 0} :
            served[s] <= served[t] + 1
=============================================================================
