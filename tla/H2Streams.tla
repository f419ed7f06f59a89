------------------------------ MODULE H2Streams ------------------------------
(***************************************************************************)
(* The receiving half of an HTTP/2 connection (src/h2/connection) and the  *)
(* life of its streams: how HEADERS, CONTINUATION, DATA, RST_STREAM and    *)
(* WINDOW_UPDATE frames open, feed and end a stream, which violations cost *)
(* the stream and which the connection, and how a graceful shutdown ends   *)
(* the drive loop.                                                         *)
(*                                                                         *)
(* A frame is one step, the field block it completes included; the request *)
(* handler and its body reader move where the connection awaits.  Header   *)
(* fields are abstracted to the verdict of the HPACK decoder and of the    *)
(* parser.  The responses are the subject of H2FlowControl: here a task    *)
(* starts one, ends it, gives up or resets.                                *)
(***************************************************************************)
EXTENDS Integers, Sequences, FiniteSets

CONSTANTS
    MaxId,            \* stream identifiers are 1 .. MaxId, odd ones the peer's
    MaxConcurrent,    \* opts.max_concurrent_streams
    ClosedCap,        \* closed streams remembered (4096)
    MaxLocalErrors,   \* opts.max_local_error_reset_streams
    MaxPendingResets, \* opts.max_pending_accept_reset_streams
    MaxContinuation,  \* max_continuation_frames
    Lengths,          \* content-length values a request declares
    ChunkLens,        \* payload lengths of DATA frames
    MaxData,          \* bound: octets the peer sends on a stream
    WithBody          \* bound: streams opened without END_STREAM

ASSUME StreamsAssumption ==
    /\ MaxId \in Nat \ {0} /\ MaxConcurrent \in Nat /\ ClosedCap \in Nat \ {0}
    /\ MaxLocalErrors \in Nat /\ MaxPendingResets \in Nat
    /\ MaxContinuation \in Nat \ {0}
    /\ Lengths \subseteq Nat /\ ChunkLens \subseteq Nat
    /\ MaxData \in Nat /\ WithBody \subseteq Nat

VARIABLES
    streams,               \* open streams: id -> StreamEntry
    highest_stream_id,
    closed_streams, closed_order,   \* the closed set and its LRU order
    block_stream,          \* stream of the codec's open field block, or None
    local_error_resets, pending_accept_resets,
    closing,               \* a connection error is pending
    connection_error,      \* the first one: what it was about
    peer_goaway,           \* process_frames returned true
    graceful, graceful_last_stream,
    pc, ids,               \* place of the drive loop, streams left to drain
    handlers,              \* per id: request handlers started
    told,                  \* per id: what its request body was told so far
    reader,                \* per id: where the handler's body reader is
    goaways,               \* last-stream ids of the GOAWAY frames written
    unread                 \* per id: why its field block was never decoded

lru == <<closed_streams, closed_order>>
budgets == <<local_error_resets, pending_accept_resets>>
shutdown == <<graceful, graceful_last_stream>>
loop == <<pc, ids>>
errors == <<closing, connection_error, peer_goaway>>
body == <<told, reader>>
vars == <<streams, highest_stream_id, lru, block_stream, budgets, errors,
          shutdown, loop, handlers, body, goaways, unread>>

None == 0
NoLength == -1
Ids == 1 .. MaxId

\* What the decoder and the parser make of a complete field block.
Verdict == {"ok", "malformed", "toolarge", "corrupt"}
Block(verdict, connect, cl) == [verdict |-> verdict, connect |-> connect, cl |-> cl]
FieldBlocks ==
    {Block(v, FALSE, NoLength) : v \in Verdict \ {"ok"}}
    \cup {Block("ok", c, l) : c \in BOOLEAN, l \in Lengths \cup {NoLength}}

\* Where the stream task is.  "failed" and "cut": it gave up before, or after,
\* the response headers; "blocked": its END_STREAM waits for a window.
TaskState ==
    {"none", "running", "started", "done", "failed", "cut", "aborted", "blocked"}

\* body is the request body channel: none without a body, gone once the
\* handler dropped its receiver.
StreamEntry ==
    [request_started : BOOLEAN, response_started : BOOLEAN,
     remote_ended : BOOLEAN, trailers_seen : BOOLEAN, pending_end : BOOLEAN,
     continuation_frames : Nat, content_length : Lengths \cup {NoLength},
     data_sum : Nat, body : {"none", "open", "gone"}, task : TaskState,
     task_done : BOOLEAN]

Open == DOMAIN streams
With(s, i, e) == [j \in (DOMAIN s) \cup {i} |-> IF j = i THEN e ELSE s[j]]
Without(s, i) == [j \in (DOMAIN s) \ {i} |-> s[j]]

NoError == [why |-> "none", id |-> None]
-----------------------------------------------------------------------------
\* Remembers i, forgetting the oldest id at the bound.
MarkClosed(i) ==
    LET full == Cardinality(closed_streams) >= ClosedCap /\ closed_order # <<>>
        kept == IF full THEN closed_streams \ {Head(closed_order)} ELSE closed_streams
        rest == IF full THEN Tail(closed_order) ELSE closed_order
    IN  /\ closed_streams' = kept \cup {i}
        /\ closed_order' = IF i \in kept THEN rest ELSE Append(rest, i)

\* The field block of i is dropped before the HPACK decoder sees it.
Unread == {"no", "ignored", "refused", "ended", "flood"}
Skips(i, why) == unread' = [unread EXCEPT ![i] = why]

(* How a handler ends; s is the map of streams it leaves behind. *)
Goes(s) == streams' = s /\ UNCHANGED <<lru, errors, local_error_resets, goaways>>

\* goaway: the first error is kept, the frame names the highest stream.
ConnError(s, why, i) ==
    /\ streams' = s
    /\ connection_error' = IF connection_error = NoError
                              THEN [why |-> why, id |-> i] ELSE connection_error
    /\ closing' = TRUE /\ peer_goaway' = TRUE
    /\ goaways' = Append(goaways, highest_stream_id')
    /\ UNCHANGED <<lru, local_error_resets>>

\* stream_error: RST_STREAM, until the budget for them is spent.
Spent == local_error_resets >= MaxLocalErrors
StreamError(s, i) ==
    IF Spent
       THEN ConnError(s, "calm", i)
       ELSE /\ local_error_resets' = local_error_resets + 1
            /\ MarkClosed(i)
            /\ streams' = Without(s, i)
            /\ UNCHANGED <<errors, goaways>>

\* The stream is dropped without a frame.
Drops(s, i) ==
    /\ MarkClosed(i)
    /\ streams' = Without(s, i)
    /\ UNCHANGED <<errors, local_error_resets, goaways>>

\* The messages of a request body: DATA, trailers, the end, nothing more.
NextTold(t, m) ==
    CASE m = "data" /\ t \in {"none", "data"} -> "data"
      [] m = "trailers" /\ t \in {"none", "data"} -> "trailers"
      [] m = "end" /\ t \in {"none", "data", "trailers"} -> "end"
      [] OTHER -> "bad"

Mismatch(e) == e.content_length # NoLength /\ e.data_sum # e.content_length

Tells(i, t) == told' = [told EXCEPT ![i] = t] /\ UNCHANGED reader

\* end_request_body, after the body was told t.  The reader may be dropped
\* while the connection waits for room in the channel.
EndRequestBody(s, i, t) ==
    LET e == [s[i] EXCEPT !.remote_ended = TRUE]
    IN  CASE s[i].remote_ended -> Goes(s) /\ Tells(i, t)
          [] ~s[i].remote_ended /\ Mismatch(e) ->
                StreamError(With(s, i, e), i) /\ Tells(i, t)
          [] ~s[i].remote_ended /\ ~Mismatch(e) /\ e.body = "none" ->
                Goes(With(s, i, e)) /\ Tells(i, t)
          [] OTHER ->
                \/ e.body = "open" /\ Goes(With(s, i, e)) /\ Tells(i, NextTold(t, "end"))
                \/ /\ Drops(s, i)
                   /\ told' = [told EXCEPT ![i] = t]
                   /\ reader' = [reader EXCEPT ![i] = IF @ = "reading" THEN "dropped" ELSE @]
-----------------------------------------------------------------------------
\* A trailer section: at most one, and it ends the request.
FinalizeTrailers(s, i, b) ==
    LET e == s[i]
    IN  /\ CASE b.verdict = "malformed" \/ e.trailers_seen \/ ~e.pending_end ->
                   StreamError(s, i) /\ UNCHANGED body
             [] e.body # "open" -> Drops(s, i) /\ UNCHANGED body
             [] OTHER -> EndRequestBody(With(s, i, [e EXCEPT !.trailers_seen = TRUE]), i,
                                        NextTold(told[i], "trailers"))
        /\ UNCHANGED handlers

\* spawn_request, the body ended first when HEADERS carried END_STREAM; a
\* CONNECT request has no body reader.
SpawnRequest(s, i, b) ==
    LET end  == s[i].pending_end
        e    == [s[i] EXCEPT !.request_started = TRUE, !.content_length = b.cl,
                             !.remote_ended = end,
                             !.body = IF b.connect /\ @ = "open" THEN "gone" ELSE @]
    IN  /\ IF end /\ b.cl \notin {NoLength, 0}
              THEN StreamError(With(s, i, e), i) /\ UNCHANGED <<handlers, reader>>
              ELSE /\ Goes(With(s, i, [e EXCEPT !.task = "running"]))
                   /\ handlers' = [handlers EXCEPT ![i] = @ + 1]
                   /\ reader' = [reader EXCEPT ![i] =
                                    IF e.body = "open" THEN "reading" ELSE "none"]
        /\ UNCHANGED told

\* finalize_field_block.
Finalize(s, i, b) ==
    CASE b.verdict = "toolarge" -> StreamError(s, i) /\ UNCHANGED <<handlers, body>>
      [] b.verdict = "corrupt" ->
            ConnError(s, "compression", i) /\ UNCHANGED <<handlers, body>>
      [] s[i].request_started /\ b.verdict \in {"ok", "malformed"} ->
            FinalizeTrailers(s, i, b)
      [] ~s[i].request_started /\ b.verdict = "malformed" ->
            StreamError(s, i) /\ UNCHANGED <<handlers, body>>
      [] OTHER -> SpawnRequest(s, i, b)

\* The block of i is complete.
MutComplete(e) == e
Complete(e) == [e EXCEPT !.continuation_frames = 0]

\* The block of i stays open: check_continuation_flood.
KeepsBlock(i, e) ==
    LET f == [e EXCEPT !.continuation_frames = @ + 1]
    IN  IF f.continuation_frames > MaxContinuation
           THEN /\ block_stream' = None
                /\ Skips(i, "flood")
                /\ StreamError(With(streams, i, f), i)
           ELSE /\ block_stream' = i
                /\ Goes(With(streams, i, f))
                /\ UNCHANGED unread

NewEntry(end) ==
    [request_started |-> FALSE, response_started |-> FALSE, remote_ended |-> FALSE,
     trailers_seen |-> FALSE, pending_end |-> end, continuation_frames |-> 0,
     content_length |-> NoLength, data_sum |-> 0,
     body |-> IF end THEN "none" ELSE "open", task |-> "none", task_done |-> FALSE]
-----------------------------------------------------------------------------
(* Frames.  With a field block open the codec lets only its CONTINUATION   *)
(* through; an error ends process_frames.                                  *)
Reading == pc \in {"select", "frames"} /\ ~peer_goaway
Frame == Reading /\ block_stream = None /\ pc' = "frames"
Untouched == UNCHANGED <<shutdown, ids>>

\* A frame that opens no stream.
Follows == Reading /\ pc' = "frames" /\ UNCHANGED highest_stream_id

\* After the graceful GOAWAY newer streams are ignored.
MutIgnored(i) == FALSE
Ignored(i) == graceful /\ i > graceful_last_stream

MutOutOfOrder(i) == i % 2 = 0
OutOfOrder(i) == i % 2 = 0 \/ i <= highest_stream_id

\* open_request_stream up to the concurrency limit; what a stream that is
\* let in does is next.
Refuses(i) ==
    /\ highest_stream_id' = i
    /\ Skips(i, "refused")
    /\ Goes(streams)
    /\ UNCHANGED <<handlers, body>>

IsFull == Cardinality(Open) >= MaxConcurrent

\* HEADERS with END_HEADERS carrying block b.
Headers(i, end, b) ==
    /\ Frame
    /\ CASE Ignored(i) ->
              /\ Skips(i, "ignored")
              /\ Goes(streams) /\ UNCHANGED <<highest_stream_id, handlers, body>>
         [] ~Ignored(i) /\ i \in Open /\ streams[i].remote_ended ->
              /\ Skips(i, "ended") /\ UNCHANGED <<highest_stream_id, handlers, body>>
              /\ StreamError(streams, i)
         [] ~Ignored(i) /\ i \in Open /\ ~streams[i].remote_ended ->
              /\ UNCHANGED <<highest_stream_id, unread>>
              /\ Finalize(With(streams, i,
                               [Complete(streams[i]) EXCEPT !.pending_end = end]), i, b)
         [] ~Ignored(i) /\ i \notin Open /\ OutOfOrder(i) ->
              /\ UNCHANGED <<highest_stream_id, handlers, body, unread>>
              /\ ConnError(streams, "order", i)
         [] ~Ignored(i) /\ i \notin Open /\ ~OutOfOrder(i) /\ IsFull -> Refuses(i)
         [] OTHER ->
              /\ highest_stream_id' = i
              /\ Finalize(With(streams, i, NewEntry(end)), i, b)
              /\ UNCHANGED unread
    /\ Untouched /\ UNCHANGED <<block_stream, pending_accept_resets>>

\* HEADERS without END_HEADERS: the block stays open in the codec, whatever
\* becomes of the stream.
HeadersOpen(i, end) ==
    /\ Frame
    /\ CASE Ignored(i) ->
              /\ block_stream' = i /\ Skips(i, "ignored")
              /\ Goes(streams) /\ UNCHANGED highest_stream_id
         [] ~Ignored(i) /\ i \in Open /\ streams[i].remote_ended ->
              /\ block_stream' = i /\ Skips(i, "ended")
              /\ UNCHANGED highest_stream_id /\ StreamError(streams, i)
         [] ~Ignored(i) /\ i \in Open /\ ~streams[i].remote_ended ->
              /\ UNCHANGED highest_stream_id
              /\ KeepsBlock(i, [streams[i] EXCEPT !.pending_end = end])
         [] ~Ignored(i) /\ i \notin Open /\ OutOfOrder(i) ->
              /\ block_stream' = i /\ UNCHANGED <<highest_stream_id, unread>>
              /\ ConnError(streams, "order", i)
         [] ~Ignored(i) /\ i \notin Open /\ ~OutOfOrder(i) /\ IsFull ->
              /\ highest_stream_id' = i
              /\ block_stream' = i /\ Skips(i, "refused")
              /\ Goes(streams)
         [] OTHER ->
              /\ highest_stream_id' = i
              /\ block_stream' = i
              /\ Goes(With(streams, i, [NewEntry(end) EXCEPT !.continuation_frames = 1]))
              /\ UNCHANGED unread
    /\ Untouched /\ UNCHANGED <<pending_accept_resets, handlers, body>>

\* CONTINUATION of the open block, last (with block b) or not; on a stream
\* without an entry it costs the connection.
Continuation(b) ==
    LET i == block_stream
    IN  /\ Follows
        /\ block_stream # None
        /\ block_stream' = None
        /\ IF i \in Open
              THEN Finalize(With(streams, i, Complete(streams[i])), i, b)
              ELSE ConnError(streams, "continuation", i) /\ UNCHANGED <<handlers, body>>
        /\ Untouched /\ UNCHANGED <<pending_accept_resets, unread>>

ContinuationOpen ==
    LET i == block_stream
    IN  /\ Follows
        /\ block_stream # None
        /\ IF i \in Open
              THEN KeepsBlock(i, streams[i])
              ELSE ConnError(streams, "continuation", i) /\ UNCHANGED <<block_stream, unread>>
        /\ Untouched
        /\ UNCHANGED <<pending_accept_resets, handlers, body>>

\* The codec's continuation discipline: CONTINUATION without an open block
\* is stray; any frame but the right CONTINUATION breaks an open block.
StrayContinuation(i) ==
    /\ Follows /\ block_stream = None
    /\ ConnError(streams, "stray", i)
    /\ Untouched
    /\ UNCHANGED <<block_stream, pending_accept_resets, handlers, body,
                   unread>>

BrokenBlock ==
    /\ Follows
    /\ block_stream # None
    /\ ConnError(streams, "codec", block_stream)
    /\ Untouched
    /\ UNCHANGED <<block_stream, pending_accept_resets, handlers, body,
                   unread>>

\* DATA that does not belong: before the request or after its end.
MutBadData(e) == ~e.request_started
BadData(e) == ~e.request_started \/ e.remote_ended

\* DATA with octets, or empty with END_STREAM (empty DATA is ignored).
Data(i, len, end) ==
    /\ Follows /\ block_stream = None
    /\ len > 0 \/ end
    /\ CASE i \notin Open /\ i \in closed_streams ->
              Goes(streams) /\ UNCHANGED body
         [] i \notin Open /\ i \notin closed_streams ->
              ConnError(streams, "idle", i) /\ UNCHANGED body
         [] i \in Open /\ BadData(streams[i]) ->
              StreamError(streams, i) /\ UNCHANGED body
         [] i \in Open /\ ~BadData(streams[i]) /\ streams[i].body # "open" ->
              Drops(streams, i) /\ UNCHANGED body
         [] OTHER ->
              LET e == [streams[i] EXCEPT !.data_sum = @ + len]
                  s == With(streams, i, e)
                  t == NextTold(told[i], "data")
              IN  /\ e.data_sum <= MaxData
                  /\ IF end THEN EndRequestBody(s, i, t)
                            ELSE Goes(s) /\ Tells(i, t)
    /\ Untouched
    /\ UNCHANGED <<block_stream, pending_accept_resets, handlers,
                   unread>>

\* RST_STREAM: one before any response counts against a budget of its own.
ResetFrame(i) ==
    /\ Follows /\ block_stream = None
    /\ IF i \notin Open
          THEN /\ IF i \in closed_streams THEN Goes(streams)
                                          ELSE ConnError(streams, "idle", i)
               /\ UNCHANGED pending_accept_resets
          ELSE IF streams[i].response_started
                  THEN Drops(streams, i) /\ UNCHANGED pending_accept_resets
          ELSE IF pending_accept_resets >= MaxPendingResets
                  THEN /\ ConnError(Without(streams, i), "calm", i)
                       /\ UNCHANGED pending_accept_resets
                  ELSE /\ Drops(streams, i)
                       /\ pending_accept_resets' = pending_accept_resets + 1
    /\ Untouched
    /\ UNCHANGED <<block_stream, handlers, body, unread>>

\* WINDOW_UPDATE on a stream: it may overflow the window, or let the last
\* DATA of a finished task go.  One on the connection lets several go: a
\* step for each.
WindowUpdate(i) ==
    /\ Follows /\ block_stream = None
    /\ CASE i \notin Open /\ i \in closed_streams -> Goes(streams)
         [] i \notin Open /\ i \notin closed_streams -> ConnError(streams, "idle", i)
         [] OTHER -> \/ StreamError(streams, i)
                     \/ IF streams[i].task = "blocked" THEN Drops(streams, i)
                                                       ELSE Goes(streams)
    /\ Untouched
    /\ UNCHANGED <<block_stream, pending_accept_resets, handlers, body,
                   unread>>

\* PUSH_PROMISE, a frame the codec rejects, or one that overflows a window
\* the whole connection depends on.
BadFrame ==
    /\ Follows /\ block_stream = None
    /\ \E why \in {"push", "codec", "flow"} : ConnError(streams, why, None)
    /\ Untouched
    /\ UNCHANGED <<block_stream, pending_accept_resets, handlers, body,
                   unread>>

PeerGoAway ==
    /\ Follows /\ block_stream = None
    /\ peer_goaway' = TRUE
    /\ Untouched
    /\ UNCHANGED <<streams, lru, block_stream, budgets, closing,
                   connection_error, handlers, body, goaways, unread>>
-----------------------------------------------------------------------------
(* The drive loop. *)
rest == <<highest_stream_id, block_stream, budgets, errors, handlers, body, unread>>

\* A task has messages the connection has not applied yet.
Pending(e) ==
    \/ e.task = "started" /\ ~e.response_started
    \/ e.task \in {"done", "aborted"}
    \/ e.task \in {"failed", "cut"} /\ ~e.task_done

StartDrain ==
    /\ ids' = {i \in Open : Pending(streams[i])}
    /\ pc' = "drain"
    /\ UNCHANGED <<streams, lru, shutdown, goaways, rest>>

EndOfRead == pc = "frames" /\ StartDrain
Wake == pc = "select" /\ (\E i \in Open : Pending(streams[i])) /\ StartDrain

\* What drain_outbound makes of the messages of a stream: a response that
\* started, one that ended (its END_STREAM written or waiting for a window),
\* a task that gave up, a reset.
DrainStream(i) ==
    /\ pc = "drain"
    /\ i \in ids
    /\ ids' = ids \ {i}
    /\ LET e == streams[i]
           Kept(f) == streams' = With(streams, i, f) /\ UNCHANGED lru
       IN  CASE e.task = "started" -> Kept([e EXCEPT !.response_started = TRUE])
             [] e.task = "done" ->
                   \/ MarkClosed(i) /\ streams' = Without(streams, i)
                   \/ Kept([e EXCEPT !.response_started = TRUE, !.task_done = TRUE,
                                     !.task = "blocked"])
             [] e.task = "aborted" -> MarkClosed(i) /\ streams' = Without(streams, i)
             [] OTHER -> Kept([e EXCEPT !.task_done = TRUE,
                                        !.response_started = @ \/ e.task = "cut"])
    /\ UNCHANGED <<pc, shutdown, goaways, rest>>

\* finish_graceful_shutdown, unless an error already wrote a GOAWAY.
Finished(g) == IF graceful' /\ ~closing THEN Append(g, graceful_last_stream') ELSE g

MutLoopOver == peer_goaway
LoopOver == peer_goaway \/ (graceful' /\ Open = {})

EndDrain ==
    /\ pc = "drain"
    /\ ids = {}
    /\ UNCHANGED shutdown
    /\ IF LoopOver THEN pc' = "ended" /\ goaways' = Finished(goaways)
                   ELSE pc' = "select" /\ UNCHANGED goaways
    /\ UNCHANGED <<streams, lru, ids, rest>>

BeginGraceful ==
    /\ graceful' = TRUE
    /\ graceful_last_stream' = highest_stream_id

\* The shutdown token: GOAWAY, and no drain of the channels.
Shutdown ==
    /\ pc = "select"
    /\ ~graceful
    /\ BeginGraceful
    /\ LET g == Append(goaways, highest_stream_id)
       IN  IF LoopOver THEN pc' = "ended" /\ goaways' = Finished(g)
                       ELSE goaways' = g /\ UNCHANGED pc
    /\ UNCHANGED <<streams, lru, ids, rest>>

\* The idle timeout: begin_graceful_shutdown, then the loop is left.
IdleTimeout ==
    /\ pc = "select"
    /\ pc' = "ended"
    /\ IF graceful THEN UNCHANGED shutdown /\ goaways' = Finished(goaways)
                   ELSE BeginGraceful /\ goaways' = Finished(Append(goaways, highest_stream_id))
    /\ UNCHANGED <<streams, lru, ids, rest>>

\* End of file leaves the loop; a read error leaves handle at once.
EndOfFile ==
    /\ pc = "select"
    /\ pc' = "ended"
    /\ UNCHANGED shutdown
    /\ goaways' = Finished(goaways) \/ UNCHANGED goaways
    /\ UNCHANGED <<streams, lru, ids, rest>>
-----------------------------------------------------------------------------
(* Stream tasks and body readers, at the connection's awaits. *)
Task(i, from, to) ==
    /\ pc \in {"select", "frames"}
    /\ i \in Open
    /\ streams[i].task \in from
    /\ streams' = [streams EXCEPT ![i].task = to]
    /\ UNCHANGED <<lru, shutdown, loop, goaways, rest>>

TaskResponds(i) == Task(i, {"running"}, "started")
TaskDone(i) == Task(i, {"running", "started"}, "done")
TaskFails(i) == Task(i, {"running"}, "failed") \/ Task(i, {"started"}, "cut")
TaskAborts(i) == Task(i, {"running", "started"}, "aborted")

\* The handler drops its body reader.
DropReader(i) ==
    /\ pc \in {"select", "frames"}
    /\ reader[i] = "reading"
    /\ reader' = [reader EXCEPT ![i] = "dropped"]
    /\ streams' = IF i \in Open THEN [streams EXCEPT ![i].body = "gone"] ELSE streams
    /\ UNCHANGED <<lru, shutdown, loop, goaways, highest_stream_id, block_stream, budgets,
                   errors, handlers, told, unread>>

\* H2Body yields None after EndStream, and when the connection dropped the
\* channel.
ReaderEnds(i) ==
    /\ pc \in {"select", "frames"}
    /\ reader[i] = "reading"
    /\ told[i] = "end" \/ i \notin Open
    /\ reader' = [reader EXCEPT ![i] = "eof"]
    /\ UNCHANGED <<streams, lru, shutdown, loop, goaways, highest_stream_id, block_stream, budgets,
                   errors, handlers, told, unread>>
-----------------------------------------------------------------------------
Init ==
    /\ streams = [i \in {} |-> 0]
    /\ highest_stream_id = 0
    /\ closed_streams = {} /\ closed_order = <<>>
    /\ block_stream = None
    /\ local_error_resets = 0 /\ pending_accept_resets = 0
    /\ closing = FALSE /\ connection_error = NoError /\ peer_goaway = FALSE
    /\ graceful = FALSE /\ graceful_last_stream = 0
    /\ pc = "select" /\ ids = {}
    /\ handlers = [i \in Ids |-> 0]
    /\ told = [i \in Ids |-> "none"]
    /\ reader = [i \in Ids |-> "none"]
    /\ goaways = <<>>
    /\ unread = [i \in Ids |-> "no"]

PeerFrame ==
    \/ \E i \in Ids, end \in BOOLEAN, b \in FieldBlocks :
            (end \/ i \in WithBody) /\ Headers(i, end, b)
    \/ \E i \in Ids, end \in BOOLEAN : (end \/ i \in WithBody) /\ HeadersOpen(i, end)
    \/ \E b \in FieldBlocks : Continuation(b)
    \/ ContinuationOpen
    \/ \E i \in Ids : StrayContinuation(i)
    \/ BrokenBlock
    \/ \E i \in Ids, len \in ChunkLens, end \in BOOLEAN : Data(i, len, end)
    \/ \E i \in Ids : ResetFrame(i) \/ WindowUpdate(i)
    \/ BadFrame
    \/ PeerGoAway

ConnectionStep ==
    \/ EndOfRead
    \/ Wake
    \/ \E i \in Ids : DrainStream(i)
    \/ EndDrain

LoopEvent == Shutdown \/ IdleTimeout \/ EndOfFile

TaskStep(i) ==
    \/ TaskResponds(i) \/ TaskDone(i) \/ TaskFails(i) \/ TaskAborts(i)
    \/ DropReader(i) \/ ReaderEnds(i)

Next == PeerFrame \/ ConnectionStep \/ LoopEvent \/ \E i \in Ids : TaskStep(i)

Spec == Init /\ [][Next]_vars
-----------------------------------------------------------------------------
\* A stream's request is handed to the handler at most once, whatever frames
\* the peer sends on the id later, also after the id left the closed set.
HandledOnce == \A i \in Ids : handlers[i] <= 1

\* The GOAWAY frames of graceful shutdown, of the end of the drain and of a
\* connection error agree: the last-stream id never rises from one to the
\* next, and no request above any of them is ever handled, so the peer may
\* retry those streams elsewhere.
GoAwayTruthful ==
    \A k \in DOMAIN goaways :
        /\ \A j \in 1 .. k - 1 : goaways[k] <= goaways[j]
        /\ \A i \in Ids : handlers[i] > 0 => i <= goaways[k]

\* The open field block of the codec and the frame counts of the entries
\* agree: while the connection goes on, a stream counts frames exactly when
\* the codec has its block open, and never past the flood limit.
OneOpenBlock ==
    ~closing => \A i \in Open :
        /\ streams[i].continuation_frames > 0 <=> block_stream = i
        /\ streams[i].continuation_frames <= MaxContinuation

\* The handler's body reader is told DATA, trailers at most once, the end
\* once and nothing after it, and when it is told the end it has got as many
\* octets as the request declared (handle_data_frame, finalize_trailers,
\* end_request_body).
BodyAsDeclared ==
    /\ \A i \in Ids : told[i] # "bad"
    /\ \A i \in Open : told[i] = "end" /\ streams[i].content_length # NoLength =>
          streams[i].data_sum = streams[i].content_length
-----------------------------------------------------------------------------
\* The connection task is polled when it can move; a handler that keeps being
\* polled ends its response; the peer, if its window keeps a response
\* waiting, opens it.
Fairness ==
    /\ WF_vars(ConnectionStep)
    /\ \A i \in Ids : SF_vars(TaskDone(i))
    /\ \A i \in Ids : SF_vars(i \in Open /\ streams[i].task = "blocked" /\ WindowUpdate(i))

FairSpec == Spec /\ Fairness

\* What keeps a stream open for good: a field block the peer never completes,
\* or a task that gave up without END_STREAM.
Lingers ==
    block_stream # None \/ \E i \in Open : streams[i].task \in {"failed", "cut"}

\* A graceful shutdown ends the connection once the open streams have
\* finished, unless one lingers.
GracefulDrains == graceful ~> (pc = "ended" \/ Lingers)
-----------------------------------------------------------------------------
\* The request decoder "sees every header block on this connection"
\* (Connection), as long as the connection goes on.
SeesEveryBlock == ~closing => \A i \in Ids : unread[i] = "no"
=============================================================================
