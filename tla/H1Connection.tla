---------------------------- MODULE H1Connection ----------------------------
(***************************************************************************)
(* An HTTP/1 connection (src/h1): the loop that reads a request head, runs *)
(* the request handler beside the reader of the request body, answers, and *)
(* reuses, upgrades or ends the connection.  The client is the             *)
(* environment: it sends requests token by token, pipelined if it likes,   *)
(* waits for 100 Continue when it asked for it, and may close or vanish.   *)
(*                                                                         *)
(* The reader, the handler and the writer of early hints are futures of    *)
(* one select; each step here runs one of them to its next await.  A write *)
(* accepts one token at a time, a read takes all that has arrived.         *)
(***************************************************************************)
EXTENDS H1Message, FiniteSets

CONSTANTS
    Scenarios,      \* a sequence of requests with the handler's part: [req, call, resp]
    MaxRequests,    \* requests a client sends
    MaxHead,        \* max_header_size, in tokens
    BodyChannel,    \* capacity of the channel of request body frames
    BatchThreshold, \* WRITE_BUF_BATCH_THRESHOLD, in tokens
    Vectored,       \* the stream and the options use vectored writes
    HeaderTimeout,  \* header_read_timeout is set
    ClientCloses    \* the client may close or vanish

ASSUME H1BoundsAssumption ==
    /\ MaxRequests \in Nat /\ MaxHead \in Nat \ {0} /\ BodyChannel \in Nat \ {0}
    /\ BatchThreshold \in Nat \ {0} /\ {Vectored, HeaderTimeout, ClientCloses} \subseteq BOOLEAN

VARIABLES
    pc,         \* where handle_with_error_fn is
    client,     \* what it still sends, its requests, whether it closed or vanished
    net,        \* sent and not yet read
    read_buf,   \* read and not yet taken
    scan,       \* locals of get_head
    conn,       \* connection_idle, requests taken, cancelled token, result
    reader,     \* the body reader: stage, tokens left, parked in a read, frame and 100 on their way
    chan,       \* the channel of body frames: content, sender and receiver alive
    signal,     \* ContinueSignal: wanted, the Notify's permit; and continue_sent
    handler,    \* the handler: the body it read, early hints asked for and on their way
    out,        \* WriteBuf: content, tokens written by an unfinished flush, body frames left
    seen        \* how far the client has read the responses

vars == <<pc, client, net, read_buf, scan, conn, reader, chan, signal, handler, out, seen>>

NoReader  == [st |-> "done", left |-> 0, parked |-> FALSE, frame |-> <<>>, cont |-> <<>>]
NoChannel == [q |-> <<>>, tx |-> FALSE, rx |-> FALSE]
NoSignal  == [wanted |-> FALSE, notify |-> FALSE, sent |-> FALSE]
NoHandler == [got |-> <<>>, hinted |-> FALSE, hint |-> <<>>]
NoOutput  == [buf |-> <<>>, flat |-> 0, left |-> 0, st |-> "off", first |-> TRUE]

Init ==
    /\ pc = "head" /\ net = <<>> /\ read_buf = <<>> /\ scan = NewHead /\ seen = NewClient
    /\ client = [todo |-> <<>>, scen |-> <<>>, eof |-> FALSE, gone |-> FALSE]
    /\ conn = [idle |-> FALSE, served |-> 0, cancelled |-> FALSE, result |-> "none", left |-> <<>>]
    /\ reader = NoReader /\ chan = NoChannel /\ signal = NoSignal
    /\ handler = NoHandler /\ out = NoOutput

Request(i) == Scenarios[client.scen[i]].req
Requests == [i \in 1..Len(client.scen) |-> Request(i)]
Current == Scenarios[client.scen[conn.served]]
Req  == Current.req
Call == Current.call
Resp == Current.resp

----------------------------------------------------------------------------
\* The client.

ClientStarts(s) ==
    /\ client.todo = <<>> /\ ~client.eof /\ Len(client.scen) < MaxRequests /\ pc # "returned"
    /\ client' = [client EXCEPT !.todo = RequestHead(Scenarios[s].req) \o RequestBody(Scenarios[s].req), !.scen = Append(@, s)]
    /\ UNCHANGED <<pc, net, read_buf, scan, conn, reader, chan, signal, handler, out, seen>>

\* A client that expects 100 Continue sends the body once 100 or the answer has come.
LastRequest == Request(Len(client.scen))
AtBody == Len(client.todo) = Len(RequestBody(LastRequest))
GoAhead == seen.i >= Len(client.scen) \/ (seen.i = Len(client.scen) - 1 /\ seen.cont)
ClientSends ==
    /\ client.todo # <<>> /\ ~client.eof /\ pc # "returned"
    /\ LastRequest.expect /\ AtBody => GoAhead
    /\ net' = Append(net, Head(client.todo))
    /\ client' = [client EXCEPT !.todo = Tail(@)]
    /\ UNCHANGED <<pc, read_buf, scan, conn, reader, chan, signal, handler, out, seen>>

ClientEnds ==
    /\ ClientCloses /\ ~client.eof /\ pc # "returned"
    /\ \E gone \in BOOLEAN : client' = [client EXCEPT !.eof = TRUE, !.gone = gone]
    /\ UNCHANGED <<pc, net, read_buf, scan, conn, reader, chan, signal, handler, out, seen>>

Cancel ==
    /\ ~conn.cancelled /\ pc # "returned"
    /\ conn' = [conn EXCEPT !.cancelled = TRUE]
    /\ UNCHANGED <<pc, client, net, read_buf, scan, reader, chan, signal, handler, out, seen>>

----------------------------------------------------------------------------
\* The end of handle: everything is dropped.

Returned(result) ==
    /\ pc' = "returned"
    /\ conn' = [conn EXCEPT !.result = result]
    /\ scan' = NewHead /\ reader' = NoReader /\ chan' = NoChannel /\ signal' = NoSignal
    /\ handler' = NoHandler /\ out' = NoOutput

\* A read or a write fails once the client has vanished; an idle connection ends without
\* an error.
StreamFails ==
    /\ client.gone /\ pc # "returned"
    /\ Returned(IF pc = "head" /\ conn.idle THEN "ok" ELSE "error")
    /\ UNCHANGED <<client, net, read_buf, seen>>

----------------------------------------------------------------------------
\* read_request under header_read_timeout.

\* The response of error_fn is written with Connection: close, then handle fails.
WriteError(result) ==
    /\ pc' = "error"
    /\ out' = [NoOutput EXCEPT !.buf = ErrorResponse, !.st = "flush"]
    /\ conn' = [conn EXCEPT !.result = result]
    /\ scan' = NewHead
    /\ UNCHANGED <<client, reader, chan, signal, handler, seen>>

Stage(r) ==
    CASE r.body = "chunked"             -> "size"
      [] r.body = "length" /\ r.n > 0  -> "len"
      [] OTHER                          -> "done"

\* A request was read: its body is read into a channel while request_fn runs.
Serve(rest, fill) ==
    /\ pc' = "serve"
    /\ read_buf' = rest
    /\ scan' = NewHead
    /\ conn' = [conn EXCEPT !.served = @ + 1, !.idle = @ /\ ~fill]
    /\ \E r \in {Request(conn.served + 1)} :
          /\ reader' = [NoReader EXCEPT !.st = Stage(r), !.left = r.n]
          /\ chan' = [q |-> <<>>, tx |-> Stage(r) # "done", rx |-> TRUE]
    /\ signal' = NoSignal
    /\ handler' = NoHandler
    /\ UNCHANGED <<client, out, seen>>

HaveToRead == scan.bytes_read > 0 \/ read_buf = <<>>

\* One turn of get_head: over what is left in the buffer, or after a read.
HeadTurn ==
    /\ pc = "head" /\ ~(conn.cancelled /\ HeaderTimeout)
    /\ HaveToRead => net # <<>>
    /\ \E fill \in {HaveToRead} :
       \E buf \in {IF fill THEN read_buf \o net ELSE read_buf} :
       \E s \in {get_head(buf, scan, MaxHead)} :
          /\ net' = IF fill THEN <<>> ELSE net
          /\ CASE s.verdict = "done" -> Serve(s.rest, fill)
               [] s.verdict = "bad"  -> WriteError("bad") /\ read_buf' = buf
               [] OTHER ->
                    /\ scan' = s.h /\ read_buf' = buf
                    /\ conn' = [conn EXCEPT !.idle = @ /\ ~fill]
                    /\ UNCHANGED <<pc, client, reader, chan, signal, handler, out, seen>>

HeadEof ==
    /\ pc = "head" /\ client.eof /\ ~client.gone /\ net = <<>> /\ HaveToRead
    /\ UNCHANGED <<net, read_buf>>
    /\ IF scan.trimmed = -1 \/ conn.idle
       THEN Returned("ok") /\ UNCHANGED <<client, seen>>
       ELSE WriteError("eof")

HeadTimesOut ==
    /\ pc = "head" /\ HeaderTimeout
    /\ UNCHANGED <<net, read_buf>>
    /\ IF conn.idle
       THEN Returned("ok") /\ UNCHANGED <<client, seen>>
       ELSE WriteError("timeout")

\* The token is watched only inside the timeout.
HeadCancelled ==
    /\ pc = "head" /\ HeaderTimeout /\ conn.cancelled
    /\ Returned("ok")
    /\ UNCHANGED <<client, net, read_buf, seen>>

----------------------------------------------------------------------------
\* The body reader (read_body_fn, read_chunked_body_fn), until the response is written.

Unread == reader.st # "done" \/ reader.frame # <<>>
Reading == pc \in {"serve", "drain"} /\ Unread
Idle == reader.frame = <<>> /\ reader.cont = <<>>

\* Whether the next piece of the body is in the buffer.
MutHave == Len(read_buf) >= 1
Have == Len(read_buf) >= IF reader.st = "data" THEN 2 ELSE 1

\* The handler asked for the body and 100 Continue is still to be sent.
Due == Req.expect /\ signal.wanted /\ ~signal.sent

\* read_body_fn looks at the top of its loop, read_body_chunk before it reads.
AtContinue == Idle /\ reader.st # "trailers" /\ (reader.st = "len" \/ ~Have)

SendContinue ==
    /\ Reading /\ ~reader.parked /\ AtContinue /\ Due
    /\ signal' = [signal EXCEPT !.sent = TRUE]
    /\ reader' = [reader EXCEPT !.cont = Continue100]
    /\ UNCHANGED <<pc, client, net, read_buf, scan, conn, chan, handler, out, seen>>

WriteContinue ==
    /\ Reading /\ reader.cont # <<>> /\ ~client.gone
    /\ seen' = Reads(Requests, seen, Head(reader.cont))
    /\ reader' = [reader EXCEPT !.cont = Tail(@)]
    /\ UNCHANGED <<pc, client, net, read_buf, scan, conn, chan, signal, handler, out>>

\* fill_buf_or_wanted: the stage waits for the socket and, but for trailers, for the Notify.
Notified == reader.st # "trailers" /\ Req.expect /\ signal.notify
Park ==
    /\ Reading /\ ~reader.parked /\ Idle /\ ~Have /\ ~(AtContinue /\ Due)
    /\ reader' = [reader EXCEPT !.parked = TRUE]
    /\ UNCHANGED <<pc, client, net, read_buf, scan, conn, chan, signal, handler, out, seen>>

\* A permit is taken first; unless it brings 100 Continue the socket is tried next.
SocketTried == Reading /\ reader.parked /\ (Notified => ~Due)
PermitTaken == [signal EXCEPT !.notify = @ /\ ~Notified]

Fill ==
    /\ SocketTried /\ net # <<>>
    /\ read_buf' = read_buf \o net /\ net' = <<>>
    /\ reader' = [reader EXCEPT !.parked = FALSE]
    /\ signal' = PermitTaken
    /\ UNCHANGED <<pc, client, scan, conn, chan, handler, out, seen>>

Woken ==
    /\ Reading /\ reader.parked /\ Notified /\ (Due \/ (net = <<>> /\ ~client.eof))
    /\ signal' = PermitTaken
    /\ reader' = [reader EXCEPT !.parked = ~Due]
    /\ UNCHANGED <<pc, client, net, read_buf, scan, conn, chan, handler, out, seen>>

\* The body of a given length ends at the end of the stream; a chunked one is an error.
BodyEof ==
    /\ SocketTried /\ net = <<>> /\ client.eof /\ ~client.gone
    /\ IF reader.st = "len"
       THEN /\ reader' = NoReader
            /\ chan' = [chan EXCEPT !.tx = FALSE]
            /\ signal' = PermitTaken
            /\ UNCHANGED <<pc, scan, conn, handler, out>>
       ELSE Returned("error")
    /\ UNCHANGED <<client, net, read_buf, seen>>

\* What a stage makes of the buffer: the frame it sends (at most one), the tokens it takes
\* and the stage that follows.  read_trailers leaves the CRLF of an empty trailer section.
Piece(frame, take, st) == [frame |-> frame, take |-> take, st |-> st]
LengthPiece(k) == Piece(<<Repeat("d", k)>>, k, IF k = reader.left THEN "done" ELSE "len")

MutTrailerStage(r) == "last"
TrailerStage(r) == IF r.trailer = "no" THEN "last" ELSE "trailers"

ChunkPiece(tok) ==
    CASE reader.st = "size" /\ tok = "size"        -> Piece(<<>>, 1, "data")
      [] reader.st = "size" /\ tok = "zero"        -> Piece(<<>>, 1, TrailerStage(Req))
      [] reader.st = "data"                        -> Piece(<<<<"d">>>>, 2, "size")
      [] reader.st = "last"                        -> Piece(<<>>, 1, "done")
      [] reader.st = "trailers" /\ tok = "crlf"    -> Piece(<<>>, 0, "done")
      [] reader.st = "trailers" /\ tok = "trailer" -> Piece(<<<<"trailer">>>>, 1, "done")
      [] OTHER                                     -> Piece(<<>>, 0, "failed")

TakePiece ==
    /\ Reading /\ ~reader.parked /\ Idle /\ Have /\ ~(AtContinue /\ Due) /\ reader.st # "done"
    /\ \E p \in {IF reader.st = "len" THEN LengthPiece(MinOf(Len(read_buf), reader.left))
                                      ELSE ChunkPiece(Head(read_buf))} :
          IF p.st = "failed"
          THEN Returned("bad") /\ UNCHANGED <<client, net, read_buf, seen>>
          ELSE /\ read_buf' = SubSeq(read_buf, p.take + 1, Len(read_buf))
               /\ reader' = [reader EXCEPT !.st = p.st, !.frame = p.frame, !.left = IF reader.st = "len" THEN @ - p.take ELSE @]
               /\ chan' = [chan EXCEPT !.tx = p.st # "done" \/ p.frame # <<>>]
               /\ UNCHANGED <<pc, client, net, scan, conn, signal, handler, out, seen>>

\* body_tx.send: waits for room; a dropped receiver discards the frame.
SendFrame ==
    /\ Reading /\ reader.frame # <<>> /\ (chan.rx => Len(chan.q) < BodyChannel)
    /\ chan' = [chan EXCEPT !.q = IF chan.rx THEN @ \o reader.frame ELSE @, !.tx = reader.st # "done"]
    /\ reader' = [reader EXCEPT !.frame = <<>>]
    /\ UNCHANGED <<pc, client, net, read_buf, scan, conn, signal, handler, out, seen>>

----------------------------------------------------------------------------
\* The handler, as its scenario says: early hints first or beside the body, the body read
\* or not, or kept in the response.

Hint ==
    /\ pc = "serve" /\ Call.hint # "no" /\ ~handler.hinted
    /\ handler' = [handler EXCEPT !.hinted = TRUE, !.hint = Hints]
    /\ UNCHANGED <<pc, client, net, read_buf, scan, conn, reader, chan, signal, out, seen>>

WriteHint ==
    /\ pc = "serve" /\ handler.hint # <<>> /\ ~client.gone
    /\ seen' = Reads(Requests, seen, Head(handler.hint))
    /\ handler' = [handler EXCEPT !.hint = Tail(@)]
    /\ UNCHANGED <<pc, client, net, read_buf, scan, conn, reader, chan, signal, out>>

Hinted == Call.hint = "no" \/ (handler.hinted /\ handler.hint = <<>>)
MayRead == pc = "serve" /\ Call.body = "read" /\ (Hinted \/ Call.hint = "join")

\* Http1Body::poll_frame: a frame, or a request for 100 Continue while there is none.
ReadFrame ==
    /\ MayRead /\ chan.q # <<>>
    /\ handler' = [handler EXCEPT !.got = @ \o Head(chan.q)]
    /\ chan' = [chan EXCEPT !.q = Tail(@)]
    /\ UNCHANGED <<pc, client, net, read_buf, scan, conn, reader, signal, out, seen>>

MutRequested == [signal EXCEPT !.wanted = TRUE]
Requested == [signal EXCEPT !.wanted = TRUE, !.notify = TRUE]
AskForBody ==
    /\ MayRead /\ chan.q = <<>> /\ chan.tx /\ Req.expect /\ Requested # signal
    /\ signal' = Requested
    /\ UNCHANGED <<pc, client, net, read_buf, scan, conn, reader, chan, handler, out, seen>>

SawEnd == MayRead /\ chan.q = <<>> /\ ~chan.tx

\* The handler returns; hints are no longer written, the rest of the body is drained.
HandlerReturns ==
    /\ pc = "serve" /\ Hinted /\ (Call.body = "read" => SawEnd)
    /\ pc' = "drain"
    /\ chan' = [chan EXCEPT !.rx = Call.body = "echo"]
    /\ UNCHANGED <<client, net, read_buf, scan, conn, reader, signal, handler, out, seen>>

----------------------------------------------------------------------------
\* The response.

\* write_response starts: the head is queued.  A zero-copy body is sent whatever the method.
OutputStage == IF Resp.zero THEN "zhead" ELSE IF Req.head THEN "flush" ELSE "body"
Respond ==
    /\ pc' = "respond"
    /\ out' = [NoOutput EXCEPT !.buf = ResponseHead(Resp), !.left = Resp.n, !.st = OutputStage]
    /\ UNCHANGED <<client, net, read_buf, scan, conn, reader, chan, signal, handler, seen>>

\* 100 Continue is owed to a client that was not sent it, unless the answer is an error.
MutContinueOwed == Req.expect /\ ~Resp.error
ContinueOwed == Req.expect /\ ~signal.sent /\ ~Resp.error

Drained ==
    /\ pc = "drain" /\ ~Unread
    /\ IF Call.fail THEN Returned("error") /\ UNCHANGED <<client, net, read_buf, seen>>
       ELSE IF ContinueOwed
       THEN /\ pc' = "late"
            /\ out' = [NoOutput EXCEPT !.buf = Continue100, !.st = "flush"]
            /\ UNCHANGED <<client, net, read_buf, scan, conn, reader, chan, signal, handler, seen>>
       ELSE Respond

LateContinueSent == pc = "late" /\ out.buf = <<>> /\ Respond

\* The next frame of the body; a flush that was waiting is dropped.
Echoes == Call.body = "echo"
NextFrame ==
    /\ pc = "respond" /\ out.st = "body" /\ (IF Echoes THEN chan.q # <<>> ELSE out.left > 0)
    /\ \E buf \in {out.buf \o Framed(Resp, "d")} :
          out' = [out EXCEPT !.buf = buf, !.flat = 0, !.first = FALSE,
                             !.left = IF Echoes THEN @ ELSE @ - 1,
                             !.st = IF Len(buf) >= BatchThreshold THEN "batch" ELSE @]
    /\ chan' = IF Echoes THEN [chan EXCEPT !.q = Tail(@)] ELSE chan
    /\ UNCHANGED <<pc, client, net, read_buf, scan, conn, reader, signal, handler, seen>>

BodyEnds ==
    /\ pc = "respond" /\ out.st = "body" /\ (IF Echoes THEN chan.q = <<>> ELSE out.left = 0)
    /\ out' = [out EXCEPT !.buf = @ \o Ending(Req, Resp), !.flat = 0, !.st = "flush"]
    /\ UNCHANGED <<pc, client, net, read_buf, scan, conn, reader, chan, signal, handler, seen>>

BodyFails ==
    /\ pc = "respond" /\ out.st = "body" /\ Resp.breaks /\ out.left = 0
    /\ Returned("error")
    /\ UNCHANGED <<client, net, read_buf, seen>>

\* WriteBuf: a vectored flush consumes what each write took, a flattened one only when all
\* was written; a batch write consumes what it wrote.
Consumed(o) ==
    IF Vectored \/ o.st = "batch" THEN [o EXCEPT !.buf = Tail(@)]
    ELSE IF o.flat + 1 = Len(o.buf) THEN [o EXCEPT !.buf = <<>>, !.flat = 0]
    ELSE [o EXCEPT !.flat = @ + 1]
Unbatched(o) == IF o.st = "batch" /\ Len(o.buf) < BatchThreshold THEN [o EXCEPT !.st = "body"] ELSE o
WriteOut ==
    /\ pc \in {"respond", "late", "error"} /\ out.buf # <<>> /\ ~client.gone
    /\ out.st \in {"flush", "zhead", "batch"} \/ (out.st = "body" /\ ~out.first)
    /\ seen' = Reads(Requests, seen, out.buf[out.flat + 1])
    /\ out' = Unbatched(Consumed(out))
    /\ UNCHANGED <<pc, client, net, read_buf, scan, conn, reader, chan, signal, handler>>

\* The zero-copy sender writes the body after the flushed head.
WriteZerocopy ==
    /\ pc = "respond" /\ out.st = "zhead" /\ out.buf = <<>> /\ out.left > 0 /\ ~client.gone
    /\ seen' = Reads(Requests, seen, "d")
    /\ out' = [out EXCEPT !.left = @ - 1]
    /\ UNCHANGED <<pc, client, net, read_buf, scan, conn, reader, chan, signal, handler>>

Written == out.buf = <<>> /\ (out.st = "flush" \/ (out.st = "zhead" /\ out.left = 0))

MutLeftover == <<>>
Leftover == read_buf

\* The response is written: the connection is handed over, ends, or waits for a request.
Responded ==
    /\ pc = "respond" /\ Written
    /\ IF Call.upgrade
       THEN /\ pc' = "returned"
            /\ conn' = [conn EXCEPT !.result = "upgraded", !.left = Leftover]
            /\ read_buf' = <<>>
       ELSE IF conn.cancelled \/ Req.close
       THEN pc' = "returned" /\ conn' = [conn EXCEPT !.result = "ok"] /\ UNCHANGED read_buf
       ELSE pc' = "head" /\ conn' = [conn EXCEPT !.idle = TRUE] /\ UNCHANGED read_buf
    /\ scan' = NewHead /\ reader' = NoReader /\ chan' = NoChannel /\ signal' = NoSignal
    /\ handler' = NoHandler /\ out' = NoOutput
    /\ UNCHANGED <<client, net, seen>>

ErrorWritten ==
    /\ pc = "error" /\ out.buf = <<>>
    /\ Returned(conn.result)
    /\ UNCHANGED <<client, net, read_buf, seen>>

----------------------------------------------------------------------------
Client ==
    \/ \E s \in 1..Len(Scenarios) : ClientStarts(s)
    \/ ClientSends
    \/ ClientEnds
    \/ Cancel

Loop ==
    \/ HeadTurn
    \/ HeadEof
    \/ HeadCancelled
    \/ StreamFails
    \/ Drained
    \/ LateContinueSent
    \/ NextFrame
    \/ BodyEnds
    \/ BodyFails
    \/ WriteOut
    \/ WriteZerocopy
    \/ Responded
    \/ ErrorWritten

ReadBody ==
    \/ SendContinue
    \/ WriteContinue
    \/ Park
    \/ Fill
    \/ Woken
    \/ BodyEof
    \/ TakePiece
    \/ SendFrame

EarlyHints ==
    \/ Hint
    \/ WriteHint

RequestFn ==
    \/ ReadFrame
    \/ AskForBody
    \/ HandlerReturns

Next ==
    \/ Client
    \/ Loop
    \/ HeadTimesOut
    \/ ReadBody
    \/ EarlyHints
    \/ RequestFn

Spec == Init /\ [][Next]_vars

\* The executor polls a woken future, the client reads what is written and finishes the
\* request it began, the handler and the response body make progress.
FairSpec ==
    /\ Spec
    /\ WF_vars(Loop) /\ WF_vars(ReadBody) /\ WF_vars(EarlyHints) /\ WF_vars(RequestFn)
    /\ WF_vars(ClientSends)

----------------------------------------------------------------------------
\* Whatever is written, in whatever pieces, reads as responses to the client's requests in
\* order: heads, interim responses and bodies are never torn, interleaved or repeated, each
\* body has the length or the chunks its head announces, 100 Continue comes at most once,
\* only to a request that expects it and before its answer (write_response, WriteBuf,
\* write_100_continue, write_early_hints).
ResponsesRead == seen.st # "bad"

\* A well-formed request is never refused: each request head is looked for exactly where
\* the message before it ended, whatever was pipelined and however it arrived (get_head,
\* read_body_chunk, read_trailers).
AlignedRequests ==
    conn.result = "bad" => \E i \in 1..Len(client.scen) : Request(i).junk

BodyOf(r) == Repeat("d", r.n) \o IF r.body = "chunked" /\ r.trailer = "sent" THEN <<"trailer">> ELSE <<>>

\* A handler that reads the body to its end has received all of it, with the trailers,
\* unless the client closed within a body of known length, which read_body_fn ends as if
\* it were complete.
CompleteBody ==
    /\ pc = "serve" /\ Call.body = "read" => IsPrefix(handler.got, BodyOf(Req))
    /\ pc = "serve" /\ SawEnd =>
          handler.got = BodyOf(Req) \/ (Req.body = "length" /\ client.eof)

SentAfter(k) ==
    FlattenSeq([i \in 1..(Len(client.scen) - k) |->
        RequestHead(Request(k + i)) \o RequestBody(Request(k + i))])

\* An upgraded stream begins with exactly what the client sent after the request: what was
\* read beyond it is handed over, and what was not is still in the socket.
NothingLostOnUpgrade ==
    conn.result = "upgraded" =>
        conn.left \o net \o client.todo = SentAfter(conn.served)

\* Every request a client begins is answered or its connection ends: in particular a client
\* that waits for 100 Continue gets it when the handler asks for the body, also when the
\* reader was already waiting for the socket (ContinueSignal).  Once the token is cancelled
\* the connection ends, after the response in progress.
Answered ==
    /\ \A k \in 1..MaxRequests : Len(client.scen) >= k ~> (seen.i >= k \/ pc = "returned")
    /\ conn.cancelled ~> pc = "returned"

=============================================================================
