--------------------------- MODULE H2StreamsProofs ---------------------------
(***************************************************************************)
(* Safety of the receiving half, for any number of streams and any limits: *)
(* the properties of H2Streams follow from one inductive invariant.        *)
(***************************************************************************)
EXTENDS H2Streams, TLAPS

Told == {"none", "data", "trailers", "end"}

TypeInv ==
    /\ streams \in [Open -> StreamEntry] /\ Open \subseteq Ids
    /\ highest_stream_id \in Nat /\ graceful_last_stream \in Nat
    /\ block_stream \in Nat
    /\ closing \in BOOLEAN /\ peer_goaway \in BOOLEAN /\ graceful \in BOOLEAN
    /\ handlers \in [Ids -> {0, 1}]
    /\ told \in [Ids -> Told]
    /\ goaways \in Seq(Nat)

\* An identifier above the highest one was never used.
FreshInv ==
    \A i \in Ids : i > highest_stream_id =>
        i \notin Open /\ handlers[i] = 0 /\ told[i] = "none"

\* An entry agrees with the handlers started and with what the body was told.
Sound(e, h, t) ==
    /\ ~e.request_started => h = 0 /\ t = "none"
    /\ ~e.remote_ended => t \in {"none", "data"}
    /\ t = "end" /\ e.content_length # NoLength => e.data_sum = e.content_length

EntryInv == \A i \in Open : Sound(streams[i], handlers[i], told[i])

\* An entry agrees with the codec, whose open block is its own or not.
InBlock(e, mine) ==
    /\ e.continuation_frames > 0 <=> mine
    /\ e.continuation_frames <= MaxContinuation
    /\ mine => ~e.remote_ended

BlockInv == ~closing => \A i \in Open : InBlock(streams[i], block_stream = i)

\* Once a GOAWAY is written the highest stream stays what it is.
GoAwayInv ==
    /\ closing => peer_goaway
    /\ graceful => graceful_last_stream = highest_stream_id
    /\ goaways # <<>> => graceful \/ peer_goaway
    /\ \A k \in DOMAIN goaways : goaways[k] = highest_stream_id

\* The streams left to drain are open.
DrainInv == pc = "drain" => ids \subseteq Open

StreamsInv == TypeInv /\ FreshInv /\ EntryInv /\ BlockInv /\ GoAwayInv /\ DrainInv
-----------------------------------------------------------------------------
(* What a frame may do. *)

\* The connection goes on, or a connection error is written.
Quiet == UNCHANGED <<closing, peer_goaway, goaways>>
Errs ==
    /\ closing' = TRUE /\ peer_goaway' = TRUE
    /\ goaways' = Append(goaways, highest_stream_id')

\* Stream i is left with entry e, or removed; an error of the stream removes
\* it or costs the connection.
Sets(i, e) ==
    \/ streams' = With(streams, i, e) /\ (Quiet \/ Errs)
    \/ streams' = Without(streams, i) /\ Quiet
Ends(i, e) ==
    \/ streams' = With(streams, i, e) /\ Errs
    \/ streams' = Without(streams, i) /\ Quiet

\* Only stream i changed, and its entry agrees with everything else; mine
\* says that the codec's open block is its own.
Result(i, mine) ==
    /\ Quiet \/ Errs
    /\ streams' \in [DOMAIN streams' -> StreamEntry]
    /\ DOMAIN streams' \subseteq Open \cup {i}
    /\ \A j \in DOMAIN streams' : j # i => streams'[j] = streams[j]
    /\ handlers' \in [Ids -> {0, 1}] /\ told' \in [Ids -> Told]
    /\ \A j \in Ids : j # i => handlers'[j] = handlers[j] /\ told'[j] = told[j]
    /\ i \in DOMAIN streams' =>
          /\ Sound(streams'[i], handlers'[i], told'[i])
          /\ closing' \/ InBlock(streams'[i], mine)

\* The map operators of H2Streams set and remove one entry.
LEMMA MapFacts ==
    ASSUME NEW s, NEW i, NEW e, NEW f
    PROVE  /\ With(With(s, i, e), i, f) = With(s, i, f)
           /\ With(s, i, e)[i] = e
           /\ Without(With(s, i, e), i) = Without(s, i)
<1>1. With(With(s, i, e), i, f) = With(s, i, f)
    BY DEF With
<1>2. With(s, i, e)[i] = e
    BY DEF With
<1>3. (DOMAIN With(s, i, e)) \ {i} = (DOMAIN s) \ {i}
    BY DEF With
<1>4. \A j \in (DOMAIN s) \ {i} : With(s, i, e)[j] = s[j]
    BY DEF With
<1>5. Without(With(s, i, e), i) = Without(s, i)
    BY <1>3, <1>4 DEF Without
<1> QED BY <1>1, <1>2, <1>5

\* Setting the entry a stream already has changes nothing.
LEMMA SameEntry ==
    ASSUME TypeInv, NEW i \in Open
    PROVE  With(streams, i, streams[i]) = streams
BY Zenon DEF With, TypeInv, Open

\* How the four endings of a handler (Goes, goaway, stream_error, dropping the
\* stream) leave the entry of stream i.
LEMMA Endings ==
    ASSUME NEW i, NEW e
    PROVE  /\ Goes(With(streams, i, e)) => Sets(i, e) /\ streams' = With(streams, i, e) /\ Quiet
           /\ \A w, j : ConnError(With(streams, i, e), w, j) =>
                 streams' = With(streams, i, e) /\ Errs
           /\ StreamError(With(streams, i, e), i) => Ends(i, e)
           /\ Drops(With(streams, i, e), i) => streams' = Without(streams, i) /\ Quiet
<1>1. Without(With(streams, i, e), i) = Without(streams, i)
    BY MapFacts
<1>2. Goes(With(streams, i, e)) => Sets(i, e) /\ streams' = With(streams, i, e) /\ Quiet
    BY DEF Goes, Sets, Quiet, errors
<1>3. \A w, j : ConnError(With(streams, i, e), w, j) => streams' = With(streams, i, e) /\ Errs
    BY DEF ConnError, Errs
<1>4. StreamError(With(streams, i, e), i) => Ends(i, e)
    BY <1>1, <1>3 DEF StreamError, Ends, Quiet, errors
<1>5. Drops(With(streams, i, e), i) => streams' = Without(streams, i) /\ Quiet
    BY <1>1 DEF Drops, Quiet, errors
<1> QED BY <1>2, <1>3, <1>4, <1>5

\* A stream left with a sound entry, or removed, is a sound result.
LEMMA SetsResult ==
    ASSUME StreamsInv, NEW i \in Ids, NEW e \in StreamEntry, NEW mine \in BOOLEAN,
           Sets(i, e) \/ Ends(i, e),
           handlers' \in [Ids -> {0, 1}], told' \in [Ids -> Told],
           \A j \in Ids : j # i => handlers'[j] = handlers[j] /\ told'[j] = told[j],
           Sound(e, handlers'[i], told'[i]),
           Ends(i, e) \/ closing' \/ InBlock(e, mine)
    PROVE  Result(i, mine)
<1>1. streams \in [Open -> StreamEntry]
    BY DEF StreamsInv, TypeInv
<1>2. Quiet \/ Errs
    BY DEF Sets, Ends
<1>3. CASE streams' = With(streams, i, e)
    <2>1. streams' \in [DOMAIN streams' -> StreamEntry] /\ DOMAIN streams' \subseteq Open \cup {i}
        BY <1>1, <1>3 DEF With, Open
    <2>2. \A j \in DOMAIN streams' : j # i => streams'[j] = streams[j]
        BY <1>3 DEF With
    <2>3. streams'[i] = e
        BY <1>3, MapFacts
    <2>4. closing' \/ InBlock(e, mine)
        <3>1. CASE streams' = Without(streams, i)
            <4>1. i \notin DOMAIN Without(streams, i) /\ i \in DOMAIN With(streams, i, e)
                BY DEF Without, With
            <4> QED BY <4>1, <3>1, <1>3
        <3>2. CASE streams' # Without(streams, i)
            BY <3>2 DEF Ends, Errs
        <3> QED BY <3>1, <3>2
    <2> QED BY <1>2, <2>1, <2>2, <2>3, <2>4 DEF Result
<1>4. CASE streams' = Without(streams, i)
    <2>1. /\ streams' \in [DOMAIN streams' -> StreamEntry] /\ DOMAIN streams' \subseteq Open
          /\ i \notin DOMAIN streams'
        BY <1>1, <1>4 DEF Without, Open
    <2>2. \A j \in DOMAIN streams' : j # i => streams'[j] = streams[j]
        BY <1>4 DEF Without
    <2> QED BY <1>2, <2>1, <2>2 DEF Result
<1> QED BY <1>3, <1>4 DEF Sets, Ends

\* What a frame may do to the highest stream id: it stays, or a new stream raises
\* it, which no stream does during a graceful shutdown.
Raises ==
    \/ highest_stream_id' = highest_stream_id
    \/ highest_stream_id' \in Nat /\ highest_stream_id' > highest_stream_id /\ ~graceful

\* A frame that leaves the connection going, or writes the GOAWAY of an error,
\* keeps the GOAWAY frames in agreement with the highest stream id.
LEMMA GoAwayKeeps ==
    ASSUME StreamsInv, Reading, UNCHANGED shutdown, Quiet \/ Errs, Raises
    PROVE  /\ goaways' \in Seq(Nat) /\ closing' \in BOOLEAN /\ peer_goaway' \in BOOLEAN
           /\ graceful' \in BOOLEAN /\ graceful_last_stream' \in Nat
           /\ highest_stream_id' \in Nat /\ highest_stream_id' >= highest_stream_id
           /\ ~closing
           /\ GoAwayInv'
<1>0. highest_stream_id \in Nat /\ highest_stream_id' \in Nat
    BY DEF StreamsInv, TypeInv, Raises
<1>1. ~peer_goaway /\ ~closing
    BY DEF Reading, StreamsInv, GoAwayInv
<1>2. \A k \in DOMAIN goaways : goaways[k] = highest_stream_id'
    <2>1. CASE highest_stream_id' = highest_stream_id
        BY <2>1 DEF StreamsInv, GoAwayInv
    <2>2. CASE ~graceful
        <3>1. goaways = <<>>
            BY <2>2, <1>1 DEF StreamsInv, GoAwayInv
        <3> QED BY <3>1
    <2> QED BY <2>1, <2>2 DEF Raises
<1>3. goaways \in Seq(Nat)
    BY DEF StreamsInv, TypeInv
<1>4. goaways' \in Seq(Nat)
    <2>1. goaways' = goaways \/ goaways' = Append(goaways, highest_stream_id')
        BY DEF Quiet, Errs
    <2> QED BY <1>0, <1>3, <2>1
<1>5. closing' \in BOOLEAN /\ peer_goaway' \in BOOLEAN
    BY Zenon DEF Quiet, Errs, StreamsInv, TypeInv
<1>6. graceful' \in BOOLEAN /\ graceful_last_stream' \in Nat
    BY DEF StreamsInv, TypeInv, shutdown
<1>7. GoAwayInv'
    <2>1. graceful' => graceful_last_stream' = highest_stream_id'
        BY DEF Raises, shutdown, StreamsInv, GoAwayInv
    <2>2. CASE Quiet
        BY <1>1, <1>2, <2>1, <2>2 DEF Quiet, StreamsInv, GoAwayInv, shutdown
    <2>3. CASE Errs
        <3>1. \A k \in DOMAIN goaways' : goaways'[k] = highest_stream_id'
            BY <1>0, <1>2, <1>3, <2>3 DEF Errs
        <3> QED BY <2>1, <2>3, <3>1 DEF Errs, GoAwayInv
    <2> QED BY <2>2, <2>3
<1>8. highest_stream_id' >= highest_stream_id
    BY <1>0 DEF Raises
<1> QED BY <1>0, <1>1, <1>4, <1>5, <1>6, <1>7, <1>8

\* A result for one stream keeps the invariant, if the open block before and
\* after the frame is that stream's or none.
LEMMA ResultKeeps ==
    ASSUME StreamsInv, NEW i \in Ids, NEW mine \in BOOLEAN, Result(i, mine),
           mine <=> block_stream' = i, block_stream \in {None, i}, block_stream' \in {None, i},
           Reading, pc' = "frames", UNCHANGED shutdown, Raises,
           i > highest_stream_id' =>
               i \notin DOMAIN streams' /\ handlers'[i] = 0 /\ told'[i] = "none"
    PROVE  StreamsInv'
<1> USE StreamsAssumption DEF Ids, None
<1>1. /\ goaways' \in Seq(Nat) /\ closing' \in BOOLEAN /\ peer_goaway' \in BOOLEAN
      /\ graceful' \in BOOLEAN /\ graceful_last_stream' \in Nat
      /\ highest_stream_id' \in Nat /\ highest_stream_id' >= highest_stream_id
      /\ ~closing
      /\ GoAwayInv'
    BY GoAwayKeeps DEF Result
<1>2. highest_stream_id \in Nat
    BY DEF StreamsInv, TypeInv
<1>3. TypeInv'
    <2>1. block_stream' \in Nat
        OBVIOUS
    <2>2. Open' \subseteq Ids
        BY DEF Result, StreamsInv, TypeInv, Open
    <2> QED BY <1>1, <2>1, <2>2 DEF Result, TypeInv, Open
<1>4. FreshInv'
    <2> SUFFICES ASSUME NEW j \in Ids, j > highest_stream_id'
                 PROVE  j \notin Open' /\ handlers'[j] = 0 /\ told'[j] = "none"
        BY DEF FreshInv
    <2>1. CASE j = i
        BY <2>1 DEF Open
    <2>2. CASE j # i
        <3>1. j \notin Open /\ handlers[j] = 0 /\ told[j] = "none"
            BY <1>1, <1>2 DEF StreamsInv, FreshInv
        <3> QED BY <2>2, <3>1 DEF Result, Open
    <2> QED BY <2>1, <2>2
<1>5. EntryInv'
    <2> SUFFICES ASSUME NEW j \in Open'
                 PROVE  Sound(streams[j], handlers[j], told[j])'
        BY DEF EntryInv
    <2>1. CASE j = i
        BY <2>1 DEF Result, Open, Sound
    <2>2. CASE j # i
        <3>1. j \in Open /\ j \in Ids /\ streams'[j] = streams[j]
            BY <2>2 DEF Result, Open, StreamsInv, TypeInv
        <3>2. handlers'[j] = handlers[j] /\ told'[j] = told[j]
            BY <2>2, <3>1 DEF Result
        <3>3. Sound(streams[j], handlers[j], told[j])
            BY <3>1 DEF StreamsInv, EntryInv
        <3> QED BY <3>1, <3>2, <3>3 DEF Sound
    <2> QED BY <2>1, <2>2
<1>6. BlockInv'
    <2> SUFFICES ASSUME ~closing', NEW j \in Open'
                 PROVE  InBlock(streams[j], block_stream = j)'
        BY DEF BlockInv
    <2>1. CASE j = i
        BY <2>1 DEF Result, Open, InBlock
    <2>2. CASE j # i
        <3>1. j \in Open /\ j \in Ids /\ streams'[j] = streams[j]
            BY <2>2 DEF Result, Open, StreamsInv, TypeInv
        <3>2. block_stream # j /\ block_stream' # j
            BY <2>2, <3>1
        <3>3. InBlock(streams[j], FALSE)
            BY <1>1, <3>1, <3>2 DEF StreamsInv, BlockInv, InBlock
        <3> QED BY <3>1, <3>2, <3>3 DEF InBlock
    <2> QED BY <2>1, <2>2
<1>7. DrainInv'
    BY DEF DrainInv
<1> QED BY <1>1, <1>3, <1>4, <1>5, <1>6, <1>7 DEF StreamsInv

\* The same for a stream that is open, or opened by the frame.
LEMMA OpenResultKeeps ==
    ASSUME StreamsInv, NEW i \in Ids, NEW mine \in BOOLEAN, Result(i, mine),
           mine <=> block_stream' = i, block_stream \in {None, i}, block_stream' \in {None, i},
           Reading, pc' = "frames", UNCHANGED shutdown,
           \/ i \in Open /\ highest_stream_id' = highest_stream_id
           \/ Raises /\ highest_stream_id' = i
    PROVE  StreamsInv'
<1>1. Raises
    BY DEF Raises
<1>2. i \in Nat /\ highest_stream_id \in Nat
    BY StreamsAssumption DEF Ids, StreamsInv, TypeInv
<1>3. ~(i > highest_stream_id')
    BY <1>2 DEF StreamsInv, FreshInv
<1> QED BY <1>1, <1>3, ResultKeeps

\* A frame that changes no stream keeps the invariant, if no open stream's
\* block is opened or closed by it, or the connection ends.
LEMMA SameKeeps ==
    ASSUME StreamsInv, Reading, pc' = "frames", UNCHANGED shutdown, Quiet \/ Errs, Raises,
           streams' = streams, handlers' = handlers, told' = told,
           block_stream' \in Nat,
           closing' \/ \A i \in Open : block_stream' = i <=> block_stream = i
    PROVE  StreamsInv'
<1> USE StreamsAssumption DEF Ids
<1>1. /\ goaways' \in Seq(Nat) /\ closing' \in BOOLEAN /\ peer_goaway' \in BOOLEAN
      /\ graceful' \in BOOLEAN /\ graceful_last_stream' \in Nat
      /\ highest_stream_id' \in Nat /\ highest_stream_id' >= highest_stream_id
      /\ ~closing
      /\ GoAwayInv'
    BY GoAwayKeeps
<1>2. highest_stream_id \in Nat
    BY DEF StreamsInv, TypeInv
<1>3. TypeInv'
    BY <1>1, Zenon DEF StreamsInv, TypeInv, Open
<1>4. FreshInv'
    BY <1>1, <1>2 DEF StreamsInv, FreshInv, Open
<1>5. EntryInv'
    BY DEF StreamsInv, EntryInv, Open, Sound
<1>6. BlockInv'
    BY <1>1 DEF StreamsInv, BlockInv, Open, InBlock
<1>7. DrainInv'
    BY DEF DrainInv
<1> QED BY <1>1, <1>3, <1>4, <1>5, <1>6, <1>7 DEF StreamsInv
-----------------------------------------------------------------------------
(* The field blocks and the request body. *)

\* The end of the request body (end_request_body) leaves the stream sound: it
\* is told the end only with as many octets as were declared.
LEMMA EndBodyResult ==
    ASSUME StreamsInv, NEW i \in Ids, NEW e \in StreamEntry, NEW t \in Told \ {"end"},
           e.request_started, ~e.remote_ended, e.continuation_frames = 0,
           EndRequestBody(With(streams, i, e), i, t), UNCHANGED handlers
    PROVE  Result(i, FALSE)
<1> DEFINE f == [e EXCEPT !.remote_ended = TRUE]
<1> USE StreamsAssumption
<1>1. /\ With(streams, i, e)[i] = e
      /\ With(With(streams, i, e), i, f) = With(streams, i, f)
    BY MapFacts
<1>2. /\ f \in StreamEntry /\ f.request_started /\ f.remote_ended /\ f.continuation_frames = 0
      /\ f.body = e.body /\ f.content_length = e.content_length /\ f.data_sum = e.data_sum
    BY Zenon DEF StreamEntry
<1> HIDE DEF f
<1>3. InBlock(f, FALSE)
    BY <1>2 DEF InBlock
<1>4. Sound(f, handlers'[i], t)
    BY <1>2 DEF Sound, Told
<1>5. handlers' \in [Ids -> {0, 1}] /\ told \in [Ids -> Told]
    BY DEF StreamsInv, TypeInv
<1>6. ASSUME NEW u \in Told, told' = [told EXCEPT ![i] = u]
      PROVE  /\ told' \in [Ids -> Told] /\ told'[i] = u
             /\ \A j \in Ids : j # i => handlers'[j] = handlers[j] /\ told'[j] = told[j]
    BY <1>5, <1>6
<1>7. \/ StreamError(With(streams, i, f), i) /\ told' = [told EXCEPT ![i] = t]
      \/ Goes(With(streams, i, f)) /\ told' = [told EXCEPT ![i] = t]
      \/ ~Mismatch(f) /\ Goes(With(streams, i, f)) /\ told' = [told EXCEPT ![i] = NextTold(t, "end")]
      \/ Drops(With(streams, i, e), i) /\ told' = [told EXCEPT ![i] = t]
    BY <1>1 DEF EndRequestBody, Tells, f
<1>8. CASE StreamError(With(streams, i, f), i) /\ told' = [told EXCEPT ![i] = t]
    BY <1>2, <1>4, <1>5, <1>6, <1>8, Endings, SetsResult, Zenon
<1>9. CASE Goes(With(streams, i, f)) /\ told' = [told EXCEPT ![i] = t]
    BY <1>2, <1>3, <1>4, <1>5, <1>6, <1>9, Endings, SetsResult, Zenon
<1>10. CASE ~Mismatch(f) /\ Goes(With(streams, i, f))
            /\ told' = [told EXCEPT ![i] = NextTold(t, "end")]
    <2>1. NextTold(t, "end") = "end"
        BY DEF NextTold, Told
    <2>2. Sound(f, handlers'[i], "end")
        BY <1>2, <1>10 DEF Sound, Mismatch
    <2> QED BY <1>2, <1>3, <1>5, <1>6, <1>10, <2>1, <2>2, Endings, SetsResult, Zenon DEF Told
<1>11. CASE Drops(With(streams, i, e), i) /\ told' = [told EXCEPT ![i] = t]
    <2>1. Ends(i, f)
        BY <1>11, Endings DEF Ends
    <2> QED BY <1>2, <1>4, <1>5, <1>6, <1>11, <2>1, SetsResult, Zenon
<1> QED BY <1>7, <1>8, <1>9, <1>10, <1>11, Zenon

\* An error or the end of a stream leaves nothing of it, or the entry it had.
LEMMA EndsResult ==
    ASSUME StreamsInv, NEW i \in Ids, NEW e \in StreamEntry, NEW mine \in BOOLEAN, Ends(i, e),
           Sound(e, handlers[i], told[i]), handlers' = handlers, told' = told
    PROVE  Result(i, mine)
<1>1. handlers' \in [Ids -> {0, 1}] /\ told' \in [Ids -> Told]
    BY Zenon DEF StreamsInv, TypeInv
<1> QED BY <1>1, SetsResult

\* A trailer section (finalize_trailers) leaves the stream sound.
LEMMA TrailersResult ==
    ASSUME StreamsInv, NEW i \in Ids, NEW e \in StreamEntry, NEW b,
           Sound(e, handlers[i], told[i]),
           e.request_started, ~e.remote_ended, e.continuation_frames = 0,
           FinalizeTrailers(With(streams, i, e), i, b)
    PROVE  Result(i, FALSE)
<1> DEFINE f == [e EXCEPT !.trailers_seen = TRUE]
<1>1. /\ With(streams, i, e)[i] = e
      /\ With(With(streams, i, e), i, f) = With(streams, i, f)
    BY MapFacts
<1>2. /\ f \in StreamEntry /\ f.request_started /\ ~f.remote_ended /\ f.continuation_frames = 0
    BY Zenon DEF StreamEntry
<1> HIDE DEF f
<1>3. UNCHANGED handlers
    BY DEF FinalizeTrailers
<1>4. \/ StreamError(With(streams, i, e), i) /\ UNCHANGED body
      \/ Drops(With(streams, i, e), i) /\ UNCHANGED body
      \/ EndRequestBody(With(streams, i, f), i, NextTold(told[i], "trailers"))
    BY <1>1 DEF FinalizeTrailers, f
<1>5. CASE StreamError(With(streams, i, e), i) /\ UNCHANGED body
    BY <1>3, <1>5, Endings, EndsResult, Zenon DEF body
<1>6. CASE Drops(With(streams, i, e), i) /\ UNCHANGED body
    <2>1. Ends(i, e)
        BY <1>6, Endings DEF Ends
    <2> QED BY <1>3, <1>6, <2>1, EndsResult, Zenon DEF body
<1>7. CASE EndRequestBody(With(streams, i, f), i, NextTold(told[i], "trailers"))
    <2>1. NextTold(told[i], "trailers") = "trailers"
        BY DEF Sound, NextTold
    <2> QED BY <1>2, <1>3, <1>7, <2>1, EndBodyResult, Zenon DEF Told
<1> QED BY <1>4, <1>5, <1>6, <1>7, Zenon

\* The first field block (spawn_request) starts the one handler of a stream.
LEMMA SpawnResult ==
    ASSUME StreamsInv, NEW i \in Ids, NEW e \in StreamEntry, NEW b \in FieldBlocks,
           Sound(e, handlers[i], told[i]),
           ~e.request_started, ~e.remote_ended, e.continuation_frames = 0,
           SpawnRequest(With(streams, i, e), i, b)
    PROVE  Result(i, FALSE)
<1> DEFINE f == [e EXCEPT !.request_started = TRUE, !.content_length = b.cl,
                          !.remote_ended = e.pending_end,
                          !.body = IF b.connect /\ @ = "open" THEN "gone" ELSE @]
           g == [f EXCEPT !.task = "running"]
<1> USE StreamsAssumption
<1>0. b.cl \in Lengths \cup {NoLength}
    BY DEF FieldBlocks, Block
<1>1. /\ With(streams, i, e)[i] = e
      /\ With(With(streams, i, e), i, f) = With(streams, i, f)
      /\ With(With(streams, i, e), i, g) = With(streams, i, g)
    BY MapFacts
<1>2. f \in StreamEntry /\ f.request_started /\ f.continuation_frames = 0
    BY <1>0, Zenon DEF StreamEntry
<1> HIDE DEF f
<1>3. g \in StreamEntry /\ g.request_started /\ g.continuation_frames = 0
    BY <1>2 DEF StreamEntry, TaskState
<1>4. handlers[i] = 0 /\ told[i] = "none" /\ told' = told
    BY DEF Sound, SpawnRequest
<1>5. \/ StreamError(With(streams, i, f), i) /\ UNCHANGED handlers
      \/ Goes(With(streams, i, g)) /\ handlers' = [handlers EXCEPT ![i] = @ + 1]
    BY <1>1 DEF SpawnRequest, f
<1> HIDE DEF g
<1>6. handlers \in [Ids -> {0, 1}] /\ told' \in [Ids -> Told]
    BY <1>4 DEF StreamsInv, TypeInv
<1>7. CASE StreamError(With(streams, i, f), i) /\ UNCHANGED handlers
    <2>1. Sound(f, handlers[i], told[i])
        BY <1>2, <1>4 DEF Sound
    <2> QED BY <1>2, <1>4, <1>7, <2>1, Endings, EndsResult, Zenon
<1>8. CASE Goes(With(streams, i, g)) /\ handlers' = [handlers EXCEPT ![i] = @ + 1]
    <2>1. handlers' \in [Ids -> {0, 1}] /\ \A j \in Ids : j # i => handlers'[j] = handlers[j]
        BY <1>4, <1>6, <1>8
    <2>2. Sound(g, handlers'[i], told'[i])
        BY <1>3, <1>4 DEF Sound
    <2>3. InBlock(g, FALSE)
        BY <1>3 DEF InBlock
    <2> QED BY <1>3, <1>4, <1>6, <1>8, <2>1, <2>2, <2>3, Endings, SetsResult, Zenon
<1> QED BY <1>5, <1>7, <1>8, Zenon

\* A complete field block (finalize_field_block) leaves the stream sound.
LEMMA FinalizeResult ==
    ASSUME StreamsInv, NEW i \in Ids, NEW e \in StreamEntry, NEW b \in FieldBlocks,
           Sound(e, handlers[i], told[i]), ~e.remote_ended, e.continuation_frames = 0,
           Finalize(With(streams, i, e), i, b)
    PROVE  Result(i, FALSE)
<1>1. With(streams, i, e)[i] = e
    BY MapFacts
<1>2. \/ StreamError(With(streams, i, e), i) /\ UNCHANGED <<handlers, body>>
      \/ ConnError(With(streams, i, e), "compression", i) /\ UNCHANGED <<handlers, body>>
      \/ e.request_started /\ FinalizeTrailers(With(streams, i, e), i, b)
      \/ ~e.request_started /\ SpawnRequest(With(streams, i, e), i, b)
    <2>1. b.verdict \in {"ok", "malformed", "toolarge", "corrupt"}
        BY DEF FieldBlocks, Block, Verdict
    <2>2. e.request_started \in BOOLEAN
        BY DEF StreamEntry
    <2> QED BY <1>1, <2>1, <2>2 DEF Finalize
<1>3. CASE StreamError(With(streams, i, e), i) /\ UNCHANGED <<handlers, body>>
    BY <1>3, Endings, EndsResult, Zenon DEF body
<1>4. CASE ConnError(With(streams, i, e), "compression", i) /\ UNCHANGED <<handlers, body>>
    <2>1. Ends(i, e)
        BY <1>4, Endings DEF Ends
    <2> QED BY <1>4, <2>1, EndsResult, Zenon DEF body
<1>5. CASE e.request_started /\ FinalizeTrailers(With(streams, i, e), i, b)
    BY <1>5, TrailersResult, Zenon
<1>6. CASE ~e.request_started /\ SpawnRequest(With(streams, i, e), i, b)
    BY <1>6, SpawnResult, Zenon
<1> QED BY <1>2, <1>3, <1>4, <1>5, <1>6, Zenon

\* A block that stays open (check_continuation_flood) leaves the stream sound.
LEMMA KeepsBlockResult ==
    ASSUME StreamsInv, NEW i \in Ids, NEW e \in StreamEntry,
           Sound(e, handlers[i], told[i]), ~e.remote_ended,
           KeepsBlock(i, e), handlers' = handlers, told' = told
    PROVE  /\ block_stream' \in {None, i}
           /\ \E mine \in BOOLEAN : (mine <=> block_stream' = i) /\ Result(i, mine)
<1> DEFINE f == [e EXCEPT !.continuation_frames = @ + 1]
<1> USE StreamsAssumption
<1>1. /\ f \in StreamEntry /\ ~f.remote_ended /\ f.continuation_frames \in Nat
      /\ f.continuation_frames > 0
    BY DEF StreamEntry
<1>2. Sound(f, handlers[i], told[i])
    BY DEF StreamEntry, Sound
<1>3. \/ block_stream' = None /\ StreamError(With(streams, i, f), i)
      \/ block_stream' = i /\ f.continuation_frames <= MaxContinuation
         /\ Goes(With(streams, i, f))
    BY <1>1 DEF KeepsBlock
<1> HIDE DEF f
<1>4. CASE block_stream' = None /\ StreamError(With(streams, i, f), i)
    <2>1. Result(i, FALSE)
        BY <1>1, <1>2, <1>4, Endings, EndsResult, Zenon
    <2>2. ~(block_stream' = i)
        BY <1>4 DEF Ids, None
    <2> QED BY <1>4, <2>1, <2>2, Zenon
<1>5. CASE /\ block_stream' = i /\ f.continuation_frames <= MaxContinuation
           /\ Goes(With(streams, i, f))
    <2>1. InBlock(f, TRUE)
        BY <1>1, <1>5 DEF InBlock
    <2>2. handlers' \in [Ids -> {0, 1}] /\ told' \in [Ids -> Told]
        BY DEF StreamsInv, TypeInv
    <2>3. Result(i, TRUE)
        BY <1>1, <1>2, <1>5, <2>1, <2>2, Endings, SetsResult, Zenon
    <2> QED BY <1>5, <2>3, Zenon
<1> QED BY <1>3, <1>4, <1>5
-----------------------------------------------------------------------------
(* Every action keeps the invariant. *)

\* What the invariant says of an open stream.
LEMMA OpenFacts ==
    ASSUME StreamsInv, NEW i \in Open
    PROVE  /\ i \in Ids /\ streams[i] \in StreamEntry
           /\ Sound(streams[i], handlers[i], told[i])
           /\ With(streams, i, streams[i]) = streams
<1>1. With(streams, i, streams[i]) = streams
    BY SameEntry DEF StreamsInv
<1> QED BY <1>1 DEF StreamsInv, TypeInv, EntryInv

\* No open stream counts continuation frames while the codec has no open block.
LEMMA NoBlock ==
    ASSUME StreamsInv, NEW i \in Open, Reading, block_stream = None
    PROVE  streams[i].continuation_frames = 0
<1>1. i \in Ids /\ streams[i].continuation_frames \in Nat
    BY OpenFacts DEF StreamEntry
<1>2. InBlock(streams[i], block_stream = i)
    BY DEF StreamsInv, BlockInv, GoAwayInv, Reading
<1> QED BY <1>1, <1>2, StreamsAssumption DEF InBlock, Ids, None

\* A new stream is fresh, and comes only before a graceful shutdown.
LEMMA NewStream ==
    ASSUME StreamsInv, NEW i \in Ids, ~Ignored(i), ~OutOfOrder(i), highest_stream_id' = i
    PROVE  /\ Raises /\ i \notin Open
           /\ handlers[i] = 0 /\ told[i] = "none"
<1>1. i \in Nat /\ i > highest_stream_id /\ highest_stream_id \in Nat
    BY StreamsAssumption DEF StreamsInv, TypeInv, Ids, OutOfOrder
<1>2. ~graceful
    BY <1>1 DEF StreamsInv, GoAwayInv, Ignored
<1> QED BY <1>1, <1>2 DEF Raises, StreamsInv, FreshInv

\* An id the graceful shutdown ignores has no stream.
LEMMA IgnoredFresh ==
    ASSUME StreamsInv, NEW i \in Ids, Ignored(i)
    PROVE  i \notin Open
BY DEF StreamsInv, GoAwayInv, FreshInv, Ignored

\* HEADERS with a complete block, on a stream that is ignored, closed to the
\* peer, open, out of order, refused or new.
LEMMA HeadersKeeps ==
    ASSUME StreamsInv, NEW i \in Ids, NEW end \in BOOLEAN, NEW b \in FieldBlocks,
           Headers(i, end, b)
    PROVE  StreamsInv'
<1> USE StreamsAssumption
<1>1. /\ Reading /\ block_stream = None /\ block_stream' = None /\ pc' = "frames"
      /\ UNCHANGED shutdown /\ ~(block_stream' = i)
    BY DEF Headers, Frame, Untouched, Ids, None
<1>2. CASE Goes(streams) /\ UNCHANGED <<handlers, body>> /\ Raises
    BY <1>1, <1>2, SameKeeps DEF Goes, Quiet, errors, body, None
<1>3. CASE /\ i \in Open /\ StreamError(streams, i)
           /\ UNCHANGED <<highest_stream_id, handlers, body>>
    <2>1. Ends(i, streams[i])
        BY <1>3, OpenFacts, Endings
    <2>2. Result(i, FALSE)
        BY <1>3, <2>1, OpenFacts, EndsResult, Zenon DEF body
    <2> QED BY <1>1, <1>3, <2>2, OpenResultKeeps, Zenon
<1>4. CASE /\ i \in Open /\ ~streams[i].remote_ended /\ UNCHANGED highest_stream_id
           /\ Finalize(With(streams, i, [Complete(streams[i]) EXCEPT !.pending_end = end]), i, b)
    <2> DEFINE e == [Complete(streams[i]) EXCEPT !.pending_end = end]
    <2>1. e \in StreamEntry /\ ~e.remote_ended /\ e.continuation_frames = 0
        BY <1>4, OpenFacts, Zenon DEF StreamEntry, Complete
    <2>2. Sound(e, handlers[i], told[i])
        BY <1>4, OpenFacts DEF StreamEntry, Sound, Complete
    <2> HIDE DEF e
    <2>3. Result(i, FALSE)
        BY <1>4, <2>1, <2>2, FinalizeResult, Zenon DEF e
    <2> QED BY <1>1, <1>4, <2>3, OpenResultKeeps, Zenon
<1>5. CASE ConnError(streams, "order", i) /\ UNCHANGED <<highest_stream_id, handlers, body>>
    BY <1>1, <1>5, SameKeeps, Zenon DEF ConnError, Errs, body, None, Raises
<1>6. CASE /\ ~Ignored(i) /\ ~OutOfOrder(i) /\ highest_stream_id' = i
           /\ Finalize(With(streams, i, NewEntry(end)), i, b)
    <2>1. /\ NewEntry(end) \in StreamEntry /\ ~NewEntry(end).remote_ended
          /\ NewEntry(end).continuation_frames = 0
        BY Zenon DEF NewEntry, StreamEntry, TaskState
    <2>2. Sound(NewEntry(end), handlers[i], told[i])
        BY <1>6, NewStream, Zenon DEF Sound, NewEntry
    <2>3. Result(i, FALSE)
        BY <1>6, <2>1, <2>2, FinalizeResult, Zenon
    <2> QED BY <1>1, <1>6, <2>3, NewStream, OpenResultKeeps, Zenon
<1>7. CASE ~Ignored(i) /\ ~OutOfOrder(i) /\ Refuses(i)
    BY <1>2, <1>7, NewStream DEF Refuses
<1> QED BY <1>2, <1>3, <1>4, <1>5, <1>6, <1>7 DEF Headers, Raises

\* HEADERS that leave the block open.
LEMMA HeadersOpenKeeps ==
    ASSUME StreamsInv, NEW i \in Ids, NEW end \in BOOLEAN, HeadersOpen(i, end)
    PROVE  StreamsInv'
<1> USE StreamsAssumption
<1>1. /\ Reading /\ block_stream = None /\ pc' = "frames" /\ UNCHANGED shutdown
      /\ handlers' = handlers /\ told' = told /\ i \in Nat /\ i # None
    BY DEF HeadersOpen, Frame, Untouched, body, Ids, None
<1>2. CASE Goes(streams) /\ Raises /\ i \notin Open /\ block_stream' = i
    <2>1. \A j \in Open : block_stream' = j <=> block_stream = j
        BY <1>1, <1>2 DEF StreamsInv, TypeInv, Ids, None
    <2> QED BY <1>1, <1>2, <2>1, SameKeeps DEF Goes, Quiet, errors
<1>3. CASE /\ i \in Open /\ StreamError(streams, i) /\ UNCHANGED highest_stream_id
           /\ block_stream' = i
    <2>1. Ends(i, streams[i])
        BY <1>3, OpenFacts, Endings, Zenon
    <2>2. Result(i, TRUE)
        BY <1>1, <1>3, <2>1, OpenFacts, EndsResult, Zenon
    <2> QED BY <1>1, <1>3, <2>2, OpenResultKeeps, Zenon
<1>4. CASE /\ i \in Open /\ ~streams[i].remote_ended /\ UNCHANGED highest_stream_id
           /\ KeepsBlock(i, [streams[i] EXCEPT !.pending_end = end])
    <2> DEFINE e == [streams[i] EXCEPT !.pending_end = end]
    <2>1. e \in StreamEntry /\ ~e.remote_ended
        BY <1>4, OpenFacts DEF StreamEntry
    <2>2. Sound(e, handlers[i], told[i])
        BY <1>4, OpenFacts DEF StreamEntry, Sound
    <2> HIDE DEF e
    <2>3. /\ block_stream' \in {None, i}
          /\ \E mine \in BOOLEAN : (mine <=> block_stream' = i) /\ Result(i, mine)
        BY <1>1, <1>4, <2>1, <2>2, KeepsBlockResult, Zenon DEF e
    <2> QED BY <1>1, <1>4, <2>3, OpenResultKeeps
<1>5. CASE ConnError(streams, "order", i) /\ UNCHANGED highest_stream_id /\ block_stream' = i
    BY <1>1, <1>5, SameKeeps DEF ConnError, Errs, Raises
<1>6. CASE /\ ~Ignored(i) /\ ~OutOfOrder(i) /\ highest_stream_id' = i /\ block_stream' = i
           /\ Goes(With(streams, i, [NewEntry(end) EXCEPT !.continuation_frames = 1]))
    <2> DEFINE e == [NewEntry(end) EXCEPT !.continuation_frames = 1]
    <2>0. e \in StreamEntry /\ e.continuation_frames = 1 /\ ~e.remote_ended
        BY Zenon DEF NewEntry, StreamEntry, TaskState
    <2>1. InBlock(e, TRUE)
        BY <2>0 DEF InBlock
    <2>2. Sound(e, handlers[i], told[i])
        BY <1>6, NewStream DEF Sound, NewEntry
    <2> HIDE DEF e
    <2>3. handlers' \in [Ids -> {0, 1}] /\ told' \in [Ids -> Told]
        BY <1>1 DEF StreamsInv, TypeInv
    <2>4. Result(i, TRUE)
        BY <1>1, <1>6, <2>0, <2>1, <2>2, <2>3, Endings, SetsResult, Zenon DEF e
    <2> QED BY <1>1, <1>6, <2>4, NewStream, OpenResultKeeps, Zenon
<1>7. CASE Ignored(i) /\ block_stream' = i /\ Goes(streams) /\ UNCHANGED highest_stream_id
    BY <1>2, <1>7, IgnoredFresh DEF Raises
<1>8. CASE ~Ignored(i) /\ ~OutOfOrder(i) /\ highest_stream_id' = i /\ block_stream' = i /\ Goes(streams)
    BY <1>2, <1>8, NewStream
<1> QED BY <1>3, <1>4, <1>5, <1>6, <1>7, <1>8 DEF HeadersOpen
\* A frame that opens no stream leaves these as they are.
LEMMA FollowsFacts ==
    ASSUME StreamsInv, Follows, Untouched
    PROVE  Reading /\ pc' = "frames" /\ UNCHANGED shutdown /\ Raises /\ block_stream \in Nat
BY DEF Follows, Untouched, Raises, StreamsInv, TypeInv

\* A connection error on whatever frame.
LEMMA ErrorKeeps ==
    ASSUME StreamsInv, Follows, Untouched, NEW why, NEW i, ConnError(streams, why, i),
           UNCHANGED <<handlers, body>>, block_stream' \in {None, block_stream}
    PROVE  StreamsInv'
BY FollowsFacts, SameKeeps DEF ConnError, Errs, body, None

\* The last frame of the open block.
LEMMA ContinuationKeeps ==
    ASSUME StreamsInv, NEW b \in FieldBlocks, Continuation(b)
    PROVE  StreamsInv'
<1> DEFINE i == block_stream
           e == Complete(streams[i])
<1>1. /\ Follows /\ Untouched /\ i # None /\ block_stream' = None
      /\ IF i \in Open THEN Finalize(With(streams, i, e), i, b)
                       ELSE ConnError(streams, "continuation", i) /\ UNCHANGED <<handlers, body>>
    BY DEF Continuation
<1> HIDE DEF e
<1>2. CASE i \in Open
    <2>1. i \in Ids /\ ~streams[i].remote_ended
        BY <1>2, FollowsFacts, <1>1, OpenFacts DEF StreamsInv, BlockInv, InBlock, GoAwayInv, Reading
    <2>2. e \in StreamEntry /\ ~e.remote_ended /\ e.continuation_frames = 0
        BY <1>2, <2>1, OpenFacts DEF StreamEntry, Complete, e
    <2>3. Sound(e, handlers[i], told[i])
        BY <1>2, <2>1, OpenFacts, Zenon DEF StreamEntry, Sound, Complete, e
    <2>4. Result(i, FALSE)
        BY <1>1, <1>2, <2>1, <2>2, <2>3, FinalizeResult, Zenon
    <2> QED BY <1>1, <1>2, <2>1, <2>4, FollowsFacts, OpenResultKeeps, Zenon DEF Follows
<1>3. CASE i \notin Open
    BY <1>1, <1>3, ErrorKeeps
<1> QED BY <1>2, <1>3

\* A frame of the open block that is not its last.
LEMMA ContinuationOpenKeeps ==
    ASSUME StreamsInv, ContinuationOpen
    PROVE  StreamsInv'
<1> DEFINE i == block_stream
<1>1. /\ Follows /\ Untouched /\ i # None /\ UNCHANGED <<handlers, body>>
      /\ IF i \in Open THEN KeepsBlock(i, streams[i])
                       ELSE ConnError(streams, "continuation", i) /\ UNCHANGED block_stream
    BY DEF ContinuationOpen
<1>2. CASE i \in Open
    <2>1. i \in Ids /\ ~streams[i].remote_ended
        BY <1>2, FollowsFacts, <1>1, OpenFacts DEF StreamsInv, BlockInv, InBlock, GoAwayInv, Reading
    <2>2. /\ block_stream' \in {None, i}
          /\ \E mine \in BOOLEAN : (mine <=> block_stream' = i) /\ Result(i, mine)
        BY <1>1, <1>2, <2>1, OpenFacts, KeepsBlockResult, Zenon DEF body
    <2> QED BY <1>1, <1>2, <2>1, <2>2, FollowsFacts, OpenResultKeeps DEF Follows
<1>3. CASE i \notin Open
    BY <1>1, <1>3, ErrorKeeps
<1> QED BY <1>2, <1>3

\* A frame that costs an open stream its entry, or at worst the connection.
LEMMA StreamErrorKeeps ==
    ASSUME StreamsInv, Follows, Untouched, NEW i \in Open, Ends(i, streams[i]),
           UNCHANGED <<handlers, body>>, block_stream = None, block_stream' = None
    PROVE  StreamsInv'
<1>1. i \in Ids /\ ~(block_stream' = i)
    BY OpenFacts, StreamsAssumption DEF Ids, None
<1>2. Result(i, FALSE)
    BY <1>1, OpenFacts, EndsResult, Zenon DEF body
<1> QED BY <1>1, <1>2, FollowsFacts, OpenResultKeeps, Zenon DEF Follows

\* A frame without effect on streams and handlers.
LEMMA QuietKeeps ==
    ASSUME StreamsInv, Follows, Untouched, Goes(streams),
           UNCHANGED <<handlers, told, block_stream>>
    PROVE  StreamsInv'
BY FollowsFacts, SameKeeps DEF Goes, Quiet, errors

\* DATA: for a stream that is gone, unknown, not in the state for it, without a
\* reader, or that takes it.
LEMMA DataKeeps ==
    ASSUME StreamsInv, NEW i \in Ids, NEW len \in ChunkLens, NEW end \in BOOLEAN,
           Data(i, len, end)
    PROVE  StreamsInv'
<1> DEFINE e == [streams[i] EXCEPT !.data_sum = @ + len]
           t == NextTold(told[i], "data")
<1> USE StreamsAssumption
<1>1. /\ Follows /\ Untouched /\ block_stream = None /\ block_stream' = None
      /\ UNCHANGED handlers /\ ~(block_stream' = i)
    BY DEF Data, Ids, None
<1>2. \/ Goes(streams) /\ UNCHANGED body
      \/ ConnError(streams, "idle", i) /\ UNCHANGED body
      \/ i \in Open /\ (StreamError(streams, i) \/ Drops(streams, i)) /\ UNCHANGED body
      \/ /\ i \in Open /\ ~BadData(streams[i])
         /\ IF end THEN EndRequestBody(With(streams, i, e), i, t)
                   ELSE Goes(With(streams, i, e)) /\ Tells(i, t)
    BY DEF Data
<1> HIDE DEF e
<1>3. CASE Goes(streams) /\ UNCHANGED body
    BY <1>1, <1>3, QuietKeeps DEF body
<1>4. CASE ConnError(streams, "idle", i) /\ UNCHANGED body
    BY <1>1, <1>4, ErrorKeeps
<1>5. CASE i \in Open /\ (StreamError(streams, i) \/ Drops(streams, i)) /\ UNCHANGED body
    <2>1. Ends(i, streams[i])
        BY <1>5, OpenFacts, Endings DEF Ends
    <2> QED BY <1>1, <1>5, <2>1, StreamErrorKeeps, Zenon
<1>6. CASE /\ i \in Open /\ ~BadData(streams[i])
           /\ IF end THEN EndRequestBody(With(streams, i, e), i, t)
                     ELSE Goes(With(streams, i, e)) /\ Tells(i, t)
    <2>0. streams[i].continuation_frames = 0 /\ streams[i] \in StreamEntry
        BY <1>1, <1>6, FollowsFacts, NoBlock, OpenFacts
    <2>1. /\ e \in StreamEntry /\ e.request_started /\ ~e.remote_ended
          /\ e.continuation_frames = 0
        BY <1>6, <2>0 DEF BadData, StreamEntry, e
    <2>2. t = "data"
        BY <1>6, OpenFacts DEF Sound, BadData, NextTold
    <2> HIDE DEF t
    <2>3. CASE EndRequestBody(With(streams, i, e), i, t)
        <3>1. Result(i, FALSE)
            BY <1>1, <2>1, <2>2, <2>3, EndBodyResult, Zenon DEF Told
        <3> QED BY <1>1, <1>6, <3>1, FollowsFacts, OpenResultKeeps, Zenon DEF Follows
    <2>4. CASE Goes(With(streams, i, e)) /\ told' = [told EXCEPT ![i] = t]
        <3>1. /\ handlers' \in [Ids -> {0, 1}] /\ told' \in [Ids -> Told] /\ told'[i] = "data"
              /\ \A j \in Ids : j # i => handlers'[j] = handlers[j] /\ told'[j] = told[j]
            BY <1>1, <2>2, <2>4 DEF StreamsInv, TypeInv, Told
        <3>2. Sound(e, handlers'[i], told'[i]) /\ InBlock(e, FALSE)
            BY <2>1, <3>1 DEF Sound, InBlock
        <3>3. Result(i, FALSE)
            BY <2>1, <2>4, <3>1, <3>2, Endings, SetsResult, Zenon
        <3> QED BY <1>1, <1>6, <3>3, FollowsFacts, OpenResultKeeps, Zenon DEF Follows
    <2> QED BY <1>6, <2>3, <2>4, Zenon DEF Tells
<1> QED BY <1>2, <1>3, <1>4, <1>5, <1>6, Zenon

\* RST_STREAM.
LEMMA ResetFrameKeeps ==
    ASSUME StreamsInv, NEW i \in Ids, ResetFrame(i)
    PROVE  StreamsInv'
<1>1. /\ Follows /\ Untouched /\ block_stream = None /\ block_stream' = None
      /\ UNCHANGED <<handlers, body>>
    BY DEF ResetFrame
<1>2. \/ Goes(streams)
      \/ ConnError(streams, "idle", i)
      \/ i \in Open /\ Drops(streams, i)
      \/ i \in Open /\ ConnError(Without(streams, i), "calm", i)
    BY DEF ResetFrame
<1>3. CASE Goes(streams)
    BY <1>1, <1>3, QuietKeeps DEF body
<1>4. CASE ConnError(streams, "idle", i)
    BY <1>1, <1>4, ErrorKeeps
<1>5. CASE i \in Open /\ Drops(streams, i)
    <2>1. Ends(i, streams[i])
        BY <1>5, OpenFacts, Endings DEF Ends
    <2> QED BY <1>1, <1>5, <2>1, StreamErrorKeeps
<1>6. CASE i \in Open /\ ConnError(Without(streams, i), "calm", i)
    <2>1. streams' = Without(streams, i) /\ Errs
        BY <1>6 DEF ConnError, Errs
    <2>2. Result(i, FALSE)
        BY <1>1, <2>1 DEF Result, Without, StreamsInv, TypeInv, Open, body
    <2>3. ~(block_stream' = i)
        BY <1>1, StreamsAssumption DEF Ids, None
    <2> QED BY <1>1, <1>6, <2>2, <2>3, FollowsFacts, OpenResultKeeps, Zenon DEF Follows
<1> QED BY <1>2, <1>3, <1>4, <1>5, <1>6

\* WINDOW_UPDATE.
LEMMA WindowUpdateKeeps ==
    ASSUME StreamsInv, NEW i \in Ids, WindowUpdate(i)
    PROVE  StreamsInv'
<1>1. /\ Follows /\ Untouched /\ block_stream = None /\ block_stream' = None
      /\ UNCHANGED <<handlers, body>>
    BY DEF WindowUpdate
<1>2. \/ Goes(streams)
      \/ ConnError(streams, "idle", i)
      \/ i \in Open /\ (StreamError(streams, i) \/ Drops(streams, i))
    BY DEF WindowUpdate
<1>3. CASE Goes(streams)
    BY <1>1, <1>3, QuietKeeps DEF body
<1>4. CASE ConnError(streams, "idle", i)
    BY <1>1, <1>4, ErrorKeeps
<1>5. CASE i \in Open /\ (StreamError(streams, i) \/ Drops(streams, i))
    <2>1. Ends(i, streams[i])
        BY <1>5, OpenFacts, Endings DEF Ends
    <2> QED BY <1>1, <1>5, <2>1, StreamErrorKeeps
<1> QED BY <1>2, <1>3, <1>4, <1>5

\* The frames that cost the connection, and the peer's GOAWAY.
LEMMA BadFramesKeep ==
    ASSUME StreamsInv,
           BrokenBlock \/ BadFrame \/ PeerGoAway \/ \E i \in Ids : StrayContinuation(i)
    PROVE  StreamsInv'
<1>1. CASE BrokenBlock
    BY <1>1, ErrorKeeps DEF BrokenBlock
<1>2. CASE BadFrame
    BY <1>2, ErrorKeeps DEF BadFrame
<1>3. CASE \E i \in Ids : StrayContinuation(i)
    BY <1>3, ErrorKeeps, Zenon DEF StrayContinuation
<1>4. CASE PeerGoAway
    BY <1>4 DEF PeerGoAway, Follows, Untouched, StreamsInv, TypeInv, FreshInv, EntryInv,
                BlockInv, GoAwayInv, DrainInv, shutdown, body, Open, Sound, InBlock
<1> QED BY <1>1, <1>2, <1>3, <1>4
-----------------------------------------------------------------------------
(* The drive loop and the stream tasks. *)

\* Entries that differ only in what the invariant does not read.
Alike(e, f) ==
    /\ e.request_started = f.request_started /\ e.remote_ended = f.remote_ended
    /\ e.continuation_frames = f.continuation_frames
    /\ e.content_length = f.content_length /\ e.data_sum = f.data_sum

\* Streams may end, and the entries of the others change only like that.
Light ==
    /\ streams' \in [DOMAIN streams' -> StreamEntry] /\ DOMAIN streams' \subseteq Open
    /\ \A i \in DOMAIN streams' : Alike(streams'[i], streams[i])
    /\ UNCHANGED <<highest_stream_id, block_stream, closing, peer_goaway, handlers, told>>

\* A step like that keeps what the invariant says of streams.
LEMMA LightKeeps ==
    ASSUME StreamsInv, Light
    PROVE  FreshInv' /\ EntryInv' /\ BlockInv'
<1>1. FreshInv'
    BY DEF StreamsInv, FreshInv, Open, Light
<1>2. EntryInv'
    BY DEF StreamsInv, EntryInv, Open, Sound, Light, Alike
<1>3. BlockInv'
    BY DEF StreamsInv, BlockInv, Open, InBlock, Light, Alike
<1> QED BY <1>1, <1>2, <1>3

\* It keeps the invariant when no GOAWAY is written.
LEMMA TaskKeeps ==
    ASSUME StreamsInv, Light, DrainInv', UNCHANGED <<shutdown, goaways>>
    PROVE  StreamsInv'
<1>1. TypeInv'
    BY DEF StreamsInv, TypeInv, Open, shutdown, Light
<1>2. GoAwayInv'
    BY DEF StreamsInv, GoAwayInv, shutdown, Light
<1> QED BY <1>1, <1>2, LightKeeps DEF StreamsInv

\* Leaving streams alone is such a step.
LEMMA SameIsLight ==
    ASSUME StreamsInv, streams' = streams, UNCHANGED rest
    PROVE  Light
BY DEF Light, Alike, StreamsInv, TypeInv, Open, rest, errors, body

\* The GOAWAY frames of the loop name the highest stream: the one written when a
\* shutdown begins, and the one written at the end of the drain.
LEMMA LoopKeeps ==
    ASSUME StreamsInv, UNCHANGED <<streams, rest>>, pc' # "drain",
           UNCHANGED shutdown \/ BeginGraceful, NEW g,
           g = goaways \/ (g = Append(goaways, highest_stream_id) /\ graceful'),
           goaways' = g \/ goaways' = Finished(g)
    PROVE  StreamsInv'
<1>1. /\ goaways \in Seq(Nat) /\ highest_stream_id \in Nat /\ highest_stream_id' = highest_stream_id
      /\ \A k \in DOMAIN goaways : goaways[k] = highest_stream_id
      /\ graceful' \in BOOLEAN /\ graceful_last_stream' \in Nat
      /\ graceful' => graceful_last_stream' = highest_stream_id
      /\ UNCHANGED <<closing, peer_goaway>>
    <2>1. /\ goaways \in Seq(Nat) /\ highest_stream_id \in Nat
          /\ \A k \in DOMAIN goaways : goaways[k] = highest_stream_id
        BY DEF StreamsInv, TypeInv, GoAwayInv
    <2>2. highest_stream_id' = highest_stream_id /\ UNCHANGED <<closing, peer_goaway>>
        BY DEF rest, errors
    <2>3. /\ graceful' \in BOOLEAN /\ graceful_last_stream' \in Nat
          /\ graceful' => graceful_last_stream' = highest_stream_id
        <3>1. CASE UNCHANGED shutdown
            BY <3>1 DEF StreamsInv, TypeInv, GoAwayInv, shutdown
        <3>2. CASE BeginGraceful
            BY <2>1, <3>2 DEF BeginGraceful
        <3> QED BY <3>1, <3>2
    <2> QED BY <2>1, <2>2, <2>3
<1>2. g \in Seq(Nat) /\ \A k \in DOMAIN g : g[k] = highest_stream_id
    BY <1>1
<1>3. goaways' = g \/ (goaways' = Append(g, highest_stream_id) /\ graceful')
    BY <1>1 DEF Finished
<1>4. goaways' \in Seq(Nat) /\ \A k \in DOMAIN goaways' : goaways'[k] = highest_stream_id
    <2>1. CASE goaways' = g
        BY <1>2, <2>1
    <2>2. CASE goaways' = Append(g, highest_stream_id)
        BY <1>1, <1>2, <2>2
    <2> QED BY <1>3, <2>1, <2>2
<1>5. goaways' # <<>> => graceful' \/ peer_goaway'
    <2>1. CASE goaways' = goaways
        BY <1>1, <2>1 DEF StreamsInv, GoAwayInv, BeginGraceful, shutdown
    <2> QED BY <1>3, <2>1
<1>6. GoAwayInv'
    BY <1>1, <1>4, <1>5 DEF GoAwayInv, StreamsInv
<1>7. TypeInv'
    BY <1>1, <1>4 DEF StreamsInv, TypeInv, Open, rest, errors, body
<1>8. FreshInv' /\ EntryInv' /\ BlockInv'
    BY LightKeeps, SameIsLight
<1> QED BY <1>6, <1>7, <1>8 DEF StreamsInv, DrainInv

\* The steps of the connection task.
LEMMA ConnectionKeeps ==
    ASSUME StreamsInv, ConnectionStep
    PROVE  StreamsInv'
<1>1. CASE StartDrain
    <2>1. DrainInv'
        BY <1>1 DEF StartDrain, DrainInv, Open
    <2> QED BY <1>1, <2>1, SameIsLight, TaskKeeps DEF StartDrain
<1>2. ASSUME NEW i \in Ids, DrainStream(i)
      PROVE  StreamsInv'
    <2> DEFINE e == streams[i]
    <2>1. /\ pc = "drain" /\ i \in ids /\ ids' = ids \ {i}
          /\ UNCHANGED <<rest, shutdown, goaways>>
        BY <1>2 DEF DrainStream
    <2>2. i \in Open /\ ids \subseteq Open
        BY <2>1 DEF StreamsInv, DrainInv
    <2>3. e \in StreamEntry
        BY <2>2, OpenFacts
    <2>4. \/ streams' = Without(streams, i)
          \/ \E f \in StreamEntry :
                streams' = With(streams, i, f) /\ Alike(f, e)
        <3>1. \/ streams' = Without(streams, i)
              \/ streams' = With(streams, i, [e EXCEPT !.response_started = TRUE])
              \/ streams' = With(streams, i, [e EXCEPT !.response_started = TRUE,
                                                       !.task_done = TRUE, !.task = "blocked"])
              \/ streams' = With(streams, i, [e EXCEPT !.task_done = TRUE,
                                                       !.response_started = @ \/ e.task = "cut"])
            BY <1>2 DEF DrainStream
        <3>2. /\ [e EXCEPT !.response_started = TRUE] \in StreamEntry
              /\ Alike([e EXCEPT !.response_started = TRUE], e)
            BY <2>3, Zenon DEF StreamEntry, Alike
        <3>3. /\ [e EXCEPT !.response_started = TRUE, !.task_done = TRUE, !.task = "blocked"]
                    \in StreamEntry
              /\ Alike([e EXCEPT !.response_started = TRUE, !.task_done = TRUE,
                                 !.task = "blocked"], e)
            BY <2>3, Zenon DEF StreamEntry, TaskState, Alike
        <3>4. /\ [e EXCEPT !.task_done = TRUE, !.response_started = @ \/ e.task = "cut"]
                    \in StreamEntry
              /\ Alike([e EXCEPT !.task_done = TRUE, !.response_started = @ \/ e.task = "cut"], e)
            BY <2>3, Zenon DEF StreamEntry, Alike
        <3> QED BY <3>1, <3>2, <3>3, <3>4
    <2>5. Light
        <3>1. CASE streams' = Without(streams, i)
            BY <2>1, <3>1 DEF Light, Alike, Without, StreamsInv, TypeInv, Open, rest, errors, body
        <3>2. CASE streams' # Without(streams, i)
            BY <2>1, <2>2, <2>4, <3>2, Zenon
               DEF Light, Alike, With, StreamsInv, TypeInv, Open, rest, errors, body
        <3> QED BY <3>1, <3>2
    <2>6. Open \ {i} \subseteq DOMAIN streams'
        BY <2>4 DEF With, Without, Open
    <2>7. DrainInv'
        BY <2>1, <2>2, <2>6 DEF DrainInv, Open
    <2> QED BY <2>1, <2>5, <2>7, TaskKeeps
<1>3. CASE EndDrain
    BY <1>3, LoopKeeps DEF EndDrain
<1> QED BY <1>1, <1>2, <1>3 DEF ConnectionStep, EndOfRead, Wake

\* The shutdown token, the idle timeout and the end of the input.
LEMMA LoopEventKeeps ==
    ASSUME StreamsInv, LoopEvent
    PROVE  StreamsInv'
<1>1. CASE Shutdown
    BY <1>1, LoopKeeps, Zenon DEF Shutdown, BeginGraceful
<1>2. CASE IdleTimeout
    BY <1>2, LoopKeeps, Zenon DEF IdleTimeout, BeginGraceful
<1>3. CASE EndOfFile
    BY <1>3, LoopKeeps DEF EndOfFile
<1> QED BY <1>1, <1>2, <1>3 DEF LoopEvent

\* The stream tasks and the body readers.
LEMMA TaskStepKeeps ==
    ASSUME StreamsInv, NEW i \in Ids, TaskStep(i)
    PROVE  StreamsInv'
<1>0. ASSUME NEW f \in StreamEntry, i \in Open, Alike(f, streams[i]),
             streams' = [streams EXCEPT ![i] = f],
             UNCHANGED <<highest_stream_id, block_stream, closing, peer_goaway, handlers, told>>
      PROVE  Light
    BY <1>0 DEF Light, Alike, StreamsInv, TypeInv, Open
<1>1. ASSUME NEW from, NEW to \in TaskState, Task(i, from, to)
      PROVE  StreamsInv'
    <2>1. i \in Open /\ streams' = [streams EXCEPT ![i] = [streams[i] EXCEPT !.task = to]]
        BY <1>1 DEF Task
    <2>2. /\ [streams[i] EXCEPT !.task = to] \in StreamEntry
          /\ Alike([streams[i] EXCEPT !.task = to], streams[i])
        BY <2>1, OpenFacts DEF StreamEntry, Alike
    <2>3. UNCHANGED <<highest_stream_id, block_stream, closing, peer_goaway, handlers, told>>
        BY <1>1 DEF Task, rest, errors, body
    <2>4. Light
        BY <1>0, <2>1, <2>2, <2>3, Zenon
    <2>5. DrainInv'
        BY <1>1 DEF Task, DrainInv, loop
    <2> QED BY <1>1, <2>4, <2>5, TaskKeeps DEF Task
<1>2. CASE DropReader(i)
    <2>1. UNCHANGED <<highest_stream_id, block_stream, closing, peer_goaway, handlers, told>>
        BY <1>2 DEF DropReader, errors
    <2>2. ASSUME i \in Open PROVE Light
        <3>1. streams' = [streams EXCEPT ![i] = [streams[i] EXCEPT !.body = "gone"]]
            BY <1>2, <2>2 DEF DropReader
        <3>2. /\ [streams[i] EXCEPT !.body = "gone"] \in StreamEntry
              /\ Alike([streams[i] EXCEPT !.body = "gone"], streams[i])
            BY <2>2, OpenFacts DEF StreamEntry, Alike
        <3> QED BY <1>0, <2>1, <2>2, <3>1, <3>2, Zenon
    <2>3. ASSUME i \notin Open PROVE Light
        BY <1>2, <2>1, <2>3 DEF DropReader, Light, Alike, StreamsInv, TypeInv, Open
    <2>4. DrainInv'
        BY <1>2 DEF DropReader, DrainInv, loop
    <2> QED BY <1>2, <2>2, <2>3, <2>4, TaskKeeps DEF DropReader
<1>3. CASE ReaderEnds(i)
    <2>1. Light
        BY <1>3 DEF Light, Alike, ReaderEnds, StreamsInv, TypeInv, Open, errors
    <2> QED BY <1>3, <2>1, TaskKeeps DEF ReaderEnds, DrainInv, loop
<1> QED BY <1>1, <1>2, <1>3
        DEF TaskStep, TaskResponds, TaskDone, TaskFails, TaskAborts, TaskState
-----------------------------------------------------------------------------
\* The inductive invariant holds in every reachable state, for any number of
\* streams, any limits and any order of frames, tasks and loop events.
THEOREM StreamsInvariant == Spec => []StreamsInv
<1>1. Init => StreamsInv
    <2> SUFFICES ASSUME Init PROVE StreamsInv
        OBVIOUS
    <2>1. Open = {} /\ streams \in [{} -> StreamEntry]
        BY DEF Init, Open
    <2>2. TypeInv
        <3>1. highest_stream_id \in Nat /\ graceful_last_stream \in Nat /\ block_stream \in Nat
            BY DEF Init, None
        <3>2. closing \in BOOLEAN /\ peer_goaway \in BOOLEAN /\ graceful \in BOOLEAN
            BY Zenon DEF Init
        <3>3. handlers \in [Ids -> {0, 1}] /\ told \in [Ids -> Told] /\ goaways \in Seq(Nat)
            BY DEF Init, Told
        <3> QED BY <2>1, <3>1, <3>2, <3>3 DEF TypeInv
    <2>3. FreshInv /\ EntryInv /\ BlockInv
        BY <2>1 DEF Init, FreshInv, EntryInv, BlockInv
    <2>4. GoAwayInv /\ DrainInv
        BY DEF Init, GoAwayInv, DrainInv
    <2> QED BY <2>2, <2>3, <2>4 DEF StreamsInv
<1>2. StreamsInv /\ [Next]_vars => StreamsInv'
    <2> SUFFICES ASSUME StreamsInv, [Next]_vars
                 PROVE  StreamsInv'
        OBVIOUS
    <2>1. CASE PeerFrame
        BY <2>1, HeadersKeeps, HeadersOpenKeeps, ContinuationKeeps, ContinuationOpenKeeps,
           DataKeeps, ResetFrameKeeps, WindowUpdateKeeps, BadFramesKeep DEF PeerFrame
    <2>2. CASE ConnectionStep
        BY <2>2, ConnectionKeeps
    <2>3. CASE LoopEvent
        BY <2>3, LoopEventKeeps
    <2>4. CASE \E i \in Ids : TaskStep(i)
        BY <2>4, TaskStepKeeps
    <2>5. CASE UNCHANGED vars
        BY <2>5 DEF vars, StreamsInv, TypeInv, FreshInv, EntryInv, BlockInv, GoAwayInv, DrainInv,
                    Open, Sound, InBlock, errors, shutdown, loop, body
    <2> QED BY <2>1, <2>2, <2>3, <2>4, <2>5 DEF Next
<1> QED BY <1>1, <1>2, PTL DEF Spec

\* A stream's request is handed to the handler at most once, whatever the peer
\* sends on the id later (spawn_request).
THEOREM RequestsHandledOnce == Spec => []HandledOnce
<1>1. StreamsInv => HandledOnce
    BY DEF StreamsInv, TypeInv, HandledOnce
<1> QED BY <1>1, StreamsInvariant, PTL

\* All the GOAWAY frames of a connection name the same stream, and no request
\* above it is ever handled (goaway, begin_graceful_shutdown,
\* finish_graceful_shutdown).
THEOREM GoAwaysAreTruthful == Spec => []GoAwayTruthful
<1>1. StreamsInv => GoAwayTruthful
    <2> SUFFICES ASSUME StreamsInv, NEW k \in DOMAIN goaways
                 PROVE  /\ \A j \in 1 .. k - 1 : goaways[k] <= goaways[j]
                        /\ \A i \in Ids : handlers[i] > 0 => i <= goaways[k]
        BY DEF GoAwayTruthful
    <2>1. goaways[k] = highest_stream_id /\ highest_stream_id \in Nat
        BY DEF StreamsInv, TypeInv, GoAwayInv
    <2>2. \A j \in 1 .. k - 1 : goaways[j] = highest_stream_id
        BY DEF StreamsInv, TypeInv, GoAwayInv
    <2>3. \A i \in Ids : handlers[i] > 0 => i <= highest_stream_id
        BY <2>1, StreamsAssumption DEF StreamsInv, FreshInv, Ids
    <2> QED BY <2>1, <2>2, <2>3
<1> QED BY <1>1, StreamsInvariant, PTL

\* The codec's open field block and the frame counts of the entries agree, and
\* no count passes the flood limit (check_continuation_flood).
THEOREM BlocksAgree == Spec => []OneOpenBlock
<1>1. StreamsInv => OneOpenBlock
    BY DEF StreamsInv, BlockInv, InBlock, OneOpenBlock
<1> QED BY <1>1, StreamsInvariant, PTL

\* A request body is told DATA, trailers and its end in this order, and its end
\* only with the octets its content-length declared (end_request_body).
THEOREM BodiesAsDeclared == Spec => []BodyAsDeclared
<1>1. StreamsInv => BodyAsDeclared
    BY DEF StreamsInv, TypeInv, EntryInv, Sound, Told, BodyAsDeclared
<1> QED BY <1>1, StreamsInvariant, PTL
==============================================================================
