------------------------------- MODULE Qpack --------------------------------
(***************************************************************************)
(* A QPACK encoder and a QPACK decoder of this crate at the two ends of a  *)
(* connection, joined the way the HTTP/3 layer joins them                  *)
(* (src/h3/control/mod.rs and src/h3/stream/mod.rs): encoder instructions  *)
(* and decoder instructions on a stream of their own, field sections on    *)
(* the request streams.  The streams are independent, so a section may     *)
(* overtake the instructions it needs, and a chunk may end inside an       *)
(* instruction.                                                            *)
(***************************************************************************)
EXTENDS QpackDecoder

CONSTANTS Streams,
          HeaderLists,     \* the field lists the application sends
          InsertFields,    \* fields inserted outside of a field section
          Capacities,      \* capacities the encoder is set to
          BlockLimit,      \* peer_max_field_section_size, in lines of a block
          MaxInserts,      \* bound on the insertions
          MaxSections,     \* bound on the sections sent
          MaxChunk,        \* bound on the octets of a chunk
          MaxInFlight      \* bound on the encoder instructions in flight

VARIABLES enc, dec,
          estream,         \* octets in flight on the encoder stream
          dstream,         \* octets in flight on the decoder stream
          wire,            \* blocks in flight on each request stream
          sent, got,       \* field lists sent and delivered on each stream
          cancelled,       \* streams the receiver has abandoned
          finished,        \* streams the receiver has seen the end of
          failed

vars == <<enc, dec, estream, dstream, wire, sent, got, cancelled, finished, failed>>

Init ==
    /\ enc = NewEncoder
    /\ dec = NewDecoder
    /\ estream = <<>>
    /\ dstream = <<>>
    /\ wire = [s \in Streams |-> <<>>]
    /\ sent = [s \in Streams |-> <<>>]
    /\ got = [s \in Streams |-> <<>>]
    /\ cancelled = {}
    /\ finished = {}
    /\ failed = FALSE

-----------------------------------------------------------------------------
(* The sending end *)

\* A block over the peer's limit is not sent, and neither are the instructions
\* that were made with it.
MutQueued(r) == [send |-> Len(r.block.lines) <= BlockLimit, out |-> SubSeq(r.out, 1, Len(r.out) - 1)]
Queued(r) ==
    LET fits == Len(r.block.lines) <= BlockLimit
    IN  [send |-> fits, out |-> IF fits THEN r.out ELSE <<>>]

SumLen(queues) == FoldFunction(LAMBDA q, n : Len(q) + n, 0, queues)
Room == Len(estream) < 2 * MaxInFlight

\* The Base is the Known Received Count (encode_section_with_ack_base).
encode_headers(s, h) ==
    \E r \in {encode_section_with_base(enc, s, h, enc.known)} :
        /\ ~failed /\ s \notin finished \cup cancelled /\ SumLen(sent) < MaxSections /\ Room
        /\ r.e.table.inserted <= MaxInserts
        /\ enc' = r.e
        /\ estream' = estream \o Octets(Queued(r).out)
        /\ wire' = IF Queued(r).send THEN [wire EXCEPT ![s] = Append(@, r.block)] ELSE wire
        /\ sent' = IF Queued(r).send THEN [sent EXCEPT ![s] = Append(@, h)] ELSE sent
        /\ UNCHANGED <<dec, dstream, got, cancelled, finished, failed>>

EncodeSection == \E s \in Streams, h \in HeaderLists : encode_headers(s, h)

ChangeTable(r) ==
    /\ ~failed /\ r.out # <<>> /\ Room
    /\ r.e.table.inserted <= MaxInserts
    /\ enc' = r.e
    /\ estream' = estream \o Octets(r.out)
    /\ UNCHANGED <<dec, dstream, wire, sent, got, cancelled, finished, failed>>

InsertLiteral == \E f \in InsertFields : ChangeTable(insert_literal(enc, f))
InsertWithNameRef == \E f \in InsertFields : ChangeTable(insert_with_name_ref(enc, f))
Duplicate == \E rel \in 0..(MaxEntries - 1) : ChangeTable(duplicate(enc, rel))
SetCapacity == \E c \in Capacities : ChangeTable(change_capacity(enc, c))

FeedDecoderStream(n) ==
    \E r \in {feed_decoder_stream(enc, enc.buf \o SubSeq(dstream, 1, n))} :
        /\ ~failed
        /\ dstream' = SubSeq(dstream, n + 1, Len(dstream))
        /\ enc' = r.e
        /\ failed' = ~r.ok
        /\ UNCHANGED <<dec, estream, wire, sent, got, cancelled, finished>>

-----------------------------------------------------------------------------
(* The receiving end *)

Delivered(done) == FoldLeft(LAMBDA g, x : [g EXCEPT ![x.s] = Append(@, x.headers)], got, done)

\* The instructions the decoder has queued leave when it is fed, and only then.
FeedEncoderStream(n) ==
    \E r \in {feed_encoder_stream(dec, dec.buf \o SubSeq(estream, 1, n))} :
        /\ ~failed
        /\ estream' = SubSeq(estream, n + 1, Len(estream))
        /\ failed' = ~r.ok
        /\ got' = IF r.ok THEN Delivered(r.done) ELSE got
        /\ dec' = IF r.ok THEN [r.d EXCEPT !.out = <<>>] ELSE r.d
        /\ dstream' = IF r.ok THEN dstream \o Octets(r.d.out) ELSE dstream
        /\ UNCHANGED <<enc, wire, sent, cancelled, finished>>

DecodeBlock(s) ==
    /\ ~failed /\ wire[s] # <<>>
    /\ wire' = [wire EXCEPT ![s] = Tail(@)]
    /\ \E r \in {decode_block(dec, Head(wire[s]), s)} :
          /\ dec' = r.d
          /\ failed' = ~r.ok
          /\ got' = Delivered(r.done)
    /\ UNCHANGED <<enc, estream, dstream, sent, cancelled, finished>>

\* The end of the stream is seen behind its sections, none of them blocked.
FinishStream(s) ==
    /\ ~failed /\ wire[s] = <<>> /\ ~stream_has_blocked(dec, s)
    /\ s \notin cancelled \cup finished /\ sent[s] # <<>>
    /\ dec' = stream_finished(dec, s)
    /\ finished' = finished \cup {s}
    /\ UNCHANGED <<enc, estream, dstream, wire, sent, got, cancelled, failed>>

\* What is still in flight on a stream that was given up is thrown away.
Discard(ss) == [s \in Streams |-> IF s \in ss THEN <<>> ELSE wire[s]]
StreamsOf(k) == { b.s : b \in ToSet(SubSeq(dec.blocked, 1, k)) }

CancelStream(s) ==
    /\ ~failed /\ s \notin cancelled \cup finished
    /\ dec' = stream_cancelled(dec, s)
    /\ cancelled' = cancelled \cup {s}
    /\ wire' = Discard({s})
    /\ UNCHANGED <<enc, estream, dstream, sent, got, finished, failed>>

ExpireBlocked(k) ==
    /\ ~failed /\ k <= Len(dec.blocked)
    /\ dec' = expire_blocked(dec, k)
    /\ cancelled' = cancelled \cup StreamsOf(k)
    /\ wire' = Discard(StreamsOf(k))
    /\ UNCHANGED <<enc, estream, dstream, sent, got, finished, failed>>

-----------------------------------------------------------------------------
Next ==
    \/ EncodeSection
    \/ InsertLiteral
    \/ InsertWithNameRef
    \/ Duplicate
    \/ SetCapacity
    \/ \E n \in 1..Min({MaxChunk, Len(estream)}) : FeedEncoderStream(n)
    \/ \E n \in 1..Min({MaxChunk, Len(dstream)}) : FeedDecoderStream(n)
    \/ \E s \in Streams : DecodeBlock(s)
    \/ \E s \in Streams : FinishStream(s)
    \/ \E s \in Streams : CancelStream(s)
    \/ \E k \in 1..Len(dec.blocked) : ExpireBlocked(k)

Spec == Init /\ [][Next]_vars

-----------------------------------------------------------------------------
(* Properties *)

Mirror(t) == <<t.capacity, t.entries, t.inserted>>

\* Once the decoder has taken every instruction on its way, its table is the
\* encoder's table: "dynamic table state stays coherent across the connection"
\* (src/h3/stream/mod.rs).  The encoder's lookup maps find in it what a scan
\* from the newest entry finds.
TablesCoherent ==
    /\ \A f \in InsertFields \cup UNION { ToSet(h) : h \in HeaderLists } :
        /\ At(enc.table.exact, <<f.n, f.v>>) = ScanFull(enc.table, f)
        /\ At(enc.table.name, f.n) = ScanName(enc.table, f)
    /\ ~failed =>
        LET apply(t, instr) ==
                CASE instr.op = "capacity" -> set_capacity(t, instr.i)
                  [] instr.op = "duplicate" -> insert(t, t.entries[instr.i + 1])
                  [] OTHER -> insert(t, instr.f)
        IN  Mirror(FoldLeft(apply, dec.table, Whole(dec.buf \o estream))) = Mirror(enc.table)

Pending(s) == wire[s] \o [i \in DOMAIN SelectSeq(dec.blocked, LAMBDA b : b.s = s) |->
                             SelectSeq(dec.blocked, LAMBDA b : b.s = s)[i].block]

\* An entry that a section not yet decoded refers to is still in the encoder's
\* table: insertions, duplications and capacity changes evict nothing the
\* decoder will need (the purpose of evictable_floor), and cached_min_pending
\* is the smallest entry an unacknowledged section refers to.
ReferencesPinned ==
    /\ enc.min = SmallestRef(enc.refs)
    /\ \A s \in Streams \ cancelled : \A block \in ToSet(Pending(s)) :
        LET ric == Unwrapped(dec, block.prefix.ric)
            base == BaseOf(ric, block.prefix)
        IN  ~failed => /\ ric # None
                       /\ \A l \in ToSet(block.lines) :
                             Needs(base, l) > 0 => Needs(base, l) - 1 >= Oldest(enc.table)

Transport == INSTANCE FieldTransport
    WITH Lists <- HeaderLists,
         TooLarge <- LAMBDA lists : SizeOf(FlattenSeq(lists)) > MaxFieldSectionSize,
         abandoned <- cancelled

\* The codecs implement the abstract transport: the lists sent are the lists
\* got, in order on each stream, and only an oversized stream makes an error.
ImplementsTransport == Transport!Spec

\* A blocked section waits for nothing but instructions on their way: once the
\* decoder has taken them all, every section it was given has been decoded, in
\* whatever order the streams delivered (feed_encoder_stream drains the queue).
NothingLeftBlocked == (estream = <<>> /\ ~failed) => dec.blocked = <<>>
=============================================================================
