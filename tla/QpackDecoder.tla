---------------------------- MODULE QpackDecoder ----------------------------
(***************************************************************************)
(* The QPACK decoder (src/h3/qpack/decoder/mod.rs) as operators on its     *)
(* state, a record of the dynamic table, known_received, the queue blocked *)
(* of sections [s, block, ric], count (blocked_by_stream, a bag), used     *)
(* (section_size_by_stream), out (the decoder stream instructions queued)  *)
(* and buf, octets of the encoder stream that form no instruction yet.     *)
(***************************************************************************)
EXTENDS QpackEncoder

CONSTANTS MaxBlockedStreams,     \* SETTINGS_QPACK_BLOCKED_STREAMS
          MaxFieldSectionSize,   \* SETTINGS_MAX_FIELD_SECTION_SIZE
          MaxFieldsPerSection    \* MAX_FIELDS_PER_SECTION

NewDecoder ==
    [table |-> EmptyTable(0, FALSE), known |-> 0, blocked |-> <<>>, count |-> EmptyBag,
     used |-> <<>>, out |-> <<>>, buf |-> <<>>]

-----------------------------------------------------------------------------
(* parse_encoder_instruction: the table after it, Absent when it is an     *)
(* error (which ends the connection).                                      *)

insert_entry(d, f) ==
    IF would_evict(d.table, EntrySize(f)) > d.known \/ ~Fits(d.table, f)
    THEN Absent
    ELSE <<insert(d.table, f)>>

InsertFound(d, found) == IF found = Absent THEN Absent ELSE insert_entry(d, found[1])

\* The value of f under the name of the entry found.
Named(found, f) == IF found = Absent THEN Absent ELSE <<[f EXCEPT !.n = found[1].n]>>

parse_encoder_instruction(d, instr) ==
    CASE instr.op = "name" ->
            InsertFound(d, Named(get_relative(d.table, instr.i), instr.f))
      [] instr.op \in {"static_name", "literal"} -> insert_entry(d, instr.f)
      [] instr.op = "duplicate" ->
            InsertFound(d, get_relative(d.table, instr.i))
      [] instr.op = "capacity" ->
            IF instr.i > MaxCapacity \/ evict_for_capacity(d.table, instr.i) > d.known
            THEN Absent
            ELSE <<set_capacity(d.table, instr.i)>>

-----------------------------------------------------------------------------
(* decode_ready *)

\* The Required Insert Count nearest the decoder's own Insert Count, or None.
Nearest(enc, top, range) ==
    LET ric == (top \div range) * range + enc - 1
    IN  CASE enc > range \/ (ric > top /\ ric <= range) -> None
          [] enc <= range /\ ric > top /\ ric > range -> ric - range
          [] enc <= range /\ ric <= top -> IF ric = 0 THEN None ELSE ric
Unwrapped(d, enc) ==
    IF enc = 0 \/ MaxEntries = 0 THEN 0
    ELSE Nearest(enc, d.table.inserted + MaxEntries, 2 * MaxEntries)

BaseOf(ric, prefix) == IF prefix.neg THEN ric - prefix.delta - 1 ELSE ric + prefix.delta

\* The field a line stands for, and the insert count it needs.
Resolve(d, base, l) ==
    CASE l.t = "indexed" -> get_base_relative(d.table, base, l.i)
      [] l.t = "indexed_post" -> get_post_base(d.table, base, l.i)
      [] l.t = "name" -> Named(get_base_relative(d.table, base, l.i), l.f)
      [] l.t = "name_post" -> Named(get_post_base(d.table, base, l.i), l.f)
      [] l.t \in {"static", "static_name", "literal"} -> <<l.f>>

Needs(base, l) ==
    CASE l.t \in {"indexed", "name"} -> base - l.i
      [] l.t \in {"indexed_post", "name_post"} -> base + l.i + 1
      [] OTHER -> 0

remaining_budget(d, s) ==
    LET used == At(d.used, s) IN MaxFieldSectionSize - (IF used = None THEN 0 ELSE used)

\* The field list of a block within its stream's budget.
Accepted(d, s, headers) ==
    SizeOf(headers) <= remaining_budget(d, s) /\ Len(headers) <= MaxFieldsPerSection

Materialized(d, s, found) ==
    IF Absent \in ToSet(found) \/ ~Accepted(d, s, FlattenSeq(found)) THEN Absent ELSE <<FlattenSeq(found)>>

DecodeLines(d, s, lines, ric, base) ==
    IF ric = None \/ base < 0 \/ ric # Max({0} \cup { Needs(base, l) : l \in ToSet(lines) })
    THEN Absent
    ELSE Materialized(d, s, [i \in DOMAIN lines |-> Resolve(d, base, lines[i])])

decode_ready(d, block, s) ==
    DecodeLines(d, s, block.lines, Unwrapped(d, block.prefix.ric),
                BaseOf(Unwrapped(d, block.prefix.ric), block.prefix))

account_section(d, s, size) ==
    [d EXCEPT !.used = (s :> MaxFieldSectionSize - remaining_budget(d, s) + size) @@ @]

acknowledge(d, s, ric) ==
    IF ric = 0 THEN d ELSE [d EXCEPT !.known = Max({@, ric}), !.out = Append(@, [op |-> "ack", s |-> s])]

\* A section decoded: charged to its stream and acknowledged.
Decoded(d, s, ric, headers) == acknowledge(account_section(d, s, SizeOf(headers)), s, ric)

-----------------------------------------------------------------------------
(* decode_block: the decoder, ok, and the sections it delivers.            *)

stream_has_blocked(d, s) == CopiesIn(s, d.count) > 0

MutMustWait(d, s, ric) == ric > d.table.inserted
MustWait(d, s, ric) == ric > d.table.inserted \/ stream_has_blocked(d, s)

Failed(d) == [d |-> d, ok |-> FALSE, done |-> <<>>]

add_blocked_section(d, s, block, ric) ==
    IF ~stream_has_blocked(d, s) /\ Cardinality(BagToSet(d.count)) >= MaxBlockedStreams
    THEN Failed(d)
    ELSE [d |-> [d EXCEPT !.blocked = Append(@, [s |-> s, block |-> block, ric |-> ric]),
                          !.count = @ (+) SetToBag({s})],
          ok |-> TRUE, done |-> <<>>]

Deliver(d, s, ric, headers, done) ==
    IF headers = Absent THEN Failed(d)
    ELSE [d |-> Decoded(d, s, ric, headers[1]), ok |-> TRUE,
          done |-> Append(done, [s |-> s, headers |-> headers[1]])]

DecodeOrWait(d, block, s, ric) ==
    CASE ric = None \/ BaseOf(ric, block.prefix) < 0 -> Failed(d)
      [] ric # None /\ BaseOf(ric, block.prefix) >= 0 ->
         IF MustWait(d, s, ric) THEN add_blocked_section(d, s, block, ric)
         ELSE Deliver(d, s, ric, decode_ready(d, block, s), <<>>)

decode_block(d, block, s) == DecodeOrWait(d, block, s, Unwrapped(d, block.prefix.ric))

-----------------------------------------------------------------------------
(* feed_encoder_stream *)

Applied(r, table) == IF table = Absent THEN Failed(r.d) ELSE [r EXCEPT !.d.table = table[1]]
ParseStep(r, instr) == IF r.ok THEN Applied(r, parse_encoder_instruction(r.d, instr)) ELSE r

ParseAll(d, octets) ==
    FoldLeft(ParseStep, [d |-> [d EXCEPT !.buf = Rest(octets)], ok |-> TRUE, done |-> <<>>], Whole(octets))

\* How many sections at the front of the queue can be decoded.
MutReadyPrefix(d) == IF d.blocked = <<>> \/ d.blocked[1].ric > d.table.inserted THEN 0 ELSE 1
ReadyPrefix(d) ==
    LET waits == SelectInSeq(d.blocked, LAMBDA b : b.ric > d.table.inserted)
    IN  IF waits = 0 THEN Len(d.blocked) ELSE waits - 1

Popped(d, b) == [d EXCEPT !.blocked = Tail(@), !.count = @ (-) SetToBag({b.s})]
DecodeBlocked(d, b, done) == Deliver(d, b.s, b.ric, decode_ready(d, b.block, b.s), done)
Unblock(r, b) == IF r.ok THEN DecodeBlocked(Popped(r.d, b), b, r.done) ELSE r

\* The coalesced Insert Count Increment.
Increment(d) ==
    IF d.table.inserted > d.known
    THEN [d EXCEPT !.out = Append(@, [op |-> "increment", i |-> d.table.inserted - d.known]),
                   !.known = d.table.inserted]
    ELSE d

Unblocked(r) ==
    IF r.ok THEN FoldLeft(Unblock, r, SubSeq(r.d.blocked, 1, ReadyPrefix(r.d))) ELSE r
Coalesced(r) == IF r.ok THEN [r EXCEPT !.d = Increment(@)] ELSE r

feed_encoder_stream(d, octets) == Coalesced(Unblocked(ParseAll(d, octets)))

-----------------------------------------------------------------------------
stream_finished(d, s) == [d EXCEPT !.used = Restrict(@, DOMAIN @ \ {s})]

\* Every section of the streams leaves the queue, the counts and the budgets.
Abandon(d, ss) ==
    [d EXCEPT !.blocked = SelectSeq(@, LAMBDA b : b.s \notin ToSet(ss)),
              !.count = Restrict(@, DOMAIN @ \ ToSet(ss)),
              !.used = Restrict(@, DOMAIN @ \ ToSet(ss)),
              !.out = @ \o [i \in DOMAIN ss |-> [op |-> "cancel", s |-> ss[i]]]]

stream_cancelled(d, s) == Abandon(d, <<s>>)

\* The sections older than max_age are the first k of the queue, which is in
\* order of arrival; each of their streams is cancelled once.
expire_blocked(d, k) ==
    Abandon(d, FoldLeft(LAMBDA ss, b : IF b.s \in ToSet(ss) THEN ss ELSE Append(ss, b.s),
                        <<>>, SubSeq(d.blocked, 1, k)))
=============================================================================
