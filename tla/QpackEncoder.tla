---------------------------- MODULE QpackEncoder ----------------------------
(***************************************************************************)
(* The QPACK encoder (src/h3/qpack/encoder/mod.rs) as operators on its     *)
(* state, a record of the dynamic table, known_received, pending_refs (a   *)
(* sequence of stream and smallest reference), cached_min_pending and buf, *)
(* the octets of the decoder stream that form no whole instruction yet.    *)
(*                                                                         *)
(* A field line of a block is a record of its representation t, an index i *)
(* and the field f it carries (name, value or both); an instruction of     *)
(* either stream is a record of its kind op and its operands.              *)
(***************************************************************************)
EXTENDS QpackTable

CONSTANTS MaxCapacity,     \* SETTINGS_QPACK_MAX_TABLE_CAPACITY of the decoder
          StaticFields,    \* field lines the static table holds in full
          StaticNames,     \* names the static table holds
          NeverIndexed     \* NEVER_INDEXED

ASSUME CapacityAssumption == MaxCapacity \in Nat

NoRef == 1000000           \* u64::MAX: no reference is pending
MaxEntries == MaxCapacity \div 32
Usable == MaxCapacity >= 32

NewEncoder ==
    [table |-> EmptyTable(0, TRUE), known |-> 0, refs |-> <<>>, min |-> NoRef, buf |-> <<>>]

evictable_floor(e) == Min({e.known, e.min})

SmallestRef(refs) == Min({NoRef} \cup { r[2] : r \in ToSet(refs) })
recompute_min_pending(e) == [e EXCEPT !.min = SmallestRef(e.refs)]

MutWouldEvictNeeded(e, size) == Oldest(e.table) + would_evict(e.table, size) > e.known
insert_would_evict_needed(e, size) ==
    Oldest(e.table) + would_evict(e.table, size) > evictable_floor(e)

-----------------------------------------------------------------------------
(* encode_section_with_base: the fold's accumulator holds the encoder e,   *)
(* the instructions out, the lines, the Required Insert Count ric and the  *)
(* smallest reference min of the section.                                  *)

NoField == [n |-> "", v |-> 0, len |-> 0]
Line(t, i, f) == [t |-> t, i |-> i, f |-> f]

Refers(acc, abs, line) ==
    [acc EXCEPT !.lines = Append(@, line), !.ric = Max({@, abs + 1}), !.min = Min({@, abs})]

encode_indexed(acc, abs, base) ==
    Refers(acc, abs, IF abs >= base THEN Line("indexed_post", abs - base, NoField)
                                    ELSE Line("indexed", base - abs - 1, NoField))

encode_literal_name_ref(acc, abs, base, f) ==
    Refers(acc, abs, IF abs >= base THEN Line("name_post", abs - base, f)
                                    ELSE Line("name", base - abs - 1, f))

encode_literal(acc, f) ==
    [acc EXCEPT !.lines = Append(@, Line(IF f.n \in StaticNames THEN "static_name" ELSE "literal", 0, f))]

encode_static(acc, f) == [acc EXCEPT !.lines = Append(@, Line("static", 0, f))]

\* An insert may evict nothing this section or an unacknowledged one refers to.
Safe(acc, f) ==
    Oldest(acc.e.table) + would_evict(acc.e.table, EntrySize(f))
        <= Min({acc.min, evictable_floor(acc.e)})

\* Insert with Literal Name, after the capacity when it is not the largest yet.
InsertFresh(acc, f) ==
    LET grow == acc.e.table.capacity # MaxCapacity
        t == IF grow THEN set_capacity(acc.e.table, MaxCapacity) ELSE acc.e.table
    IN  [acc EXCEPT !.e.table = insert(t, f),
                    !.out = @ \o (IF grow THEN <<[op |-> "capacity", i |-> MaxCapacity]>> ELSE <<>>)
                              \o <<[op |-> "literal", f |-> f]>>]

\* The representation, given the newest entries with the line and the name.
Represent(acc, f, base, full, name) ==
    CASE f.n \in NeverIndexed -> encode_literal(acc, f)
      [] f.n \notin NeverIndexed /\ full # None -> encode_indexed(acc, full, base)
      [] OTHER ->
         CASE f \in StaticFields -> encode_static(acc, f)
           [] f \notin StaticFields /\ name # None -> encode_literal_name_ref(acc, name, base, f)
           [] f \notin StaticFields /\ name = None /\ f.n \in StaticNames -> encode_literal(acc, f)
           [] OTHER ->
              IF Usable /\ EntrySize(f) <= MaxCapacity /\ Safe(acc, f)
              THEN encode_indexed(InsertFresh(acc, f), acc.e.table.inserted, base)
              ELSE encode_literal(acc, f)

EncodeField(acc, f, base) ==
    Represent(acc, f, base, IF Usable THEN find_full(acc.e.table, f) ELSE None,
                            IF Usable THEN find_name(acc.e.table, f) ELSE None)

\* The Required Insert Count wraps at twice the entries that fit; the Base
\* is a sign and a distance from it.
Wrapped(ric) == IF ric = 0 \/ MaxEntries = 0 THEN 0 ELSE (ric % (2 * MaxEntries)) + 1

encode_prefix(ric, base) ==
    [ric |-> Wrapped(ric), neg |-> base < ric,
     delta |-> IF base >= ric THEN base - ric ELSE ric - base - 1]

\* A section with references pins what it refers to until it is acknowledged.
Pinned(acc, s) ==
    IF acc.ric = 0 THEN acc.e
    ELSE [acc.e EXCEPT !.refs = Append(@, <<s, acc.min>>), !.min = Min({@, acc.min})]

Section(acc, s, base) ==
    [e |-> Pinned(acc, s), out |-> acc.out,
     block |-> [prefix |-> encode_prefix(acc.ric, base), lines |-> acc.lines]]

encode_section_with_base(e, s, headers, base) ==
    Section(FoldLeft(LAMBDA a, f : EncodeField(a, f, base),
                     [e |-> e, out |-> <<>>, lines |-> <<>>, ric |-> 0, min |-> NoRef], headers),
            s, base)

-----------------------------------------------------------------------------
(* The operations that only change the table: the next encoder and the     *)
(* instruction, or no change and no instruction.                           *)

Refused(e) == [e |-> e, out |-> <<>>]

Inserted(e, f, instr) ==
    IF ~Fits(e.table, f) \/ insert_would_evict_needed(e, EntrySize(f))
    THEN Refused(e)
    ELSE [e |-> [e EXCEPT !.table = insert(@, f)], out |-> <<instr>>]

insert_literal(e, f) == Inserted(e, f, [op |-> "literal", f |-> f])

insert_with_name_ref(e, f) ==
    LET abs == find_name(e.table, f)
    IN  CASE abs # None -> Inserted(e, f, [op |-> "name", i |-> e.table.inserted - abs - 1, f |-> f])
          [] abs = None /\ f.n \in StaticNames -> Inserted(e, f, [op |-> "static_name", f |-> f])
          [] OTHER -> Refused(e)

duplicate(e, rel) ==
    IF rel >= Len(e.table.entries)
    THEN Refused(e)
    ELSE Inserted(e, e.table.entries[rel + 1], [op |-> "duplicate", i |-> rel])

change_capacity(e, c) ==
    IF \/ c > MaxCapacity \/ c = e.table.capacity
       \/ /\ c < e.table.capacity
          /\ Oldest(e.table) + evict_for_capacity(e.table, c) > evictable_floor(e)
    THEN Refused(e)
    ELSE [e |-> [e EXCEPT !.table = set_capacity(@, c)], out |-> <<[op |-> "capacity", i |-> c]>>]

-----------------------------------------------------------------------------
(* feed_decoder_stream *)

SectionAck(e, s) ==
    LET i == SelectInSeq(e.refs, LAMBDA r : r[1] = s)
    IN  IF i = 0 THEN e
        ELSE LET u == [e EXCEPT !.refs = RemoveAt(@, i)]
             IN  IF e.refs[i][2] = e.min THEN recompute_min_pending(u) ELSE u

StreamCancellation(e, s) ==
    recompute_min_pending([e EXCEPT !.refs = SelectSeq(@, LAMBDA r : r[1] # s)])

\* A zero increment, or one past the inserts sent, is an error.
LegalIncrement(e, n) == n # 0 /\ e.known + n <= e.table.inserted

DecoderInstruction(e, instr) ==
    CASE instr.op = "ack" -> SectionAck(e, instr.s)
      [] instr.op = "cancel" -> StreamCancellation(e, instr.s)
      [] instr.op = "increment" -> [e EXCEPT !.known = @ + instr.i]

\* Each instruction is two octets on the wire: a chunk may end inside one.
Octets(instrs) == FlattenSeq([i \in DOMAIN instrs |-> <<instrs[i], instrs[i]>>])
Whole(octets) == [i \in 1..(Len(octets) \div 2) |-> octets[2 * i]]
Rest(octets) == IF Len(octets) % 2 = 0 THEN <<>> ELSE <<octets[Len(octets)]>>

DecoderStep(r, instr) ==
    IF r.ok /\ (instr.op = "increment" => LegalIncrement(r.e, instr.i))
    THEN [r EXCEPT !.e = DecoderInstruction(@, instr)]
    ELSE [r EXCEPT !.ok = FALSE]

feed_decoder_stream(e, octets) ==
    FoldLeft(DecoderStep, [e |-> [e EXCEPT !.buf = Rest(octets)], ok |-> TRUE], Whole(octets))
=============================================================================
