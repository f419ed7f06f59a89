----------------------------- MODULE QpackTable -----------------------------
(***************************************************************************)
(* The QPACK dynamic table (src/h3/qpack/table.rs).                        *)
(*                                                                         *)
(* A field line is a record of a name n, a value v and len, the octets of  *)
(* both.  Entries are newest first; an entry keeps the absolute index it   *)
(* got when it was inserted.  The encoder's table (mapped) also keeps two  *)
(* maps, the newest absolute index of every field line and of every name.  *)
(***************************************************************************)
EXTENDS Integers, Sequences, SequencesExt

CONSTANT HybridThreshold   \* HYBRID_THRESHOLD: scan up to it, use the maps above

ASSUME ThresholdAssumption == HybridThreshold \in Nat

Overhead == 32             \* octets an entry costs beyond its name and value
None == -1

EntrySize(f) == f.len + Overhead
SizeOf(es) == FoldLeft(LAMBDA a, f : a + EntrySize(f), 0, es)

EmptyTable(c, mapped) ==
    [capacity |-> c, entries |-> <<>>, inserted |-> 0, mapped |-> mapped,
     exact |-> <<>>, name |-> <<>>]

Oldest(t) == t.inserted - Len(t.entries)

\* The entries that stay when the size may be at most max: the newest ones.
Survivors(t, max) == Max({ k \in 0..Len(t.entries) : SizeOf(SubSeq(t.entries, 1, k)) <= max })

\* An evicted entry leaves the maps when it is the newest of its key.
Forgotten(map, gone) == RestrictValues(map, LAMBDA abs : abs >= gone)

evict_to_fit(t, max) ==
    LET k == Survivors(t, max)
    IN  [t EXCEPT !.entries = SubSeq(@, 1, k),
                  !.exact = Forgotten(@, t.inserted - k),
                  !.name = Forgotten(@, t.inserted - k)]

set_capacity(t, c) == evict_to_fit([t EXCEPT !.capacity = c], c)

\* How many of the oldest entries an insert of size octets evicts.
would_evict(t, size) ==
    LET need == size - (t.capacity - SizeOf(t.entries))
        n == Len(t.entries)
        enough == { k \in 0..n : SizeOf(SubSeq(t.entries, n - k + 1, n)) >= need }
    IN  IF enough = {} THEN n ELSE Min(enough)

evict_for_capacity(t, target) == Len(t.entries) - Survivors(t, target)

Fits(t, f) == EntrySize(f) <= t.capacity

Recorded(t, map, key) == IF t.mapped THEN (key :> t.inserted) @@ map ELSE map

insert(t, f) ==
    LET u == evict_to_fit(t, t.capacity - EntrySize(f))
    IN  [u EXCEPT !.entries = <<f>> \o @,
                  !.inserted = @ + 1,
                  !.exact = Recorded(t, @, <<f.n, f.v>>),
                  !.name = Recorded(t, @, f.n)]

\* A result that may be missing is a sequence of at most one.
Absent == <<>>

\* The entry with absolute index abs.
get_absolute(t, abs) ==
    IF abs < Oldest(t) \/ abs >= t.inserted THEN Absent ELSE <<t.entries[t.inserted - abs]>>

get_relative(t, i) == get_absolute(t, t.inserted - 1 - i)
get_base_relative(t, base, i) == IF i >= base THEN Absent ELSE get_absolute(t, base - 1 - i)
get_post_base(t, base, i) == get_absolute(t, base + i)

At(map, key) == IF key \in DOMAIN map THEN map[key] ELSE None

\* The newest entry that Test holds of, by a scan: its absolute index.
Scan(t, Test(_)) ==
    LET i == SelectInSeq(t.entries, Test) IN IF i = 0 THEN None ELSE t.inserted - i

ScanFull(t, f) == Scan(t, LAMBDA e : e.n = f.n /\ e.v = f.v)
ScanName(t, f) == Scan(t, LAMBDA e : e.n = f.n)

UseMaps(t) == t.mapped /\ Len(t.entries) > HybridThreshold

find_full(t, f) == IF UseMaps(t) THEN At(t.exact, <<f.n, f.v>>) ELSE ScanFull(t, f)
find_name(t, f) == IF UseMaps(t) THEN At(t.name, f.n) ELSE ScanName(t, f)
=============================================================================
