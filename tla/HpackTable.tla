----------------------------- MODULE HpackTable -----------------------------
(***************************************************************************)
(* The HPACK header table (src/h2/hpack/table.rs): the static entries      *)
(* 1..STATIC_LEN, then the dynamic ones, newest first.  A header is a      *)
(* record of a name and a value, both sequences of octets.  The encoder's  *)
(* table (mapped) also keeps, for every field and for every name, the      *)
(* combined index of its newest dynamic entry.                             *)
(***************************************************************************)
EXTENDS Integers, Sequences, SequencesExt, FiniteSetsExt, Functions

CONSTANTS
    STATIC_TABLE,       \* the immutable entries, a sequence of headers
    HYBRID_THRESHOLD    \* scan up to this many dynamic entries, then use the maps

ASSUME HpackTableAssumption == HYBRID_THRESHOLD \in Nat /\ Len(STATIC_TABLE) \in Nat

STATIC_LEN == Len(STATIC_TABLE)
ENTRY_OVERHEAD == 32
NotFound == 0

EntrySize(h) == ENTRY_OVERHEAD + Len(h.name) + Len(h.value)
SizeOf(hs) == FoldLeft(LAMBDA a, h : a + EntrySize(h), 0, hs)

with_max_size(max, mapped) ==
    [entries |-> <<>>, size |-> 0, max_size |-> max, mapped |-> mapped,
     exact |-> <<>>, name |-> <<>>]

\* The entry at a combined index, if there is one.
get(t, index) ==
    IF index = 0 THEN <<>>
    ELSE IF index <= STATIC_LEN THEN <<STATIC_TABLE[index]>>
    ELSE IF index - STATIC_LEN \in DOMAIN t.entries THEN <<t.entries[index - STATIC_LEN]>> ELSE <<>>

UseMaps(t) == t.mapped /\ Len(t.entries) > HYBRID_THRESHOLD
Matches(h, e) == e.name = h.name /\ e.value = h.value

\* A dynamic entry by its key in a map, and by a scan.
Mapped(map, key) == IF key \in DOMAIN map THEN map[key] ELSE NotFound
Scanned(t, Test(_)) ==
    LET i == SelectInSeq(t.entries, Test) IN IF i = 0 THEN NotFound ELSE STATIC_LEN + i

\* The static table comes first, whichever way the dynamic one is searched.
StaticFirst(Test(_), dynamic) ==
    LET i == SelectInSeq(STATIC_TABLE, Test) IN IF i # 0 THEN i ELSE dynamic

find(t, h) ==
    StaticFirst(LAMBDA e : Matches(h, e),
                IF UseMaps(t) THEN Mapped(t.exact, h) ELSE Scanned(t, LAMBDA e : Matches(h, e)))

find_name(t, h) ==
    StaticFirst(LAMBDA e : e.name = h.name,
                IF UseMaps(t) THEN Mapped(t.name, h.name)
                ELSE Scanned(t, LAMBDA e : e.name = h.name))

\* An evicted entry leaves a map when the map still points at it: keys is
\* the sequence of the entries' keys, of which the first k stay.
MutForgotten(map, keys, k) == map
Forgotten(map, keys, k) ==
    Restrict(map, { x \in DOMAIN map : \A i \in (k + 1)..Len(keys) :
                                          ~(keys[i] = x /\ map[x] = STATIC_LEN + i) })

\* Entries are popped from the end until the size is at most max.
Evict(t, max) ==
    LET k == Max({ n \in 0..Len(t.entries) : n = 0 \/ SizeOf(SubSeq(t.entries, 1, n)) <= max })
        kept == SubSeq(t.entries, 1, k)
    IN  [t EXCEPT !.entries = kept, !.size = SizeOf(kept),
                  !.exact = Forgotten(@, t.entries, k),
                  !.name = Forgotten(@, [i \in DOMAIN t.entries |-> t.entries[i].name], k)]

set_max_size(t, max) == Evict([t EXCEPT !.max_size = max], max)

\* A front insertion moves every mapped index up by one.
Pushed(map, key) == (key :> STATIC_LEN + 1) @@ [x \in DOMAIN map |-> map[x] + 1]

Push(t, h) ==
    [t EXCEPT !.entries = <<h>> \o @, !.size = @ + EntrySize(h),
              !.exact = IF t.mapped THEN Pushed(@, h) ELSE @,
              !.name = IF t.mapped THEN Pushed(@, h.name) ELSE @]

add(t, h) ==
    IF EntrySize(h) > t.max_size
    THEN [t EXCEPT !.entries = <<>>, !.size = 0, !.exact = <<>>, !.name = <<>>]
    ELSE Push(Evict(t, t.max_size - EntrySize(h)), h)
=============================================================================
