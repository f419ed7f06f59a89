------------------------------- MODULE Hpack -------------------------------
(***************************************************************************)
(* The HPACK encoder and decoder (src/h2/hpack/encode.rs, decode.rs): a    *)
(* header list becomes a block of octets and back, each side keeping its   *)
(* own table.  A queued size update is a sequence of at most one.          *)
(***************************************************************************)
EXTENDS HpackCoding, HpackTable

CONSTANT NEVER_INDEXED   \* the names that are never entered in the table

Encoder(max) == [table |-> with_max_size(max, TRUE), queued |-> <<>>]

\* The larger of the sizes queued since the last block.
Queued(queued, size) == IF queued = <<>> THEN <<size>> ELSE <<Max({queued[1], size})>>

MutQueueSizeUpdate(codec, size) == codec
queue_size_update(codec, size) == [codec EXCEPT !.queued = Queued(@, size)]

\* A name that some entry has is sent as that entry's index.
NameThenValue(t, h, prefix, head) ==
    LET i == find_name(t, h)
    IN  (IF i # NotFound THEN integer_encode(i, prefix, head)
         ELSE <<head>> \o string_encode(h.name)) \o string_encode(h.value)

\* The literal that is to be indexed enters the table.
Entered(t, h) == add(t, h)

EncodeField(s, h) ==
    LET i == find(s.table, h)
    IN  CASE h.name \in NEVER_INDEXED ->
                 [s EXCEPT !.out = @ \o NameThenValue(s.table, h, 4, 16)]
          [] OTHER ->
                 IF i # NotFound THEN [s EXCEPT !.out = @ \o integer_encode(i, 7, 128)]
                 ELSE [s EXCEPT !.out = @ \o NameThenValue(s.table, h, 6, 64),
                                !.table = Entered(@, h)]

\* The queued update is emitted and applied before the first field.
encode(e, headers) ==
    LET s == IF e.queued = <<>> THEN [table |-> e.table, out |-> <<>>]
             ELSE [table |-> set_max_size(e.table, e.queued[1]),
                   out |-> integer_encode(e.queued[1], 5, 32)]
        r == FoldLeft(EncodeField, s, headers)
    IN  [encoder |-> [table |-> r.table, queued |-> <<>>], out |-> r.out]

-----------------------------------------------------------------------------
Decoder(max, max_list) ==
    [table |-> with_max_size(max, FALSE), max_table_size |-> max, queued |-> <<>>,
     max_list |-> max_list]

Representation(first) ==
    CASE first >= 128 -> "indexed"
      [] first \in 64..127 -> "indexing"
      [] first \in 32..63 -> "size"
      [] first \in 16..31 -> "never"
      [] OTHER -> "without"

Prefix(rep) == CASE rep = "indexed" -> 7 [] rep = "indexing" -> 6 [] rep = "size" -> 5 [] OTHER -> 4

\* A loop state with an error stops the loop; what it did stays done.
Stop(s, error) == [s EXCEPT !.error = error]

\* One header more in the list, unless the list is then over its limit.
Listed(s, h, next, enter) ==
    LET total == s.total + Len(h.name) + Len(h.value)
    IN  IF total > s.max_list THEN Stop([s EXCEPT !.total = total], "too_large")
        ELSE [s EXCEPT !.total = total, !.at = next, !.resize = FALSE,
                       !.headers = Append(@, h), !.table = IF enter THEN add(@, h) ELSE @]

Resized(s, size, next) ==
    IF ~s.resize \/ size > s.max_table_size THEN Stop(s, "max_size")
    ELSE [s EXCEPT !.table = set_max_size(@, size), !.at = next]

Indexed(s, index, next) ==
    LET e == get(s.table, index)
    IN  IF e = <<>> THEN Stop(s, "index") ELSE Listed(s, e[1], next, FALSE)

Valued(s, buf, name, rep) ==
    IF name = Failure THEN Stop(s, "string")
    ELSE LET value == string_decode(buf, name[1].next, s.max_list)
         IN  IF value = Failure THEN Stop(s, "string")
             ELSE Listed(s, [name |-> name[1].value, value |-> value[1].value],
                         value[1].next, rep = "indexing")

Named(s, buf, n, rep) ==
    LET e == get(s.table, n.value)
    IN  IF n.value = 0 THEN Valued(s, buf, string_decode(buf, n.next, s.max_list), rep)
        ELSE IF e = <<>> THEN Stop(s, "index")
        ELSE Valued(s, buf, <<[value |-> e[1].name, next |-> n.next]>>, rep)

DecodeField(s, buf) ==
    LET rep == Representation(buf[s.at])
        n == integer_decode(buf, s.at + 1, Prefix(rep), buf[s.at])
    IN  IF n = Failure THEN Stop(s, "integer")
        ELSE CASE rep = "indexed" -> Indexed(s, n[1].value, n[1].next)
               [] rep = "size" -> Resized(s, n[1].value, n[1].next)
               [] OTHER -> Named(s, buf, n[1], rep)

RECURSIVE DecodeFrom(_, _)
DecodeFrom(s, buf) ==
    IF s.error # "none" \/ s.at > Len(buf) THEN s ELSE DecodeFrom(DecodeField(s, buf), buf)

\* The whole block; total is the size of the lists the stream already sent.
decode(d, buf, total) ==
    LET cap == IF d.queued = <<>> THEN d.max_table_size ELSE d.queued[1]
        s == DecodeFrom([table |-> d.table, max_table_size |-> cap, max_list |-> d.max_list,
                         at |-> 1, resize |-> TRUE, total |-> total, headers |-> <<>>,
                         error |-> "none"], buf)
    IN  [decoder |-> [d EXCEPT !.table = s.table, !.max_table_size = cap, !.queued = <<>>],
         headers |-> s.headers, error |-> s.error]
=============================================================================
