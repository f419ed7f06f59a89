---------------------------- MODULE HpackCoding ----------------------------
(***************************************************************************)
(* The primitives of header compression: prefixed integers                 *)
(* (src/hpack/integer.rs), the Huffman code (src/hpack/huffman.rs) and     *)
(* string literals (src/h2/hpack/string.rs).  Octets are numbers below     *)
(* 256, positions start at 1, and a result that may be an error is a       *)
(* sequence of at most one.                                                *)
(***************************************************************************)
EXTENDS Integers, Sequences, SequencesExt, FiniteSetsExt

CONSTANTS
    CODES,          \* octet -> [len, code], for the octets an instance uses
    MaxOctets,      \* continuation octets a decoded integer may have (9)
    IntegerLimit    \* the first integer out of range (2^62)

ASSUME CodingAssumption ==
    /\ MaxOctets \in Nat \ {0} /\ IntegerLimit \in Nat
    /\ \A o \in DOMAIN CODES : o \in 0..255 /\ CODES[o].len \in 5..30

Failure == <<>>

------------------------------------------------------------- \* integers
Continuation ==
    LET groups[v \in Nat] ==
            IF v < 128 THEN <<v>> ELSE <<128 + (v % 128)>> \o groups[v \div 128]
    IN  groups

\* A value that does not fit under the mask goes on in further octets.
MutSpills(value, prefix) == value > 2 ^ prefix - 1
Spills(value, prefix) == value >= 2 ^ prefix - 1

integer_encode(value, prefix, head) ==
    IF Spills(value, prefix)
    THEN <<head + 2 ^ prefix - 1>> \o Continuation[value - (2 ^ prefix - 1)]
    ELSE <<head + value>>

\* The value of a prefixed integer whose first octet is already consumed;
\* at is the position after it.
integer_decode(buf, at, prefix, first) ==
    LET mask == 2 ^ prefix - 1
        ends == { i \in at..(at + MaxOctets - 1) : i <= Len(buf) /\ buf[i] < 128 }
        last == Min(ends)
        value == mask + FoldLeftDomain(LAMBDA a, i : a + (buf[at + i - 1] % 128) * 128 ^ (i - 1),
                                       0, SubSeq(buf, at, last))
    IN  CASE first % (mask + 1) < mask -> <<[value |-> first % (mask + 1), next |-> at]>>
          [] ends = {} -> Failure
          [] OTHER -> IF value >= IntegerLimit THEN Failure
                      ELSE <<[value |-> value, next |-> last + 1]>>

-------------------------------------------------------------- \* Huffman
Bits(n, len) == [i \in 1..len |-> (n \div 2 ^ (len - i)) % 2]
Number(bits) == FoldLeft(LAMBDA a, b : 2 * a + b, 0, bits)
Padding(n) == [i \in 1..n |-> 1]
Code(o) == Bits(CODES[o].code, CODES[o].len)

huffman_encoded_len(src) == FoldLeft(LAMBDA a, o : a + CODES[o].len, 0, src)

\* Padded with ones, the first bits of the end-of-string code.
huffman_encode(src) ==
    LET bits == FlattenSeq([i \in DOMAIN src |-> Code(src[i])])
        padded == bits \o Padding((8 - (Len(bits) % 8)) % 8)
    IN  [i \in 1..(Len(padded) \div 8) |-> Number(SubSeq(padded, 8 * i - 7, 8 * i))]

Ones(bits) == \A i \in DOMAIN bits : bits[i] = 1

\* The octet whose code the bits from i on start with.
CodeAt(bits, i) ==
    { o \in DOMAIN CODES : LET end == i + CODES[o].len - 1
                           IN  end <= Len(bits) /\ Code(o) = SubSeq(bits, i, end) }

\* Where no code starts only padding may be left: fewer than eight ones.
huffman_decode(octets) ==
    LET bits == FlattenSeq([i \in DOMAIN octets |-> Bits(octets[i], 8)])
        padding(i) == Len(bits) - i + 1 < 8 /\ Ones(SubSeq(bits, i, Len(bits)))
        from[i \in 1..(Len(bits) + 1)] ==
            IF CodeAt(bits, i) = {} THEN IF padding(i) THEN <<<<>>>> ELSE Failure
            ELSE LET o == CHOOSE o \in CodeAt(bits, i) : TRUE
                     rest == from[i + CODES[o].len]
                 IN  IF rest = Failure THEN Failure ELSE <<<<o>> \o rest[1]>>
    IN  from[1]

------------------------------------------------------- \* string literals
\* Huffman-coded when its bits are fewer, even if the octets are as many.
Shorter(value) == huffman_encoded_len(value) < 8 * Len(value)

string_encode(value) ==
    IF Shorter(value)
    THEN integer_encode((huffman_encoded_len(value) + 7) \div 8, 7, 128) \o huffman_encode(value)
    ELSE integer_encode(Len(value), 7, 0) \o value

Literal(buf, n, huffman, max) ==
    LET end == n.next + n.value - 1
        octets == SubSeq(buf, n.next, end)
        value == IF huffman THEN huffman_decode(octets) ELSE <<octets>>
    IN  IF n.value > max \/ end > Len(buf) THEN Failure
        ELSE IF value = Failure \/ Len(value[1]) > max THEN Failure
        ELSE <<[value |-> value[1], next |-> end + 1]>>

string_decode(buf, at, max) ==
    IF at > Len(buf) THEN Failure
    ELSE LET n == integer_decode(buf, at + 1, 7, buf[at])
         IN  IF n = Failure THEN Failure ELSE Literal(buf, n[1], buf[at] >= 128, max)
=============================================================================
