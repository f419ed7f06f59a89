------------------------------ MODULE H3Frames ------------------------------
(***************************************************************************)
(* The HTTP/3 frame codec (src/h3/frame.rs) and the settings it carries    *)
(* (src/h3/settings.rs), on octets.  The decoder keeps each received chunk *)
(* as it came, in bufs, and len, their total length.  A result is a frame, *)
(* an error, or neither (more octets are needed).                          *)
(***************************************************************************)
EXTENDS Integers, Sequences, SequencesExt, FiniteSetsExt

CONSTANTS
    MAX_SETTINGS_ENTRIES, MAX_SETTINGS_PAYLOAD, MAX_FRAME_PAYLOAD

ASSUME FrameLimitsAssumption ==
    /\ MAX_SETTINGS_ENTRIES \in Nat /\ MAX_SETTINGS_PAYLOAD \in Nat
    /\ MAX_FRAME_PAYLOAD \in Nat

FRAME_DATA == 0
FRAME_HEADERS == 1
FRAME_CANCEL_PUSH == 3
FRAME_SETTINGS == 4
FRAME_PUSH_PROMISE == 5
FRAME_GOAWAY == 7
FRAME_MAX_PUSH_ID == 13
Http2Only == {2, 6, 8, 9}
SingleVarint == {FRAME_CANCEL_PUSH, FRAME_GOAWAY, FRAME_MAX_PUSH_ID}
is_known_frame_type(ty) ==
    ty \in SingleVarint \union {FRAME_DATA, FRAME_HEADERS, FRAME_SETTINGS, FRAME_PUSH_PROMISE}

From(s, i) == SubSeq(s, i, Len(s))
Total(seqs) == FoldLeft(LAMBDA a, s : a + Len(s), 0, seqs)

-------------------------------------------- \* variable-length integers
\* An encoding of 2^k octets carries values from MIN_VARINT[k] up; the last
\* bound is the largest value an instance uses, not 2^62 - 1.
MIN_VARINT == <<0, 64, 16384, 1073741824>>
Width(value) == Max({ k \in 1..4 : MIN_VARINT[k] <= value })
varint_size(value) == 2 ^ (Width(value) - 1)

OctetOf(value, k) == IF k > 3 THEN 0 ELSE (value \div 256 ^ k) % 256

write_varint(value) ==
    LET n == varint_size(value)
        octets == [i \in 1..n |-> OctetOf(value, n - i)]
    IN  [octets EXCEPT ![1] = @ + 64 * (Width(value) - 1)]

\* A result that may be missing (too few octets) or an error.
Missing == [error |-> "none", found |-> <<>>]
Fault(e) == [error |-> e, found |-> <<>>]
Found(v) == [error |-> "none", found |-> <<v>>]

\* The bound a value of this width has to reach.
TooSmall(value, first) == value < MIN_VARINT[first \div 64 + 1]

parse_varint(buf) ==
    LET n == 2 ^ (buf[1] \div 64)
        value == FoldLeft(LAMBDA a, b : a * 256 + b, buf[1] % 64, SubSeq(buf, 2, n))
    IN  IF buf = <<>> THEN Missing
        ELSE IF Len(buf) < n THEN Missing
        ELSE IF TooSmall(value, buf[1]) THEN Fault("Frame")
        ELSE Found([value |-> value, size |-> n])

\* The integer that has to fill buf exactly.
take_varint(buf) ==
    LET v == parse_varint(buf)
    IN  IF v.error # "none" THEN v
        ELSE IF v.found = <<>> \/ v.found[1].size # Len(buf) THEN Fault("Frame")
        ELSE Found(v.found[1].value)

---------------------------------------------------------- \* SETTINGS
is_grease(v) == v >= 33 /\ (v - 33) % 31 = 0
is_reserved_setting(id) == id \in 2..5

SettingsOctets(entries) ==
    FlattenSeq([i \in DOMAIN entries |-> write_varint(entries[i][1]) \o write_varint(entries[i][2])])

\* Grease is not kept, but counts and may not repeat.
Repeated(seen, id) == id \in seen

RECURSIVE ParseEntries(_, _, _)
ParseEntries(rest, kept, ids) ==
    LET id == parse_varint(rest)
        tail == From(rest, id.found[1].size + 1)
        value == parse_varint(tail)
        n == id.found[1].value
    IN  IF rest = <<>> THEN Found(kept)
        ELSE IF id.found = <<>> \/ value.found = <<>> THEN Fault("Frame")
        ELSE IF \/ Len(ids) + 1 > MAX_SETTINGS_ENTRIES
                \/ is_reserved_setting(n) \/ Repeated(ToSet(ids), n)
             THEN Fault("Settings")
        ELSE ParseEntries(From(tail, value.found[1].size + 1),
                          IF is_grease(n) THEN kept ELSE Append(kept, <<n, value.found[1].value>>),
                          Append(ids, n))

parse_settings(payload) ==
    IF Len(payload) > MAX_SETTINGS_PAYLOAD THEN Fault("Settings")
    ELSE ParseEntries(payload, <<>>, <<>>)

\* The settings both sides know, and what the peer's frame makes of them.
Unlimited == -1
DefaultPeer == [capacity |-> 0, blocked |-> 0, section |-> Unlimited, connect |-> FALSE]

\* The two QPACK limits taken for each other.
MutApplySetting(peer, s) ==
    CASE s[1] = 1 -> [peer EXCEPT !.blocked = s[2]]
      [] s[1] = 6 -> [peer EXCEPT !.section = s[2]]
      [] s[1] = 7 -> [peer EXCEPT !.capacity = s[2]]
      [] s[1] = 8 -> [peer EXCEPT !.connect = s[2] # 0]
      [] OTHER -> peer

ApplySetting(peer, s) ==
    CASE s[1] = 1 -> [peer EXCEPT !.capacity = s[2]]
      [] s[1] = 6 -> [peer EXCEPT !.section = s[2]]
      [] s[1] = 7 -> [peer EXCEPT !.blocked = s[2]]
      [] s[1] = 8 -> [peer EXCEPT !.connect = s[2] # 0]
      [] OTHER -> peer
apply(peer, entries) == FoldLeft(ApplySetting, peer, entries)

\* LocalSettings::to_frame: a reserved identifier comes last.
to_frame(local) ==
    <<<<1, local.capacity>>, <<7, local.blocked>>>>
    \o (IF local.section # Unlimited THEN <<<<6, local.section>>>> ELSE <<>>)
    \o (IF local.connect THEN <<<<8, 1>>>> ELSE <<>>)
    \o <<<<33, 0>>>>

-------------------------------------------------------------- \* frames
Octets(ty, payload) == write_varint(ty) \o write_varint(Len(payload)) \o payload

encode(f) ==
    CASE f.ty = FRAME_SETTINGS -> Octets(f.ty, SettingsOctets(f.entries))
      [] f.ty \in SingleVarint -> Octets(f.ty, write_varint(f.id))
      [] f.ty = FRAME_PUSH_PROMISE -> Octets(f.ty, write_varint(f.id) \o f.payload)
      [] OTHER -> Octets(f.ty, f.payload)

---------------------------------------------------- \* FrameDecoder
NewDecoder(max) == [bufs |-> <<>>, len |-> 0, max_field_section |-> max]

extend(d, data) == [d EXCEPT !.bufs = Append(@, data), !.len = @ + Len(data)]

Before(bufs, i) == Total(SubSeq(bufs, 1, i - 1))

byte_at(bufs, offset) ==
    LET i == CHOOSE i \in DOMAIN bufs : offset - Before(bufs, i) \in 0..(Len(bufs[i]) - 1)
    IN  bufs[i][offset - Before(bufs, i) + 1]

\* The octets an integer at offset may need, out of the chunks.
parse_varint_at(d, offset) ==
    LET n == 2 ^ (byte_at(d.bufs, offset) \div 64)
    IN  IF offset >= d.len THEN Missing
        ELSE IF d.len < offset + n THEN Missing
        ELSE parse_varint([i \in 1..n |-> byte_at(d.bufs, offset + i - 1)])

\* The chunks that the first n octets use up, and what is left of the next.
UsedUp(bufs, n) == Max({ k \in 0..Len(bufs) : Before(bufs, k + 1) <= n })

Remaining(bufs, n) ==
    LET k == UsedUp(bufs, n)
        part == n - Before(bufs, k + 1)
    IN  IF part = 0 THEN From(bufs, k + 1)
        ELSE <<From(bufs[k + 1], part + 1)>> \o From(bufs, k + 2)

advance(d, n) == [d EXCEPT !.bufs = Remaining(@, n), !.len = @ - n]

\* Fragmented across chunks: the whole ones and the part of the next.
MutCoalesced(bufs, n) == FlattenSeq(SubSeq(bufs, 1, UsedUp(bufs, n)))
Coalesced(bufs, n) ==
    LET k == UsedUp(bufs, n)
        part == n - Before(bufs, k + 1)
    IN  FlattenSeq(SubSeq(bufs, 1, k)) \o IF part = 0 THEN <<>> ELSE SubSeq(bufs[k + 1], 1, part)

take_bytes(bufs, n) ==
    IF n = 0 THEN <<>>
    ELSE IF Len(bufs[1]) >= n THEN SubSeq(bufs[1], 1, n) ELSE Coalesced(bufs, n)

ParsePayload(ty, payload) ==
    LET id == take_varint(payload)
        push == parse_varint(payload)
        settings == parse_settings(payload)
    IN  CASE ty \in {FRAME_DATA, FRAME_HEADERS} -> Found([ty |-> ty, payload |-> payload])
          [] ty \in SingleVarint ->
                 IF id.found = <<>> THEN Fault("Frame") ELSE Found([ty |-> ty, id |-> id.found[1]])
          [] ty = FRAME_SETTINGS ->
                 IF settings.found = <<>> THEN settings
                 ELSE Found([ty |-> ty, entries |-> settings.found[1]])
          [] OTHER ->
                 IF push.found = <<>> THEN Fault("Frame")
                 ELSE Found([ty |-> ty, id |-> push.found[1].value,
                             payload |-> From(payload, push.found[1].size + 1)])

\* What the declared length alone refuses, before the payload is there.
RefusedLength(d, ty, len) ==
    CASE ty = FRAME_SETTINGS /\ len > MAX_SETTINGS_PAYLOAD -> "Settings"
      [] len > MAX_FRAME_PAYLOAD -> "ExcessiveLoad"
      [] /\ ty \in {FRAME_HEADERS, FRAME_PUSH_PROMISE}
         /\ d.max_field_section # Unlimited /\ len > d.max_field_section -> "ExcessiveLoad"
      [] ty \in SingleVarint /\ len > 8 -> "Frame"
      [] OTHER -> "none"

\* Nothing is consumed until the whole frame is there.
Available(d, header, len) == header + len <= d.len

Whole(d, ty, header, len) ==
    LET body == advance(d, header)
    IN  IF RefusedLength(d, ty, len) # "none"
        THEN [decoder |-> d, result |-> Fault(RefusedLength(d, ty, len))]
        ELSE IF ~Available(d, header, len) THEN [decoder |-> d, result |-> Missing]
        ELSE [decoder |-> advance(d, header + len),
              result |-> IF is_known_frame_type(ty)
                         THEN ParsePayload(ty, take_bytes(body.bufs, len)) ELSE Missing]

\* One turn of next_frame's loop; a skipped frame is one that is consumed
\* without a result, and the loop goes on.
next_frame(d) ==
    LET ty == parse_varint_at(d, 0)
        len == parse_varint_at(d, ty.found[1].size)
    IN  IF ty.found = <<>> THEN [decoder |-> d, result |-> ty]
        ELSE IF ty.found[1].value \in Http2Only THEN [decoder |-> d, result |-> Fault("Unexpected")]
        ELSE IF len.found = <<>> THEN [decoder |-> d, result |-> len]
        ELSE Whole(d, ty.found[1].value, ty.found[1].size + len.found[1].size, len.found[1].value)
=============================================================================
