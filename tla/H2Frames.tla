------------------------------ MODULE H2Frames ------------------------------
(***************************************************************************)
(* The HTTP/2 frame codec (src/h2/codec/mod.rs) on octets: FrameWriter     *)
(* and FrameDecoder.  Four-octet fields whose value the codec does not     *)
(* interpret (error codes, most settings) stay sequences of octets; an     *)
(* identifier is a number below 2^31.  A result is the frame read, or the  *)
(* error, with the decoder's new state.                                    *)
(***************************************************************************)
EXTENDS Integers, Sequences, SequencesExt, FiniteSetsExt

CONSTANTS
    DEFAULT_MAX_FRAME_SIZE,   \* 16384: no SETTINGS_MAX_FRAME_SIZE may be below it
    MAX_FRAME_SIZE_LIMIT      \* 2^24 - 1: and none above it

ASSUME FrameSizeAssumption ==
    /\ DEFAULT_MAX_FRAME_SIZE \in 1..MAX_FRAME_SIZE_LIMIT
    /\ MAX_FRAME_SIZE_LIMIT < 2 ^ 24

FRAME_HEADER_LEN == 9
DATA == 0
HEADERS == 1
PRIORITY == 2
RST_STREAM == 3
SETTINGS == 4
PUSH_PROMISE == 5
PING == 6
GOAWAY == 7
WINDOW_UPDATE == 8
CONTINUATION == 9
END_STREAM == 1
ACK == 1
END_HEADERS == 4
PADDED == 8
PRIORITIZED == 32

Has(flags, f) == (flags \div f) % 2 = 1
Flag(b, f) == IF b THEN f ELSE 0

\* n as big-endian octets, and back; the high bit of an identifier is reserved.
U24(n) == <<n \div 65536, (n \div 256) % 256, n % 256>>
U32(n) == <<n \div 16777216>> \o U24(n % 16777216)
Number24(o) == o[1] * 65536 + o[2] * 256 + o[3]
Number31(o) == (o[1] % 128) * 16777216 + Number24(Tail(o))
From(s, i) == SubSeq(s, i, Len(s))

-----------------------------------------------------------------------------
\* FrameWriter.
header(len, typ, flags, id) == U24(len) \o <<typ, flags>> \o U32(id)
Written(typ, flags, id, payload) == header(Len(payload), typ, flags, id) \o payload

\* The exclusive bit shares the dependency's first octet.
PriorityOctets(p) == <<(p.dependency \div 16777216) + Flag(p.exclusive, 128)>>
                     \o U24(p.dependency % 16777216) \o <<p.weight>>

write_data(id, end, data) == Written(DATA, Flag(end, END_STREAM), id, data)
write_headers(id, end, end_headers, priority, block) ==
    Written(HEADERS, Flag(end, END_STREAM) + Flag(end_headers, END_HEADERS)
                     + Flag(priority # <<>>, PRIORITIZED), id,
            FlattenSeq([i \in DOMAIN priority |-> PriorityOctets(priority[i])]) \o block)
write_continuation(id, end_headers, block) ==
    Written(CONTINUATION, Flag(end_headers, END_HEADERS), id, block)
write_priority(id, p) == Written(PRIORITY, 0, id, PriorityOctets(p))
write_reset(id, code) == Written(RST_STREAM, 0, id, code)
write_settings(settings) ==
    Written(SETTINGS, 0, 0, FlattenSeq([i \in DOMAIN settings |->
        <<settings[i].id \div 256, settings[i].id % 256>> \o settings[i].value]))
write_settings_ack == Written(SETTINGS, ACK, 0, <<>>)
write_push_promise(id, promised, block) ==
    Written(PUSH_PROMISE, END_HEADERS, id, U32(promised) \o block)
write_ping(payload) == Written(PING, 0, 0, payload)
write_ping_ack(payload) == Written(PING, ACK, 0, payload)
write_goaway(last, code, debug) == Written(GOAWAY, 0, 0, U32(last) \o code \o debug)
write_window_update(id, increment) == Written(WINDOW_UPDATE, 0, id, U32(increment))

\* The pieces of a block that no frame of the peer's size could hold.
Pieces(block, capacity) ==
    LET n == Max({1, (Len(block) + capacity - 1) \div capacity})
    IN  [i \in 1..n |-> SubSeq(block, (i - 1) * capacity + 1, Min({i * capacity, Len(block)}))]

\* The last piece says that it is the last.
LastPiece(i, n) == i = n

\* One HEADERS frame, then CONTINUATION frames.
write_field_block(id, end, block, capacity) ==
    LET pieces == Pieces(block, capacity)
        n == Len(pieces)
    IN  FlattenSeq([i \in 1..n |->
            IF i = 1 THEN write_headers(id, end, LastPiece(1, n), <<>>, pieces[1])
            ELSE write_continuation(id, LastPiece(i, n), pieces[i])])

-----------------------------------------------------------------------------
\* FrameDecoder.  block_stream 0 stands for no open field block.
NewFrameDecoder(max) == [buf |-> <<>>, max_frame_size |-> max, block_stream |-> 0]

Error(reason) == [frame |-> <<>>, error |-> reason]
Frame(f) == [frame |-> <<f>>, error |-> "none"]

\* The body without its padding, or the reason there is none.
take_padding(body, padded) ==
    CASE ~padded -> [error |-> "none", body |-> body, pad_len |-> 0]
      [] padded /\ body = <<>> -> [error |-> "FRAME_SIZE", body |-> body, pad_len |-> 0]
      [] OTHER -> IF body[1] >= Len(body) THEN [error |-> "PROTOCOL", body |-> body, pad_len |-> 0]
                  ELSE [error |-> "none", body |-> SubSeq(body, 2, Len(body) - body[1]),
                        pad_len |-> body[1]]

\* The octets of the payload that body stands for.
payload_slice(payload, len, pad_len) ==
    SubSeq(payload, Len(payload) - pad_len - len + 1, Len(payload) - pad_len)

read_priority(body, id) ==
    LET p == [exclusive |-> body[1] >= 128, dependency |-> Number31(body), weight |-> body[5]]
    IN  IF Len(body) < 5 THEN [error |-> "FRAME_SIZE", priority |-> <<>>]
        ELSE IF p.dependency = id THEN [error |-> "PROTOCOL", priority |-> <<>>]
        ELSE [error |-> "none", priority |-> <<p>>]

validate_setting(s) ==
    CASE s.id = 2 -> IF s.value \notin {U32(0), U32(1)} THEN "PROTOCOL" ELSE "none"
      [] s.id = 4 -> IF s.value[1] >= 128 THEN "FLOW_CONTROL" ELSE "none"
      [] s.id = 5 -> IF s.value[1] # 0 \/ Number24(Tail(s.value))
                           \notin DEFAULT_MAX_FRAME_SIZE..MAX_FRAME_SIZE_LIMIT
                     THEN "PROTOCOL" ELSE "none"
      [] OTHER -> "none"

Settings(body) ==
    [i \in 1..(Len(body) \div 6) |->
        [id |-> body[6 * i - 5] * 256 + body[6 * i - 4], value |-> SubSeq(body, 6 * i - 3, 6 * i)]]

SettingsError(settings) ==
    LET bad == SelectInSeq(settings, LAMBDA s : validate_setting(s) # "none")
    IN  IF bad = 0 THEN "none" ELSE validate_setting(settings[bad])

-----------------------------------------------------------------------------
ParseData(flags, id, payload) ==
    LET p == take_padding(payload, Has(flags, PADDED))
    IN  IF id = 0 THEN Error("PROTOCOL")
        ELSE IF p.error # "none" THEN Error(p.error)
        ELSE Frame([typ |-> "DATA", stream_id |-> id, end_stream |-> Has(flags, END_STREAM),
                    data |-> payload_slice(payload, Len(p.body), p.pad_len)])

ParseHeaders(flags, id, payload) ==
    LET p == take_padding(payload, Has(flags, PADDED))
        r == IF Has(flags, PRIORITIZED) THEN read_priority(p.body, id)
             ELSE [error |-> "none", priority |-> <<>>]
        len == Len(p.body) - 5 * Len(r.priority)
    IN  IF id = 0 THEN Error("PROTOCOL")
        ELSE IF p.error # "none" THEN Error(p.error)
        ELSE IF r.error # "none" THEN Error(r.error)
        ELSE Frame([typ |-> "HEADERS", stream_id |-> id, end_stream |-> Has(flags, END_STREAM),
                    end_headers |-> Has(flags, END_HEADERS), priority |-> r.priority,
                    block |-> payload_slice(payload, len, p.pad_len)])

ParsePriority(id, payload) ==
    LET r == read_priority(payload, id)
    IN  IF id = 0 THEN Error("PROTOCOL")
        ELSE IF Len(payload) # 5 THEN Error("FRAME_SIZE")
        ELSE IF r.error # "none" THEN Error(r.error)
        ELSE Frame([typ |-> "PRIORITY", stream_id |-> id, priority |-> r.priority])

ParseReset(id, payload) ==
    IF id = 0 THEN Error("PROTOCOL")
    ELSE IF Len(payload) # 4 THEN Error("FRAME_SIZE")
    ELSE Frame([typ |-> "RST_STREAM", stream_id |-> id, error_code |-> payload])

ParseSettings(flags, id, payload) ==
    LET settings == Settings(payload)
        ack == Has(flags, ACK)
    IN  IF id # 0 THEN Error("PROTOCOL")
        ELSE IF (ack /\ payload # <<>>) \/ Len(payload) % 6 # 0 THEN Error("FRAME_SIZE")
        ELSE IF SettingsError(settings) # "none" THEN Error(SettingsError(settings))
        ELSE Frame([typ |-> "SETTINGS", ack |-> ack, settings |-> settings])

ParsePushPromise(flags, id, payload) ==
    LET p == take_padding(payload, Has(flags, PADDED))
    IN  IF id = 0 THEN Error("PROTOCOL")
        ELSE IF p.error # "none" THEN Error(p.error)
        ELSE IF Len(p.body) < 4 THEN Error("FRAME_SIZE")
        ELSE IF Number31(p.body) = 0 THEN Error("PROTOCOL")
        ELSE Frame([typ |-> "PUSH_PROMISE", stream_id |-> id,
                    end_headers |-> Has(flags, END_HEADERS), promised |-> Number31(p.body),
                    block |-> payload_slice(payload, Len(p.body) - 4, p.pad_len)])

ParsePing(flags, id, payload) ==
    IF id # 0 THEN Error("PROTOCOL")
    ELSE IF Len(payload) # 8 THEN Error("FRAME_SIZE")
    ELSE Frame([typ |-> "PING", ack |-> Has(flags, ACK), payload |-> payload])

ParseGoAway(id, payload) ==
    IF id # 0 THEN Error("PROTOCOL")
    ELSE IF Len(payload) < 8 THEN Error("FRAME_SIZE")
    ELSE Frame([typ |-> "GOAWAY", last_stream_id |-> Number31(payload),
                error_code |-> SubSeq(payload, 5, 8), debug |-> From(payload, 9)])

ParseWindowUpdate(id, payload) ==
    IF Len(payload) # 4 THEN Error("FRAME_SIZE")
    ELSE IF Number31(payload) = 0 THEN Error("PROTOCOL")
    ELSE Frame([typ |-> "WINDOW_UPDATE", stream_id |-> id, increment |-> Number31(payload)])

Parse(typ, flags, id, payload) ==
    CASE typ = DATA -> ParseData(flags, id, payload)
      [] typ = HEADERS -> ParseHeaders(flags, id, payload)
      [] typ = PRIORITY -> ParsePriority(id, payload)
      [] typ = RST_STREAM -> ParseReset(id, payload)
      [] typ = SETTINGS -> ParseSettings(flags, id, payload)
      [] typ = PUSH_PROMISE -> ParsePushPromise(flags, id, payload)
      [] typ = PING -> ParsePing(flags, id, payload)
      [] typ = GOAWAY -> ParseGoAway(id, payload)
      [] typ = WINDOW_UPDATE -> ParseWindowUpdate(id, payload)
      [] typ = CONTINUATION -> Frame([typ |-> "CONTINUATION", stream_id |-> id,
                                      end_headers |-> Has(flags, END_HEADERS), block |-> payload])
      [] OTHER -> Frame([typ |-> "UNKNOWN", kind |-> typ, stream_id |-> id, payload |-> payload])

\* Only a CONTINUATION on its stream may follow in an open field block.
OutOfPlace(d, typ, id) ==
    IF d.block_stream # 0 THEN typ # CONTINUATION \/ id # d.block_stream ELSE typ = CONTINUATION

\* The stream of the field block that is open after a frame.
BlockAfter(d, f) ==
    IF f.typ \notin {"HEADERS", "PUSH_PROMISE", "CONTINUATION"} THEN d.block_stream
    ELSE IF f.end_headers THEN 0 ELSE f.stream_id

\* The receive limit after a frame: the last the peer announced in it.
LimitAfter(d, f) ==
    IF f.typ # "SETTINGS" THEN d.max_frame_size
    ELSE LET sizes == SelectSeq(f.settings, LAMBDA s : s.id = 5)
         IN  IF f.ack \/ sizes = <<>> THEN d.max_frame_size ELSE Number24(Tail(Last(sizes).value))

parse_frame(d, typ, flags, id, payload) ==
    LET r == IF OutOfPlace(d, typ, id) THEN Error("PROTOCOL") ELSE Parse(typ, flags, id, payload)
    IN  IF r.error # "none" THEN [decoder |-> d, result |-> r]
        ELSE [decoder |-> [d EXCEPT !.block_stream = BlockAfter(d, r.frame[1]),
                                    !.max_frame_size = LimitAfter(d, r.frame[1])],
              result |-> r]

\* Neither a frame nor an error: more octets are needed.
Incomplete == [frame |-> <<>>, error |-> "none"]

\* Whether the frame the buffer starts with is there to its last octet.
Whole(buf, len) == Len(buf) >= FRAME_HEADER_LEN + len

\* The limit is enforced before the payload has arrived.
next_frame(d) ==
    LET len == Number24(d.buf)
        payload == SubSeq(d.buf, FRAME_HEADER_LEN + 1, FRAME_HEADER_LEN + len)
        rest == [d EXCEPT !.buf = From(@, FRAME_HEADER_LEN + len + 1)]
    IN  IF Len(d.buf) < FRAME_HEADER_LEN THEN [decoder |-> d, result |-> Incomplete]
        ELSE IF len > d.max_frame_size THEN [decoder |-> d, result |-> Error("FRAME_SIZE")]
        ELSE IF ~Whole(d.buf, len) THEN [decoder |-> d, result |-> Incomplete]
        ELSE parse_frame(rest, d.buf[4], d.buf[5], Number31(SubSeq(d.buf, 6, 9)), payload)
=============================================================================
