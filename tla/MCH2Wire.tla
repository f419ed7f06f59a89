------------------------------ MODULE MCH2Wire ------------------------------
(***************************************************************************)
(* H2Wire for TLC.  Names and values are a few octets with their real      *)
(* Huffman codes; the static table has its real length, so that the first  *)
(* dynamic indexes lie on both sides of the six-bit prefix.                *)
(***************************************************************************)
EXTENDS H2Wire

A == 97
B == 98
C == 99
Bang == 33
Method == <<109>>
Cookie == <<107>>
Server == <<115>>

C_(len, code) == [len |-> len, code |-> code]
MCCodes == (A :> C_(5, 3)) @@ (B :> C_(6, 35)) @@ (C :> C_(5, 4)) @@ (Bang :> C_(10, 1016))
           @@ (109 :> C_(6, 41)) @@ (107 :> C_(7, 117)) @@ (115 :> C_(5, 8))

H(n, v) == [name |-> n, value |-> v]

MCStaticTable == [i \in 1..61 |->
    CASE i = 2 -> H(Method, <<A>>) [] i = 3 -> H(Method, <<B>>)
      [] i = 32 -> H(Cookie, <<>>) [] i = 54 -> H(Server, <<>>) [] OTHER -> H(<<0>>, <<>>)]

MCNeverIndexed == {Cookie}

MCLists == {
    <<H(Method, <<A>>), H(<<A>>, <<B>>), H(<<B>>, <<C>>)>>,
    <<H(<<A>>, <<C>>), H(Cookie, <<B>>), H(<<A>>, <<B>>)>>,
    <<H(Server, <<Bang, Bang>>), H(<<B>>, <<A, B, C>>)>>,
    <<H(<<C>>, <<Bang, A, A, A, A, A, A, A>>)>>,
    <<H(<<A>>, <<A>>), H(<<A>>, <<A, A, A, A, A, A>>), H(<<B>>, <<B, B, B>>)>> }

MCSizes == {31, 70, 159}

Sent(octets, frame) == [octets |-> octets, outcome |-> FrameRead(frame)]
Illegal(octets, reason) == [octets |-> octets, outcome |-> Refused(reason)]
Dependency(d) == [exclusive |-> TRUE, dependency |-> d, weight |-> 9]
Setting(id, value) == [id |-> id, value |-> value]
Eight == <<1, 2, 3, 4, 5, 6, 7, 8>>

LegalFrames == {
    Sent(write_data(3, TRUE, <<A, B>>),
         [typ |-> "DATA", stream_id |-> 3, end_stream |-> TRUE, data |-> <<A, B>>]),
    Sent(Written(DATA, PADDED, 3, <<2, A, B, 0, 0>>),
         [typ |-> "DATA", stream_id |-> 3, end_stream |-> FALSE, data |-> <<A, B>>]),
    Sent(write_priority(3, Dependency(5)),
         [typ |-> "PRIORITY", stream_id |-> 3, priority |-> <<Dependency(5)>>]),
    Sent(write_reset(3, <<0, 0, 0, 8>>),
         [typ |-> "RST_STREAM", stream_id |-> 3, error_code |-> <<0, 0, 0, 8>>]),
    Sent(write_settings(<<Setting(6, <<255, 0, 0, 1>>)>>),
         [typ |-> "SETTINGS", ack |-> FALSE, settings |-> <<Setting(6, <<255, 0, 0, 1>>)>>]),
    Sent(write_push_promise(3, 4, <<130>>),
         [typ |-> "PUSH_PROMISE", stream_id |-> 3, end_headers |-> TRUE, promised |-> 4,
          block |-> <<130>>]),
    Sent(write_ping_ack(Eight), [typ |-> "PING", ack |-> TRUE, payload |-> Eight]),
    Sent(write_goaway(258, <<0, 0, 0, 1>>, <<>>),
         [typ |-> "GOAWAY", last_stream_id |-> 258, error_code |-> <<0, 0, 0, 1>>, debug |-> <<>>]),
    Sent(write_window_update(0, 65793),
         [typ |-> "WINDOW_UPDATE", stream_id |-> 0, increment |-> 65793]),
    Sent(Written(238, 0, 3, <<A>>),
         [typ |-> "UNKNOWN", kind |-> 238, stream_id |-> 3, payload |-> <<A>>]) }

IllegalFrames == {
    Illegal(Written(DATA, PADDED, 3, <<3, A, B>>), "PROTOCOL"),
    Illegal(Written(DATA, PADDED, 3, <<>>), "FRAME_SIZE"),
    Illegal(write_data(0, FALSE, <<A>>), "PROTOCOL"),
    Illegal(write_priority(5, Dependency(5)), "PROTOCOL"),
    Illegal(write_reset(3, <<8>>), "FRAME_SIZE"),
    Illegal(write_settings(<<Setting(2, U32(2))>>), "PROTOCOL"),
    Illegal(write_settings(<<Setting(4, <<128, 0, 0, 0>>)>>), "FLOW_CONTROL"),
    Illegal(write_settings(<<Setting(5, U32(DEFAULT_MAX_FRAME_SIZE - 1))>>), "PROTOCOL"),
    Illegal(Written(SETTINGS, ACK, 0, <<0, 1, 0, 0, 0, 0>>), "FRAME_SIZE"),
    Illegal(write_push_promise(3, 0, <<>>), "PROTOCOL"),
    Illegal(write_ping(<<1>>), "FRAME_SIZE"),
    Illegal(Written(GOAWAY, 0, 0, Eight \o <<1>>), "FRAME_SIZE"),
    Illegal(Written(GOAWAY, 0, 0, <<1>>), "FRAME_SIZE"),
    Illegal(write_window_update(3, 0), "PROTOCOL"),
    Illegal(write_continuation(3, TRUE, <<130>>), "PROTOCOL"),
    Illegal(write_headers(3, FALSE, FALSE, <<>>, <<>>) \o write_ping(Eight), "PROTOCOL"),
    Illegal(write_headers(3, FALSE, FALSE, <<>>, <<>>) \o write_continuation(5, TRUE, <<>>),
            "PROTOCOL") }

MCExtras == LegalFrames \union IllegalFrames

=============================================================================
