------------------------------ MODULE MCH3Wire ------------------------------
(***************************************************************************)
(* H3Wire for TLC: frames on both sides of every width of an integer, and  *)
(* one frame for every way the decoder refuses one.                        *)
(***************************************************************************)
EXTENDS H3Wire

Ones(n) == [i \in 1..n |-> 1]
Opaque(ty, n) == [ty |-> ty, payload |-> Ones(n)]
WithId(ty, id) == [ty |-> ty, id |-> id]
Promise(id, n) == [ty |-> FRAME_PUSH_PROMISE, id |-> id, payload |-> Ones(n)]

Legal(f) == [octets |-> encode(f), outcome |-> Found(f)]
Illegal(octets, error) == [octets |-> octets, outcome |-> Fault(error)]
Ignored(octets) == [octets |-> octets, outcome |-> Missing]
BadSettings(entries) == Illegal(Octets(FRAME_SETTINGS, SettingsOctets(entries)), "Settings")

MCFrames ==
    { Legal(f) : f \in {
        Opaque(FRAME_DATA, 0), Opaque(FRAME_DATA, 7), Opaque(FRAME_DATA, 64),
        Opaque(FRAME_HEADERS, 9), Promise(64, 2),
        WithId(FRAME_CANCEL_PUSH, 63), WithId(FRAME_GOAWAY, 16384),
        WithId(FRAME_MAX_PUSH_ID, 1073741824)} }
    \union { Ignored(Octets(33, Ones(3))), Ignored(Octets(64, <<>>)) }
    \union {
        Illegal(Octets(6, Ones(8)), "Unexpected"),
        Illegal(<<64, 1>> \o <<1, 1>>, "Frame"),
        Illegal(Octets(FRAME_GOAWAY, <<1, 1>>), "Frame"),
        Illegal(Octets(FRAME_GOAWAY, <<64>>), "Frame"),
        Illegal(Octets(FRAME_CANCEL_PUSH, <<>>), "Frame"),
        Illegal(Octets(FRAME_MAX_PUSH_ID, Ones(9)), "Frame"),
        Illegal(Octets(FRAME_HEADERS, Ones(MaxSection + 1)), "ExcessiveLoad"),
        Illegal(Octets(FRAME_DATA, Ones(MAX_FRAME_PAYLOAD + 1)), "ExcessiveLoad"),
        Illegal(Octets(FRAME_PUSH_PROMISE, <<>>), "Frame"),
        Illegal(Octets(FRAME_SETTINGS, <<1>>), "Frame"),
        Illegal(Octets(FRAME_SETTINGS, Ones(MAX_SETTINGS_PAYLOAD + 1)), "Settings"),
        BadSettings(<<<<2, 0>>>>), BadSettings(<<<<1, 0>>, <<1, 0>>>>),
        BadSettings(<<<<33, 0>>, <<33, 1>>>>),
        BadSettings(<<<<9, 0>>, <<10, 0>>, <<11, 0>>, <<12, 0>>, <<14, 0>>, <<15, 0>>>>) }

MCLocals == { [capacity |-> 0, blocked |-> 0, section |-> 65536, connect |-> FALSE],
              [capacity |-> 4096, blocked |-> 16, section |-> Unlimited, connect |-> TRUE],
              [capacity |-> 64, blocked |-> 63, section |-> 16383, connect |-> TRUE] }
=============================================================================
