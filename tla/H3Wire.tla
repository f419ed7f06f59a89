------------------------------- MODULE H3Wire -------------------------------
(***************************************************************************)
(* One HTTP/3 stream's octets from Frame::encode to FrameDecoder: frames   *)
(* are written, arrive in chunks of any size, and are read in a loop; the  *)
(* settings among them become the peer's settings.  sent holds what the    *)
(* reader has to make of each thing written, last the latest thing read    *)
(* beside what was sent.                                                   *)
(***************************************************************************)
EXTENDS H3Frames

CONSTANTS
    Frames,         \* what may be written: [octets, outcome]
    Locals,         \* the settings the writing side may have
    MaxSection,     \* the reader's SETTINGS_MAX_FIELD_SECTION_SIZE
    Chunks,         \* how many octets one read may return
    MaxChunks,      \* bound: chunks buffered before a read returns all there is
    MaxSent,        \* bound: things written in a behaviour
    MaxInFlight     \* bound: things written and not yet read

VARIABLES local, peer, wire, sent, rx, pc, count, last

vars == <<local, peer, wire, sent, rx, pc, count, last>>

ASSUME H3WireAssumption ==
    /\ MaxChunks \in Nat /\ MaxSent \in Nat /\ MaxInFlight \in Nat \ {0} /\ Chunks \subseteq Nat \ {0}

Init ==
    /\ local \in Locals
    /\ peer = DefaultPeer
    /\ wire = <<>> /\ sent = <<>>
    /\ rx = NewDecoder(MaxSection)
    /\ pc = "read" /\ count = 0
    /\ last = [got |-> Missing, sent |-> Missing]

\* Something the reader skips has no outcome.
Write(octets, outcome) ==
    /\ pc = "read" /\ count < MaxSent /\ Len(sent) < MaxInFlight
    /\ wire' = wire \o octets
    /\ sent' = IF outcome = Missing THEN sent ELSE Append(sent, outcome)
    /\ count' = count + 1
    /\ UNCHANGED <<local, peer, rx, pc, last>>

\* The control stream's first frame: the local settings, grease included.
SettingsFrame(entries) == [ty |-> FRAME_SETTINGS, entries |-> entries]
SendSettings ==
    Write(encode(SettingsFrame(to_frame(local))),
          Found(SettingsFrame(SelectSeq(to_frame(local), LAMBDA s : ~is_grease(s[1])))))

SendFrame == \E f \in Frames : Write(f.octets, f.outcome)

Arrive ==
    /\ pc = "read" /\ wire # <<>>
    /\ \E n \in IF Len(rx.bufs) < MaxChunks THEN Chunks \union {Len(wire)} ELSE {Len(wire)} :
       \E k \in {Min({n, Len(wire)})} :
          /\ rx' = extend(rx, SubSeq(wire, 1, k))
          /\ wire' = From(wire, k + 1)
    /\ pc' = "parse"
    /\ UNCHANGED <<local, peer, sent, count, last>>

Deliver(r) ==
    /\ last' = [got |-> r, sent |-> IF sent = <<>> THEN Missing ELSE Head(sent)]
    /\ sent' = IF sent = <<>> THEN sent ELSE Tail(sent)

NeedMore(r) ==
    /\ r.result = Missing /\ r.decoder = rx
    /\ pc' = "read"
    /\ UNCHANGED <<peer, sent, last>>

\* An unknown frame is consumed and the loop goes on.
Skip(r) ==
    /\ r.result = Missing /\ r.decoder # rx
    /\ UNCHANGED <<peer, sent, last, pc>>

Refuse(r) ==
    /\ r.result.error # "none"
    /\ Deliver(r.result)
    /\ pc' = "closed"
    /\ UNCHANGED peer

Read(r) ==
    /\ r.result.found # <<>>
    /\ Deliver(r.result)
    /\ peer' = IF r.result.found[1].ty = FRAME_SETTINGS
               THEN apply(peer, r.result.found[1].entries) ELSE peer
    /\ UNCHANGED pc

NextFrame ==
    /\ pc = "parse"
    /\ \E r \in {next_frame(rx)} :
          /\ rx' = r.decoder
          /\ NeedMore(r) \/ Skip(r) \/ Refuse(r) \/ Read(r)
    /\ UNCHANGED <<local, wire, count>>

Next == SendSettings \/ SendFrame \/ Arrive \/ NextFrame

Spec == Init /\ [][Next]_vars

-----------------------------------------------------------------------------
\* What the reader makes of the octets is what was written, frame by frame
\* and in order, however the chunks cut them: across types, lengths and
\* payloads, with unknown frames skipped in between, and for an illegal frame
\* the error the codec documents (next_frame, take_bytes, parse_settings).
\* When every octet has arrived and the reader waits for more, nothing that
\* was written is left unread, and the length it counts is that of its chunks.
FramesAsWritten ==
    /\ last.got = last.sent
    /\ rx.len = Total(rx.bufs)
    /\ (pc = "read" /\ wire = <<>>) => sent = <<>> /\ rx.len = 0

\* Once a SETTINGS frame has been read, the reader's view of the peer is what
\* the peer configured, defaults and grease included (to_frame, apply).
SettingsAgree ==
    (last.got.found # <<>> /\ last.got = last.sent /\ last.got.found[1].ty = FRAME_SETTINGS)
        => peer = local
=============================================================================
