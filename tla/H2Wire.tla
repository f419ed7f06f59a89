------------------------------- MODULE H2Wire -------------------------------
(***************************************************************************)
(* One direction of an HTTP/2 connection, from header lists to octets and  *)
(* back: the HPACK encoder and the frame writer on one side, the frame     *)
(* decoder, the reassembly of field blocks and the HPACK decoder on the    *)
(* other.  The octets arrive in chunks of any size.  The crate runs the    *)
(* first half for responses and the second half for requests; here they    *)
(* face each other, as in the crate's own interoperability tests.          *)
(*                                                                         *)
(* sent holds, for each thing written and not yet read, what the reader    *)
(* has to make of it; last pairs the latest thing read with what was sent. *)
(***************************************************************************)
EXTENDS Hpack, H2Frames

CONSTANTS
    Lists,          \* header lists the sender may send
    Extras,         \* other frames: [octets, outcome]
    Sizes,          \* values of SETTINGS_HEADER_TABLE_SIZE the receiver may announce
    TableSize,      \* the value both sides start with
    MaxList,        \* the receiver's SETTINGS_MAX_HEADER_LIST_SIZE
    MaxFrame,       \* the receiver's SETTINGS_MAX_FRAME_SIZE
    Chunks,         \* how many octets one read may return
    PeerWaits,      \* the receiver waits for a block before it announces again
    MaxSent,        \* bound: things written in a behaviour
    MaxExtras,      \* bound: frames of Extras among them
    MaxInFlight     \* bound: things written and not yet read

VARIABLES encoder, wire, sent, announced, limit, rx, block, decoder, pc, count, extras, cut, last

vars == <<encoder, wire, sent, announced, limit, rx, block, decoder, pc, count, extras, cut, last>>
receiver == <<rx, block, decoder, limit, pc, cut, last>>

ASSUME WireAssumption ==
    /\ MaxFrame \in DEFAULT_MAX_FRAME_SIZE..MAX_FRAME_SIZE_LIMIT
    /\ MaxSent \in Nat /\ MaxExtras \in Nat /\ MaxInFlight \in Nat \ {0} /\ Chunks \subseteq Nat \ {0}
    /\ PeerWaits \in BOOLEAN

\* Every block stands for a stream of its own: the number is not looked at.
StreamId == 1

\* What the reader has to make of a frame, of an error and of a list.
FrameRead(f) == [frame |-> <<f>>, list |-> <<>>, error |-> "none"]
Refused(reason) == [frame |-> <<>>, list |-> <<>>, error |-> reason]
ListRead(l) == [frame |-> <<>>, list |-> <<l>>, error |-> "none"]

ListSize(l) == FoldLeft(LAMBDA a, h : a + Len(h.name) + Len(h.value), 0, l)
ListOutcome(l) == IF ListSize(l) > MaxList THEN Refused("too_large") ELSE ListRead(l)
AckFrame == [typ |-> "SETTINGS", ack |-> TRUE, settings |-> <<>>]

Init ==
    /\ encoder = Encoder(TableSize)
    /\ wire = <<>> /\ sent = <<>> /\ announced = <<>> /\ limit = TableSize
    /\ rx = NewFrameDecoder(MaxFrame)
    /\ block = <<>>
    /\ decoder = Decoder(TableSize, MaxList)
    /\ pc = "read" /\ count = 0 /\ extras = 0 /\ cut = FALSE
    /\ last = [got |-> Refused("none"), sent |-> Refused("none")]

-----------------------------------------------------------------------------
\* A field block as a client may write it: padding and a priority around
\* the first piece, CONTINUATION frames for the rest.
SomePriority == [exclusive |-> TRUE, dependency |-> 5, weight |-> 9]

PaddedBlock(id, out, capacity) ==
    LET room == Min({Len(out), capacity - 7})
        rest == Pieces(From(out, room + 1), capacity)
    IN  Written(HEADERS, PADDED + PRIORITIZED + Flag(room = Len(out), END_HEADERS), id,
                <<1>> \o PriorityOctets(SomePriority) \o SubSeq(out, 1, room) \o <<0>>)
        \o IF room = Len(out) THEN <<>>
           ELSE FlattenSeq([i \in DOMAIN rest |-> write_continuation(id, i = Len(rest), rest[i])])

\* Writing is not held up by the read loop and shares only the wire with it,
\* so it is enough that it happens between reads.
MaySend == pc = "read" /\ count < MaxSent /\ Len(sent) < MaxInFlight

Write(octets, outcome) ==
    /\ wire' = wire \o octets
    /\ sent' = Append(sent, outcome)
    /\ count' = count + 1
    /\ UNCHANGED receiver

\* encode_field_block: the list is encoded and written as one field block.
\* A client may also pad its HEADERS frame and give it a priority.
SendBlock ==
    /\ MaySend
    /\ \E l \in Lists : \E r \in {encode(encoder, l)} :
          /\ encoder' = r.encoder
          /\ \E octets \in {write_field_block(StreamId, FALSE, r.out, MaxFrame),
                            PaddedBlock(StreamId, r.out, MaxFrame)} :
                Write(octets, ListOutcome(l))
    /\ UNCHANGED <<announced, extras>>

SendFrame ==
    /\ MaySend /\ extras < MaxExtras
    /\ \E x \in Extras : Write(x.octets, x.outcome)
    /\ extras' = extras + 1
    /\ UNCHANGED <<encoder, announced>>

\* apply_peer_settings: the size is queued and acknowledged.
ApplySettings ==
    /\ MaySend
    /\ PeerWaits => encoder.queued = <<>>
    /\ \E size \in Sizes :
          /\ encoder' = queue_size_update(encoder, size)
          /\ announced' = Append(announced, size)
    /\ Write(write_settings_ack, FrameRead(AckFrame))
    /\ UNCHANGED extras

-----------------------------------------------------------------------------
\* extend: one read's octets join the buffer.
Arrive ==
    /\ pc = "read" /\ wire # <<>>
    /\ \E n \in Chunks : \E k \in {Min({n, Len(wire)})} :
          /\ rx' = [rx EXCEPT !.buf = @ \o SubSeq(wire, 1, k)]
          /\ wire' = From(wire, k + 1)
    /\ pc' = "parse"
    /\ UNCHANGED <<encoder, count, extras, sent, announced, limit, block, decoder, cut, last>>

\* What the head of sent becomes; the rest of the receiver is the caller's.
Deliver(outcome) ==
    /\ last' = [got |-> outcome, sent |-> IF sent = <<>> THEN Refused("nothing") ELSE Head(sent)]
    /\ sent' = IF sent = <<>> THEN sent ELSE Tail(sent)

NeedMore(r) ==
    /\ r.result = Incomplete
    /\ pc' = "read"
    /\ UNCHANGED <<sent, announced, limit, block, decoder, cut, last>>

Refuse(r) ==
    /\ r.result.error # "none"
    /\ Deliver(Refused(r.result.error))
    /\ pc' = "closed"
    /\ UNCHANGED <<announced, limit, block, decoder, cut>>

IsFragment(f) == f.typ \in {"HEADERS", "CONTINUATION"}

\* A fragment that leaves the field block open.
Extend(f) ==
    /\ IsFragment(f) /\ ~f.end_headers
    /\ block' = block \o f.block
    /\ UNCHANGED <<sent, announced, limit, decoder, pc, cut, last>>

\* What finalize_field_block makes of a decoding error: a list over the
\* limit costs the stream only, anything else the connection.
Finalized(d) ==
    /\ decoder' = d.decoder
    /\ Deliver(IF d.error = "none" THEN ListRead(d.headers) ELSE Refused(d.error))
    /\ cut' = (cut \/ d.error = "too_large")
    /\ pc' = IF d.error \in {"none", "too_large"} THEN pc ELSE "closed"

\* The fragment that completes the block: it is decoded at once.
Finalize(f) ==
    /\ IsFragment(f) /\ f.end_headers
    /\ \E d \in {decode(decoder, block \o f.block, 0)} : Finalized(d)
    /\ block' = <<>>
    /\ UNCHANGED <<announced, limit>>

\* The acknowledgement puts the announced size in force.
Acknowledged(f) ==
    /\ f = AckFrame /\ announced # <<>>
    /\ decoder' = queue_size_update(decoder, Head(announced))
    /\ limit' = Head(announced)
    /\ announced' = Tail(announced)
    /\ Deliver(FrameRead(f))
    /\ UNCHANGED <<block, pc, cut>>

\* The rest of process_frames' match: a GOAWAY and a promise to a server end
\* the loop; what the others do to streams is H2Streams' and H2FlowControl's.
Other(f) ==
    /\ ~IsFragment(f) /\ ~(f = AckFrame /\ announced # <<>>)
    /\ Deliver(FrameRead(f))
    /\ pc' = IF f.typ \in {"GOAWAY", "PUSH_PROMISE"} THEN "closed" ELSE pc
    /\ UNCHANGED <<announced, limit, block, decoder, cut>>

\* The read loop: one next_frame, and what the connection does with it.
NextFrame ==
    /\ pc = "parse"
    /\ \E r \in {next_frame(rx)} :
          /\ rx' = r.decoder
          /\ \/ NeedMore(r)
             \/ Refuse(r)
             \/ \E i \in DOMAIN r.result.frame :
                   \E f \in {r.result.frame[i]} :
                      Extend(f) \/ Finalize(f) \/ Acknowledged(f) \/ Other(f)
    /\ UNCHANGED <<encoder, count, extras, wire>>

Next == SendBlock \/ SendFrame \/ ApplySettings \/ Arrive \/ NextFrame

Spec == Init /\ [][Next]_vars

-----------------------------------------------------------------------------
\* What the reader makes of the octets is what was sent, thing by thing and
\* in order, however the reads cut them: header lists through table, field
\* block splitting and reassembly, frames with padding and priority, and for
\* an illegal frame the error the codec documents (FrameDecoder::next_frame,
\* Decoder::decode).  Blocks after one that was given up half way are left out.
\* When every octet has arrived and the reader waits for more, nothing that
\* was sent is left unread.
ReadAsSent ==
    /\ cut \/ last.got = last.sent
    /\ (pc = "read" /\ wire = <<>>) => (sent = <<>> /\ rx.buf = <<>> /\ block = <<>>)

\* The headers of the lists that may be sent.
Fields == UNION { ToSet(l) : l \in Lists }

\* When everything written has been read the two tables hold the same
\* entries and agree on size and capacity: the encoder's table mirrors the
\* peer's decoder table (encode.rs), across indexing, eviction, entries too
\* large for the table and size updates.  Its lookup maps find the same index
\* as a scan, whatever front insertions shifted, evictions removed and
\* duplicate names hid (Table::add, evict_entry).
TablesMirror ==
    /\ \A h \in Fields :
        /\ Mapped(encoder.table.exact, h) = Scanned(encoder.table, LAMBDA e : Matches(h, e))
        /\ Mapped(encoder.table.name, h.name) = Scanned(encoder.table, LAMBDA e : e.name = h.name)
    /\ (sent = <<>> /\ pc # "closed" /\ ~cut) =>
        /\ encoder.table.entries = decoder.table.entries
        /\ encoder.table.size = decoder.table.size
        /\ encoder.table.max_size = decoder.table.max_size

\* Once a block has been decoded after an acknowledgement, the table the
\* peer keeps is within the size it announced last (queue_size_update).
HonoursLimit == decoder.queued = <<>> => decoder.table.max_size <= limit

=============================================================================
