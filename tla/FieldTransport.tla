--------------------------- MODULE FieldTransport ---------------------------
(***************************************************************************)
(* What header compression promises HTTP: each stream carries a sequence   *)
(* of field sections, and the receiver gets exactly those, in order,       *)
(* whatever happens to the table the two ends share.  A stream may be      *)
(* abandoned, after which it delivers nothing more, and the connection may *)
(* fail, but only over a stream whose sections exceed the receiver's size  *)
(* limit.                                                                  *)
(***************************************************************************)
EXTENDS Sequences, SequencesExt

CONSTANTS Streams, Lists, TooLarge(_)

VARIABLES sent, got, abandoned, failed

vars == <<sent, got, abandoned, failed>>

Init ==
    /\ sent = [s \in Streams |-> <<>>]
    /\ got = [s \in Streams |-> <<>>]
    /\ abandoned = {}
    /\ failed = FALSE

Send(s, h) ==
    /\ sent' = [sent EXCEPT ![s] = Append(@, h)]
    /\ UNCHANGED <<got, abandoned, failed>>

\* Some streams get more of what was sent on them.
Deliver ==
    /\ \A s \in Streams : /\ IsPrefix(got[s], got'[s])
                          /\ IsPrefix(got'[s], sent[s])
                          /\ s \in abandoned => got'[s] = got[s]
    /\ UNCHANGED <<sent, abandoned, failed>>

Abandon(ss) ==
    /\ abandoned' = abandoned \cup ss
    /\ UNCHANGED <<sent, got, failed>>

Fail ==
    /\ \E s \in Streams \ abandoned : TooLarge(sent[s])
    /\ failed' = TRUE
    /\ UNCHANGED <<sent, got, abandoned>>

Next ==
    /\ ~failed
    /\ \/ \E s \in Streams, h \in Lists : Send(s, h)
       \/ Deliver
       \/ \E ss \in SUBSET Streams : Abandon(ss)
       \/ Fail

Spec == Init /\ [][Next]_vars
=============================================================================
