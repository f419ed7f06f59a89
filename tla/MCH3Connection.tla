--------------------------- MODULE MCH3Connection ---------------------------
(***************************************************************************)
(* Instance of H3Connection for TLC.                                       *)
(***************************************************************************)
EXTENDS H3Connection

MCUniTypes == {"control", "encoder", "push", "unknown", "fin"}
MCControlItems == {"settings", "goaway", "cancel_push", "fin"}
MCQpackItems == {"chunk", "bad"}
MCVerdicts == {"ok", "message", "peer_reset", "qpack"}

=============================================================================
