--------------------------- MODULE MCH2StreamTask ---------------------------
(***************************************************************************)
(* H2StreamTask for TLC.                                                   *)
(***************************************************************************)
EXTENDS H2StreamTask
=============================================================================
