----------------------------- MODULE MCH2Streams -----------------------------
(***************************************************************************)
(* H2Streams for TLC.  Streams are told apart by their order, so there is  *)
(* no symmetry.                                                            *)
(***************************************************************************)
EXTENDS H2Streams
=============================================================================
