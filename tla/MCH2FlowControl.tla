--------------------------- MODULE MCH2FlowControl ---------------------------
(***************************************************************************)
(* H2FlowControl for TLC: symmetric streams.                               *)
(***************************************************************************)
EXTENDS H2FlowControl, TLC

Symmetry == Permutations(Streams)
=============================================================================
