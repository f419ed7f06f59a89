------------------------------ MODULE MCQpack -------------------------------
(***************************************************************************)
(* Two streams, a table that holds two entries, and three names of which   *)
(* one has two values, so that inserts must evict and the wrapped Required *)
(* Insert Count goes round.                                                *)
(***************************************************************************)
EXTENDS Qpack

F(n, v) == [n |-> n, v |-> v, len |-> 4]

A1 == F("a", 1)
A2 == F("a", 2)
B1 == F("b", 1)
Method == F("method", 1)    \* in the static table
Path == F("path", 2)        \* its name is in the static table
Cookie == F("cookie", 1)    \* never indexed; its name is in the static table

MCStaticFields == {Method}
MCStaticNames == {"method", "path", "cookie"}
MCNeverIndexed == {"cookie"}
MCHeaderLists == { <<Method, A1, Cookie>>, <<Path, A2, B1>> }
MCInsertFields == {Path}
Symmetry == Permutations(Streams)
=============================================================================
