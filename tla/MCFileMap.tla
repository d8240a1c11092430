---- MODULE MCFileMap ----
(* Instances of FileMap for TLC. *)
EXTENDS FileMap

TwoFiles == {1, 2}
Sizes == [f \in TwoFiles |-> IF f = 1 THEN 18 ELSE 4]
====
