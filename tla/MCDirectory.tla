---------------------------- MODULE MCDirectory ----------------------------
(* Three names in the root, and two of them in a directory of it.           *)
EXTENDS Directory, TLC

CONSTANTS n1, n2, n3, SpareInodes

MCNames == {n1, n2, n3}
MCCalls == {<<"/", n1>>, <<"/", n2>>, <<"/", n3>>, <<n1, n2>>, <<n1, n3>>}
MCInodes == SpareInodes \cup {Root, RootIndex}
Interchangeable == Permutations(SpareInodes)
=============================================================================
