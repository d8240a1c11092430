----------------------------- MODULE MCDirIndex -----------------------------
(* Two scopes: six names of distinct hashes, enough for a tree of height   *)
(* three; and names that share a hash, or move between two entries.        *)
EXTENDS DirIndex

MCNames == 1 .. 12
MCHash == [n \in MCNames |-> CASE n <= 6 -> n [] n \in 7 .. 9 -> 2 [] n = 10 -> 1 [] OTHER -> n - 8]
MCScopes == {1 .. 6, 7 .. 12}
MCEntriesOf == [n \in MCNames |-> IF n \in {7, 8, 10} THEN {1, 2} ELSE {n}]
=============================================================================
