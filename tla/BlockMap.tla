---- MODULE BlockMap ----
(***************************************************************************)
(* What the block map of nvfuse promises: every file is a sequence of      *)
(* device blocks.  A file grows by fresh blocks at its end and is cut at   *)
(* its end; the blocks it keeps stay where they are, and no block serves   *)
(* two purposes.                                                           *)
(***************************************************************************)
EXTENDS Naturals, FiniteSets, SequencesExt

CONSTANTS Files, Blocks

VARIABLE map   \* map[f][i + 1]: the device block of logical block i of file f

Init == map = [f \in Files |-> <<>>]

Others(f) == \A g \in Files \ {f} : map'[g] = map[g]

Used == UNION {ToSet(map[f]) : f \in Files}

Grow(f) ==
  /\ map' \in [Files -> Seq(Blocks)]
  /\ IsStrictPrefix(map[f], map'[f])
  /\ LET new == SubSeq(map'[f], Len(map[f]) + 1, Len(map'[f]))
     IN IsInjective(new) /\ ToSet(new) \cap Used = {}
  /\ Others(f)

Cut(f) ==
  /\ map' \in [Files -> Seq(Blocks)]
  /\ IsStrictPrefix(map'[f], map[f])
  /\ Others(f)

Next == \E f \in Files : Grow(f) \/ Cut(f)

Spec == Init /\ [][Next]_map
====
