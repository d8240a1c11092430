----------------------------- MODULE MCAioQueue -----------------------------
(* AioQueue for TLC.                                                       *)
EXTENDS AioQueue, TLC

AreqSymmetry == Permutations(Reqs)
=============================================================================
