------------------------------ MODULE MCSyncIo ------------------------------
(* SyncIo for TLC.                                                         *)
EXTENDS SyncIo, TLC

ReqSymmetry == Permutations(Reqs) \cup Permutations(Tasks)
=============================================================================
