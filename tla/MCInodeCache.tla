---------------------------- MODULE MCInodeCache ----------------------------
(* InodeCache on small instances.                                          *)
EXTENDS InodeCache

IctxSymmetry == Permutations(Ictxs)

\* The schedules in which no other thread runs while a creation changes the
\* head of the hash bucket without ictxc_lock.
Quiet == \A t \in Threads : pc[t] = "inserting" => pc'[t] # "inserting"
QuietSpec == Init /\ [][Next /\ Quiet]_vars

FairSpec == QuietSpec /\ \A t \in Threads : WF_vars(Continue(t))
=============================================================================
