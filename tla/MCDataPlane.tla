---------------------------- MODULE MCDataPlane ----------------------------
(* Instances of DataPlane for TLC. *)
EXTENDS DataPlane

CONSTANTS p1, p2

MCProcs == {p1, p2}

MCPreallocate == {p2}

NoHabits == {}

Restarts == {"restart"}

=============================================================================
