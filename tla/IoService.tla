----------------------------- MODULE IoService -----------------------------
(***************************************************************************)
(* What synchronous block I/O promises its callers: a call hands over a    *)
(* set of requests, the device performs each of them exactly once while    *)
(* the call lasts, and the call returns only when all are performed.       *)
(***************************************************************************)
EXTENDS Naturals

CONSTANTS Threads, Reqs

VARIABLES
  active,     \* active[t]: the requests of the call thread t is in
  performed   \* the requests of calls in progress that were performed

vars == <<active, performed>>

Init ==
  /\ active = [t \in Threads |-> {}]
  /\ performed = {}

Begin(t, batch) ==
  /\ active[t] = {}
  /\ batch # {}
  /\ \A u \in Threads : batch \cap active[u] = {}
  /\ active' = [active EXCEPT ![t] = batch]
  /\ UNCHANGED performed

Perform(t, r) ==
  /\ r \in active[t] \ performed
  /\ performed' = performed \cup {r}
  /\ UNCHANGED active

End(t) ==
  /\ active[t] # {}
  /\ active[t] \subseteq performed
  /\ active' = [active EXCEPT ![t] = {}]
  /\ performed' = performed \ active[t]

Next == \E t \in Threads :
  \/ \E batch \in SUBSET Reqs : Begin(t, batch)
  \/ \E r \in active[t] : Perform(t, r)
  \/ End(t)

Spec == Init /\ [][Next]_vars
=============================================================================
