----------------------------- MODULE BlockStore -----------------------------
(***************************************************************************)
(* What the buffer cache promises its callers: a store of blocks with a    *)
(* durable copy of each.  A caller stores into a block or gives it up; at  *)
(* any time the cache may make one block durable, and then what becomes    *)
(* durable is what was last stored in it, never an older value or the data *)
(* of another block.                                                       *)
(***************************************************************************)
CONSTANTS Keys, Vals, Zero, Freed

VARIABLES contents, disk

Init ==
  /\ contents = [k \in Keys |-> Zero]
  /\ disk = [k \in Keys |-> Zero]

Store(k, v) ==
  /\ contents' = [contents EXCEPT ![k] = v]
  /\ UNCHANGED disk

Free(k) ==
  /\ contents' = [contents EXCEPT ![k] = Freed]
  /\ UNCHANGED disk

Persist(k) ==
  /\ contents[k] # Freed
  /\ disk' = [disk EXCEPT ![k] = contents[k]]
  /\ UNCHANGED contents

Next == \E k \in Keys : Free(k) \/ Persist(k) \/ \E v \in Vals : Store(k, v)

Spec == Init /\ [][Next]_<<contents, disk>>
=============================================================================
