------------------------- MODULE BufferCacheProofs -------------------------
(***************************************************************************)
(* Proofs about BufferCache for any number of threads, flushers, buffers   *)
(* and keys.  The locking protocol of the cache rests on one inductive     *)
(* invariant: bm_lock has the owner its control point claims, the thread   *)
(* that waits for a buffer or still releases one names a buffer that has a *)
(* key, and every buffer that is not on the unused list has one.           *)
(***************************************************************************)
EXTENDS BufferCache, TLAPS

\* A thread between the lock and the unlock of bm_lock owns it.
BmOwner == \A t \in Threads : pc[t] \in PcBmHeld => bm_lock = t

\* The points of a call at which cur is the buffer it works on.
PcCur == {"find_wait", "fill", "unused_wait"} \cup PcReleasing

\* The buffer of a call in progress, and every buffer that is not unused, is
\* in the hash under some key.
CurKeyed ==
  \A t \in Threads : pc[t] \in PcCur
    => cur[t] \in Bcs /\ bc[cur[t]].bno # NoKey
ListKeyed == \A b \in Bcs : bc[b].list # "unused" => bc[b].bno # NoKey
HeldKeyed == \A t \in Threads : \A b \in held[t] : bc[b].bno # NoKey

IInv ==
  /\ TypeOK
  /\ KeyUnique
  /\ BmOwner
  /\ CurKeyed
  /\ ListKeyed
  /\ HeldKeyed

\* No buffer gets another key.
KeysKept == \A b \in Bcs : bc'[b].bno = bc[b].bno

-----------------------------------------------------------------------------
\* The initial state of nvfuse_init_buffer_cache satisfies the invariant.
LEMMA InitIInv == Init => IInv
  BY ConstantsAssumption
  DEF Init, IInv, TypeOK, KeyUnique, BmOwner, CurKeyed,
      ListKeyed, HeldKeyed, PcBmHeld, PcReleasing, PcCur, Pcs,
      ListTypes, BcType, Jobs

-----------------------------------------------------------------------------
(* One lemma per action that writes a buffer or is in the middle of a get,  *)
(* and one for the steps of the flush that only move its control point.     *)

\* nvfuse_find_bc, a hit.
LEMMA FindHitStep ==
  ASSUME IInv, NEW t \in Threads, NEW k \in Keys, NEW read \in BOOLEAN,
         Find(t, k, read), FindHit(t, k)
  PROVE  IInv'
<1>1. TypeOK'
  BY ConstantsAssumption
  DEF IInv, TypeOK, Pcs, PcBmHeld, PcReleasing, Find, FindHit, HashLookup, Goto,
      flushVars
<1>3. KeyUnique'
  BY Zenon DEF IInv, KeyUnique, Find, FindHit, HashLookup
<1>4. BmOwner'
  BY ConstantsAssumption, Zenon
  DEF IInv, TypeOK, BmOwner, PcBmHeld, Find, FindHit, Goto
<1>5. CurKeyed'
  BY ConstantsAssumption
  DEF IInv, TypeOK, CurKeyed, PcCur, PcReleasing, Find, FindHit,
      HashLookup, Goto
<1>6. ListKeyed'
  BY Zenon DEF IInv, ListKeyed, Find, FindHit
<1>7. HeldKeyed'
  BY Zenon DEF IInv, HeldKeyed, Find, FindHit
<1> QED
  BY <1>1, <1>3, <1>4, <1>5, <1>6, <1>7, Zenon DEF IInv

\* nvfuse_find_bc, a miss that replaces buffer b: nobody holds it, and no
\* other thread is about to lock it, for that thread would own bm_lock.
LEMMA FindMissStep ==
  ASSUME IInv, NEW t \in Threads, NEW k \in Keys, NEW read \in BOOLEAN,
         NEW b \in Bcs, Find(t, k, read), HashLookup(k) = {},
         bc' = InitBc(b, k), cur' = [cur EXCEPT ![t] = b], Goto(t, "find_wait")
  PROVE  IInv'
<1> DEFINE r == [bc[b] EXCEPT !.list = "ref", !.bno = k, !.dirty = FALSE,
                              !.load = FALSE, !.ref = 0, !.lock = Nobody,
                              !.buf = Zero]
<1>1. b \in Bcs
  BY ConstantsAssumption, Zenon
  DEF IInv, TypeOK, Find, HashLookup, Goto, InitBc,
      flushVars
<1>2. bc[b] \in BcType
  BY <1>1, Zenon
  DEF IInv, TypeOK
<1>3. r \in BcType
  BY ConstantsAssumption, <1>1, <1>2, Zenon
  DEF BcType, ListTypes
<1>4. bc' = [bc EXCEPT ![b] = r]
  BY <1>1, <1>2, Zenon
  DEF IInv, TypeOK, BcType, InitBc
<1>5. /\ bc' \in [Bcs -> BcType]
      /\ bc'[b] = r
      /\ \A x \in Bcs : x # b => bc'[x] = bc[x]
  BY <1>1, <1>3, <1>4, Zenon
  DEF IInv, TypeOK
<1>6. bc'[b].bno = k
  BY <1>2, <1>5, Zenon
  DEF BcType
<1> HIDE DEF r
<1>7. TypeOK'
  BY ConstantsAssumption, <1>1, <1>5, Zenon
  DEF IInv, TypeOK, Pcs, PcBmHeld, PcReleasing, Find, Goto, flushVars
<1>9. KeyUnique'
  BY <1>1, <1>2, <1>5, <1>6
  DEF IInv, KeyUnique, BcType, HashLookup
<1>10. BmOwner'
  BY ConstantsAssumption, <1>1, Zenon
  DEF IInv, TypeOK, BmOwner, PcBmHeld, Find, Goto
<1>11. CurKeyed'
  BY ConstantsAssumption, <1>1, <1>5, <1>6
  DEF IInv, TypeOK, CurKeyed, PcCur, PcReleasing, BcType, Find, HashLookup, Goto
<1>12. ListKeyed'
  BY ConstantsAssumption, <1>1, <1>2, <1>5, <1>6
  DEF IInv, ListKeyed, BcType
<1>13. HeldKeyed'
  BY ConstantsAssumption, <1>1, <1>5, <1>6
  DEF IInv, TypeOK, HeldKeyed, Find
<1> QED
  BY <1>7, <1>9, <1>10, <1>11, <1>12, <1>13, Zenon DEF IInv

\* nvfuse_find_bc, a miss that finds no buffer.
LEMMA FindStuckStep ==
  ASSUME IInv, NEW t \in Threads, NEW k \in Keys, NEW read \in BOOLEAN,
         NEW p \in {"sleep", "self_lock", "assert_replace"},
         Find(t, k, read), Goto(t, p), UNCHANGED <<bc, cur>>
  PROVE  IInv'
<1>1. TypeOK'
  BY ConstantsAssumption, Zenon
  DEF IInv, TypeOK, Pcs, PcBmHeld, PcReleasing, Find, Goto, flushVars
<1>3. KeyUnique'
  BY Zenon DEF IInv, KeyUnique, Find
<1>4. BmOwner'
  BY ConstantsAssumption, Zenon
  DEF IInv, TypeOK, BmOwner, PcBmHeld, Find, Goto
<1>5. CurKeyed'
  BY ConstantsAssumption, Zenon
  DEF IInv, TypeOK, CurKeyed, PcCur, PcReleasing, Find, Goto
<1>6. ListKeyed'
  BY Zenon DEF IInv, ListKeyed, Find
<1>7. HeldKeyed'
  BY Zenon DEF IInv, HeldKeyed, Find
<1> QED
  BY <1>1, <1>3, <1>4, <1>5, <1>6, <1>7, Zenon DEF IInv

\* nvfuse_find_bc, once it has the bc_lock.
LEMMA FindLockStep ==
  ASSUME IInv, NEW t \in Threads,
         FindLock(t), bc[cur[t]].ref = 0
  PROVE  IInv' /\ KeysKept
<1> DEFINE c == cur[t]
           r == [bc[cur[t]] EXCEPT !.lock = t, !.ref = 1, !.list = "ref"]
<1>1. /\ c \in Bcs
      /\ bc[c].bno # NoKey
      /\ bm_lock = t
  BY ConstantsAssumption, Zenon
  DEF IInv, TypeOK, CurKeyed, PcCur, PcReleasing, BmOwner, PcBmHeld,
      FindLock, Goto, flushVars
<1>2. bc[c] \in BcType
  BY <1>1, Zenon
  DEF IInv, TypeOK
<1>3. r \in BcType
  BY ConstantsAssumption, <1>1, <1>2, Zenon
  DEF BcType, ListTypes
<1>4. bc' = [bc EXCEPT ![c] = r]
  BY <1>1, <1>2, Zenon
  DEF IInv, TypeOK, BcType, FindLock
<1>5. /\ bc' \in [Bcs -> BcType]
      /\ bc'[c] = r
      /\ \A x \in Bcs : x # c => bc'[x] = bc[x]
  BY <1>1, <1>3, <1>4, Zenon
  DEF IInv, TypeOK
<1>6. \A x \in Bcs : bc'[x].bno = bc[x].bno
  BY <1>1, <1>2, <1>5
  DEF BcType
<1>7. TypeOK'
  BY ConstantsAssumption, <1>1, <1>5
  DEF IInv, TypeOK, Pcs, PcBmHeld, PcReleasing, FindLock, Goto, flushVars
<1>9. KeyUnique'
  BY <1>6, Zenon
  DEF IInv, KeyUnique
<1>10. BmOwner'
  BY ConstantsAssumption, <1>1
  DEF IInv, TypeOK, BmOwner, PcBmHeld, FindLock, Goto
<1>11. CurKeyed'
  BY ConstantsAssumption, <1>1, <1>6
  DEF IInv, TypeOK, CurKeyed, PcCur, PcReleasing, FindLock, Goto
<1>12. ListKeyed'
  BY <1>1, <1>2, <1>6, <1>5
  DEF IInv, ListKeyed, BcType
<1>13. HeldKeyed'
  BY <1>1, <1>6
  DEF IInv, TypeOK, HeldKeyed, FindLock
<1> QED
  BY <1>6, <1>7, <1>9, <1>10, <1>11, <1>12, <1>13, Zenon DEF IInv, KeysKept

\* nvfuse_mark_dirty_bh.
LEMMA ModifyStep ==
  ASSUME IInv, NEW t \in Threads, NEW b \in held[t], NEW v \in Vals,
         Modify(t, b, v)
  PROVE  IInv' /\ KeysKept
<1> DEFINE r == [bc[b] EXCEPT !.buf = v, !.dirty = TRUE]
<1>1. /\ b \in Bcs
      /\ bc[b].bno # NoKey
  BY ConstantsAssumption, Zenon
  DEF IInv, TypeOK, HeldKeyed, Modify, flushVars
<1>2. bc[b] \in BcType
  BY <1>1, Zenon
  DEF IInv, TypeOK
<1>3. r \in BcType
  BY ConstantsAssumption, <1>1, <1>2, Zenon
  DEF BcType, ListTypes
<1>4. bc' = [bc EXCEPT ![b] = r]
  BY <1>1, <1>2, Zenon
  DEF IInv, TypeOK, BcType, Modify
<1>5. /\ bc' \in [Bcs -> BcType]
      /\ bc'[b] = r
      /\ \A x \in Bcs : x # b => bc'[x] = bc[x]
  BY <1>1, <1>3, <1>4, Zenon
  DEF IInv, TypeOK
<1>6. \A x \in Bcs : bc'[x].bno = bc[x].bno
  BY <1>1, <1>2, <1>5, Zenon
  DEF BcType
<1>7. TypeOK'
  BY ConstantsAssumption, <1>1, <1>5, Zenon
  DEF IInv, TypeOK, Pcs, PcBmHeld, PcReleasing, Modify, flushVars
<1>9. KeyUnique'
  BY <1>6, Zenon
  DEF IInv, KeyUnique
<1>10. BmOwner'
  BY ConstantsAssumption, <1>1, Zenon
  DEF IInv, TypeOK, BmOwner, PcBmHeld, Modify
<1>11. CurKeyed'
  BY ConstantsAssumption, <1>1, <1>6, Zenon
  DEF IInv, TypeOK, CurKeyed, PcCur, PcReleasing, Modify
<1>12. ListKeyed'
  BY <1>1, <1>2, <1>6, <1>5
  DEF IInv, ListKeyed, BcType
<1>13. HeldKeyed'
  BY <1>1, <1>6, Zenon
  DEF IInv, TypeOK, HeldKeyed, Modify
<1> QED
  BY <1>6, <1>7, <1>9, <1>10, <1>11, <1>12, <1>13, Zenon DEF IInv, KeysKept

\* nvfuse_release_bc up to nvfuse_dec_bc_ref.
LEMMA ReleaseStep ==
  ASSUME IInv, NEW t \in Threads, NEW b \in held[t], NEW dirty \in BOOLEAN,
         Release(t, b, dirty)
  PROVE  IInv' /\ KeysKept
<1>1. b \in Bcs /\ bc[b].bno # NoKey
  BY Zenon DEF IInv, TypeOK, HeldKeyed
<1>2. /\ bc' \in [Bcs -> BcType]
      /\ \A x \in Bcs : bc'[x].bno = bc[x].bno /\ bc'[x].list = bc[x].list
  <2>1. CASE bc[b].ref > 0
    <3>1. bc[b].ref = 1
      BY <1>1, <2>1 DEF IInv, TypeOK, BcType
    <3>2. bc' = [bc EXCEPT ![b].ref = 0]
      BY <2>1, <3>1 DEF Release
    <3> QED
      BY <1>1, <3>2 DEF IInv, TypeOK, BcType
  <2>2. CASE ~(bc[b].ref > 0)
    BY <2>2, Zenon DEF Release, IInv, TypeOK
  <2> QED
    BY <2>1, <2>2, Zenon
<1>3. pc' \in [Threads -> Pcs]
  BY DEF Release, Goto, IInv, TypeOK, Pcs, PcBmHeld, PcReleasing
<1>4. TypeOK'
  BY <1>1, <1>2, <1>3, Zenon DEF IInv, TypeOK, Release, flushVars
<1>5. KeyUnique'
  BY <1>2 DEF IInv, KeyUnique
<1>6. BmOwner'
  BY DEF IInv, TypeOK, BmOwner, PcBmHeld, Release, Goto
<1>7. CurKeyed'
  BY <1>1, <1>2
  DEF IInv, TypeOK, CurKeyed, PcCur, PcReleasing, Release, Goto
<1>8. ListKeyed'
  BY <1>2, Zenon DEF IInv, ListKeyed
<1>9. HeldKeyed'
  BY <1>2, Zenon DEF IInv, TypeOK, HeldKeyed, Release
<1> QED
  BY <1>2, <1>4, <1>5, <1>6, <1>7, <1>8, <1>9, Zenon DEF IInv, KeysKept

\* nvfuse_release_bc, the flags and the unlock of bc_lock.
LEMMA ReleaseUnlockStep ==
  ASSUME IInv, NEW t \in Threads, ReleaseUnlock(t)
  PROVE  IInv' /\ KeysKept
<1> DEFINE c == cur[t]
           d == arg[t] \/ bc[c].dirty
           l == bc[c].load \/ d
<1>1. c \in Bcs /\ bc[c].bno # NoKey
  BY Zenon DEF ReleaseUnlock, IInv, CurKeyed, PcCur, PcReleasing
<1>2. d \in BOOLEAN /\ l \in BOOLEAN
  OBVIOUS
<1>3. bc' = [bc EXCEPT ![c].lock = Nobody, ![c].dirty = d, ![c].load = l]
  BY Zenon DEF ReleaseUnlock
<1>a. \/ Goto(t, "rel_dirty")
      \/ Goto(t, "rel_ref")
  BY Zenon DEF ReleaseUnlock
<1> HIDE DEF d, l
<1>4. /\ bc' \in [Bcs -> BcType]
      /\ \A x \in Bcs : bc'[x].bno = bc[x].bno /\ bc'[x].list = bc[x].list
  BY <1>1, <1>2, <1>3 DEF IInv, TypeOK, BcType
<1>5. TypeOK'
  BY <1>4, <1>a, Zenon
  DEF IInv, TypeOK, ReleaseUnlock, Goto, flushVars, Pcs, PcBmHeld, PcReleasing
<1>6. KeyUnique'
  BY <1>4 DEF IInv, KeyUnique
<1>7. BmOwner'
  BY <1>a, Zenon DEF IInv, TypeOK, BmOwner, PcBmHeld, ReleaseUnlock, Goto
<1>8. CurKeyed'
  BY <1>1, <1>4, <1>a
  DEF IInv, TypeOK, CurKeyed, PcCur, PcReleasing, ReleaseUnlock, Goto
<1>9. ListKeyed'
  BY <1>4, Zenon DEF IInv, ListKeyed
<1>10. HeldKeyed'
  BY <1>4 DEF IInv, TypeOK, HeldKeyed, ReleaseUnlock
<1> QED
  BY <1>4, <1>5, <1>6, <1>7, <1>8, <1>9, <1>10, Zenon DEF IInv, KeysKept

\* nvfuse_move_buffer_list.
LEMMA ReleaseMoveStep ==
  ASSUME IInv, NEW t \in Threads,
         ReleaseMove(t)
  PROVE  IInv' /\ KeysKept
<1> DEFINE c == cur[t]
           r == [bc[cur[t]] EXCEPT !.list =
                   IF pc[t] = "rel_dirty" THEN "dirty" ELSE "clean"]
<1>1. /\ c \in Bcs
      /\ bc[c].bno # NoKey
  BY ConstantsAssumption, Zenon
  DEF IInv, TypeOK, CurKeyed, PcCur, PcReleasing, ReleaseMove, Return, Goto,
      flushVars
<1>2. bc[c] \in BcType
  BY <1>1, Zenon
  DEF IInv, TypeOK
<1>3. r \in BcType
  BY ConstantsAssumption, <1>1, <1>2, Zenon
  DEF BcType, ListTypes
<1>4. bc' = [bc EXCEPT ![c] = r]
  BY <1>1, <1>2, Zenon
  DEF IInv, TypeOK, BcType, ReleaseMove
<1>5. /\ bc' \in [Bcs -> BcType]
      /\ bc'[c] = r
      /\ \A x \in Bcs : x # c => bc'[x] = bc[x]
  BY <1>1, <1>3, <1>4, Zenon
  DEF IInv, TypeOK
<1>6. \A x \in Bcs : bc'[x].bno = bc[x].bno
  BY <1>1, <1>2, <1>5
  DEF BcType
<1>7. TypeOK'
  BY ConstantsAssumption, <1>1, <1>5, Zenon
  DEF IInv, TypeOK, Pcs, PcBmHeld, PcReleasing, ReleaseMove, Return, Goto,
      flushVars
<1>9. KeyUnique'
  BY <1>6, Zenon
  DEF IInv, KeyUnique
<1>10. BmOwner'
  BY ConstantsAssumption, <1>1, Zenon
  DEF IInv, TypeOK, BmOwner, PcBmHeld, ReleaseMove, Return, Goto
<1>11. CurKeyed'
  BY ConstantsAssumption, <1>1, <1>6
  DEF IInv, TypeOK, CurKeyed, PcCur, PcReleasing, ReleaseMove, Return, Goto
<1>12. ListKeyed'
  BY <1>1, <1>2, <1>6, <1>5
  DEF IInv, ListKeyed, BcType
<1>13. HeldKeyed'
  BY <1>1, <1>6, Zenon
  DEF IInv, TypeOK, HeldKeyed, ReleaseMove, Return
<1> QED
  BY <1>6, <1>7, <1>9, <1>10, <1>11, <1>12, <1>13, Zenon DEF IInv, KeysKept

\* nvfuse_move_bc_to_unused_list, the lookup.
LEMMA DiscardStep ==
  ASSUME IInv, NEW t \in Threads, NEW k \in Keys,
         Discard(t, k)
  PROVE  IInv'
<1>1. TypeOK'
  <2>1. contents' \in [Keys -> Vals \cup {Freed}]
    BY Zenon DEF Discard, IInv, TypeOK
  <2>2. CASE UNCHANGED <<bm_lock, pc, cur>>
    BY <2>1, <2>2, Zenon DEF Discard, IInv, TypeOK, flushVars
  <2>3. CASE \E b \in HashLookup(k) : /\ bm_lock' = t
                                     /\ cur' = [cur EXCEPT ![t] = b]
                                     /\ Goto(t, "unused_wait")
    BY <2>1, <2>3
    DEF Discard, IInv, TypeOK, flushVars, HashLookup, Goto, Pcs, PcBmHeld
  <2> QED
    BY <2>2, <2>3, Zenon DEF Discard
<1>3. KeyUnique'
  BY Zenon DEF IInv, KeyUnique, Discard, HashLookup
<1>4. BmOwner'
  BY ConstantsAssumption, Zenon
  DEF IInv, TypeOK, BmOwner, PcBmHeld, Discard, Goto
<1>5. CurKeyed'
  BY ConstantsAssumption
  DEF IInv, TypeOK, CurKeyed, PcCur, PcReleasing, Discard, HashLookup, Goto
<1>6. ListKeyed'
  BY Zenon DEF IInv, ListKeyed, Discard
<1>7. HeldKeyed'
  BY Zenon DEF IInv, HeldKeyed, Discard
<1> QED
  BY <1>1, <1>3, <1>4, <1>5, <1>6, <1>7, Zenon DEF IInv

\* nvfuse_move_bc_to_unused_list, once it has the bc_lock.
LEMMA DiscardLockStep ==
  ASSUME IInv, NEW t \in Threads,
         DiscardLock(t)
  PROVE  IInv' /\ KeysKept
<1> DEFINE c == cur[t]
           r == [bc[cur[t]] EXCEPT !.load = FALSE, !.dirty = FALSE,
                                   !.ref = 0, !.list = "unused"]
<1>1. /\ c \in Bcs
      /\ bc[c].bno # NoKey
      /\ bm_lock = t
  BY ConstantsAssumption, Zenon
  DEF IInv, TypeOK, CurKeyed, PcCur, PcReleasing, BmOwner, PcBmHeld,
      DiscardLock, Return, Goto, flushVars
<1>2. bc[c] \in BcType
  BY <1>1, Zenon
  DEF IInv, TypeOK
<1>3. r \in BcType
  BY ConstantsAssumption, <1>1, <1>2, Zenon
  DEF BcType, ListTypes
<1>4. bc' = [bc EXCEPT ![c] = r]
  BY <1>1, <1>2, Zenon
  DEF IInv, TypeOK, BcType, DiscardLock
<1>5. /\ bc' \in [Bcs -> BcType]
      /\ bc'[c] = r
      /\ \A x \in Bcs : x # c => bc'[x] = bc[x]
  BY <1>1, <1>3, <1>4, Zenon
  DEF IInv, TypeOK
<1>6. \A x \in Bcs : bc'[x].bno = bc[x].bno
  <2>1. r.bno = bc[c].bno
    BY <1>2, Zenon DEF BcType
  <2> QED
    BY <2>1, <1>5, Zenon
<1>7. TypeOK'
  BY ConstantsAssumption, <1>1, <1>5, Zenon
  DEF IInv, TypeOK, Pcs, PcBmHeld, PcReleasing, DiscardLock, Return, Goto,
      flushVars
<1>9. KeyUnique'
  BY <1>6, Zenon
  DEF IInv, KeyUnique
<1>10. BmOwner'
  BY ConstantsAssumption, <1>1, Zenon
  DEF IInv, TypeOK, BmOwner, PcBmHeld, DiscardLock, Return, Goto
<1>11. CurKeyed'
  BY ConstantsAssumption, <1>1, <1>6
  DEF IInv, TypeOK, CurKeyed, PcCur, PcReleasing, DiscardLock, Return, Goto
<1>12. ListKeyed'
  BY <1>1, <1>2, <1>6, <1>5
  DEF IInv, ListKeyed, BcType
<1>13. HeldKeyed'
  BY <1>1, <1>6, Zenon
  DEF IInv, TypeOK, HeldKeyed, DiscardLock, Return
<1> QED
  BY <1>6, <1>7, <1>9, <1>10, <1>11, <1>12, <1>13, Zenon DEF IInv, KeysKept

\* nvfuse_flush_dirty_data, the pass that collects a dirty buffer.
LEMMA CollectStep ==
  ASSUME IInv, NEW t \in Threads, NEW b \in Bcs,
         FlushCollect(t, b), bc[b].dirty
  PROVE  IInv' /\ KeysKept
<1> DEFINE r == [bc[b] EXCEPT !.flush = TRUE, !.list = "flushing"]
<1>1. /\ b \in Bcs
      /\ bc[b].bno # NoKey
      /\ pc' = pc /\ cur' = cur /\ held' = held
  BY ConstantsAssumption, Zenon
  DEF IInv, TypeOK, ListKeyed, FlushCollect, OnList, keepCache
<1>2. bc[b] \in BcType
  BY <1>1, Zenon
  DEF IInv, TypeOK
<1>3. r \in BcType
  BY ConstantsAssumption, <1>1, <1>2, Zenon
  DEF BcType, ListTypes
<1>4. bc' = [bc EXCEPT ![b] = r]
  BY <1>1, <1>2, Zenon
  DEF IInv, TypeOK, BcType, FlushCollect
<1>5. /\ bc' \in [Bcs -> BcType]
      /\ bc'[b] = r
      /\ \A x \in Bcs : x # b => bc'[x] = bc[x]
  BY <1>1, <1>3, <1>4, Zenon
  DEF IInv, TypeOK
<1>6. \A x \in Bcs : bc'[x].bno = bc[x].bno
  BY <1>1, <1>2, <1>5
  DEF BcType
<1>7. TypeOK'
  BY ConstantsAssumption, <1>1, <1>5
  DEF IInv, TypeOK, Pcs, PcBmHeld, PcReleasing, FlushCollect, keepCache
<1>9. KeyUnique'
  BY <1>6
  DEF IInv, KeyUnique
<1>10. BmOwner'
  BY ConstantsAssumption, <1>1, Zenon
  DEF IInv, TypeOK, BmOwner, PcBmHeld, FlushCollect, keepCache
<1>11. CurKeyed'
  BY ConstantsAssumption, <1>1, <1>6, Zenon
  DEF IInv, TypeOK, CurKeyed, PcCur, PcReleasing, FlushCollect, keepCache
<1>12. ListKeyed'
  BY <1>1, <1>2, <1>6, <1>5
  DEF IInv, ListKeyed, BcType
<1>13. HeldKeyed'
  BY <1>1, <1>6, Zenon
  DEF IInv, TypeOK, HeldKeyed, FlushCollect, keepCache
<1> QED
  BY <1>6, <1>7, <1>9, <1>10, <1>11, <1>12, <1>13, Zenon DEF IInv, KeysKept

\* nvfuse_flush_dirty_data, the pass that moves a written buffer.
LEMMA CleanStep ==
  ASSUME IInv, NEW t \in Threads, NEW b \in Bcs,
         Clean(t, b), bc[b].dirty
  PROVE  IInv' /\ KeysKept
<1> DEFINE r == [bc[b] EXCEPT !.dirty = FALSE, !.flush = FALSE,
                              !.list = "clean"]
<1>1. /\ b \in Bcs
      /\ bc[b].bno # NoKey
      /\ pc' = pc /\ cur' = cur /\ held' = held
  BY ConstantsAssumption, Zenon
  DEF IInv, TypeOK, ListKeyed, Clean, OnList, keepCache, flushVars
<1>2. bc[b] \in BcType
  BY <1>1, Zenon
  DEF IInv, TypeOK
<1>3. r \in BcType
  BY ConstantsAssumption, <1>1, <1>2, Zenon
  DEF BcType, ListTypes
<1>4. bc' = [bc EXCEPT ![b] = r]
  BY <1>1, <1>2, Zenon
  DEF IInv, TypeOK, BcType, Clean
<1>5. /\ bc' \in [Bcs -> BcType]
      /\ bc'[b] = r
      /\ \A x \in Bcs : x # b => bc'[x] = bc[x]
  BY <1>1, <1>3, <1>4, Zenon
  DEF IInv, TypeOK
<1>6. \A x \in Bcs : bc'[x].bno = bc[x].bno
  BY <1>1, <1>2, <1>5
  DEF BcType
<1>7. TypeOK'
  BY ConstantsAssumption, <1>1, <1>5, Zenon
  DEF IInv, TypeOK, Pcs, PcBmHeld, PcReleasing, Clean, keepCache, flushVars
<1>9. KeyUnique'
  BY <1>6
  DEF IInv, KeyUnique
<1>10. BmOwner'
  BY ConstantsAssumption, <1>1, Zenon
  DEF IInv, TypeOK, BmOwner, PcBmHeld, Clean, keepCache
<1>11. CurKeyed'
  BY ConstantsAssumption, <1>1, <1>6, Zenon
  DEF IInv, TypeOK, CurKeyed, PcCur, PcReleasing, Clean, keepCache
<1>12. ListKeyed'
  BY <1>1, <1>2, <1>6, <1>5
  DEF IInv, ListKeyed, BcType
<1>13. HeldKeyed'
  BY <1>1, <1>6, Zenon
  DEF IInv, TypeOK, HeldKeyed, Clean, keepCache
<1> QED
  BY <1>6, <1>7, <1>9, <1>10, <1>11, <1>12, <1>13, Zenon DEF IInv, KeysKept

\* nvfuse_get_bc and nvfuse_get_new_bh, once find_bc has returned: the caller
\* holds the buffer, and only its data and its flags change.
LEMMA FillStep ==
  ASSUME IInv, NEW t \in Threads,
         Fill(t)
  PROVE  IInv' /\ KeysKept
<1> DEFINE c == cur[t]
<1>1. /\ c \in Bcs
      /\ bc[c].bno \in Keys
  BY Zenon DEF IInv, TypeOK, BcType, CurKeyed, PcCur, PcReleasing, Fill
<1>2. bc[c] \in BcType /\ disk[bc[c].bno] \in Vals
  BY <1>1, Zenon DEF IInv, TypeOK
<1>3. /\ bc' \in [Bcs -> BcType]
      /\ \A x \in Bcs : /\ bc'[x].bno = bc[x].bno
                        /\ bc'[x].lock = bc[x].lock
                        /\ bc'[x].ref = bc[x].ref
                        /\ bc'[x].list = bc[x].list
  <2>1. CASE bc' = bc
    BY <2>1, Zenon DEF IInv, TypeOK
  <2>2. CASE bc' = [bc EXCEPT ![c].buf = disk[bc[c].bno], ![c].load = TRUE]
    BY <1>1, <1>2, <2>2, Zenon DEF IInv, TypeOK, BcType
  <2>3. CASE bc' = [bc EXCEPT ![c].buf = Zero, ![c].dirty = TRUE]
    BY <1>1, <1>2, <2>3, ConstantsAssumption, Zenon DEF IInv, TypeOK, BcType
  <2> QED
    BY <2>1, <2>2, <2>3, Zenon DEF Fill
<1>4. contents' \in [Keys -> Vals \cup {Freed}]
  BY <1>1, ConstantsAssumption, Zenon DEF Fill, IInv, TypeOK
<1>5. TypeOK'
  BY <1>3, <1>4, Zenon
  DEF IInv, TypeOK, Fill, Return, Goto, Pcs, PcBmHeld, flushVars
<1>7. KeyUnique'
  BY <1>3 DEF IInv, KeyUnique
<1>8. BmOwner'
  BY Zenon DEF IInv, TypeOK, BmOwner, PcBmHeld, Fill, Return, Goto
<1>9. CurKeyed'
  BY <1>3 DEF IInv, TypeOK, CurKeyed, PcCur, PcReleasing, Fill, Return, Goto
<1>10. ListKeyed'
  BY <1>3, Zenon DEF IInv, ListKeyed
<1>11. HeldKeyed'
  BY <1>3, Zenon DEF IInv, TypeOK, HeldKeyed, Fill
<1> QED
  BY <1>3, <1>5, <1>7, <1>8, <1>9, <1>10, <1>11, Zenon DEF IInv, KeysKept

\* A step that leaves the buffers and their holders alone, and goes from a
\* point q to a point p: it may take bm_lock if nobody owns it, it drops it
\* only if it owns it, and it does not start to work on a buffer.
LEMMA ControlStep ==
  ASSUME IInv, TypeOK', NEW t \in Threads, NEW p \in Pcs,
         UNCHANGED <<bc, held, cur>>,
         Goto(t, p) \/ UNCHANGED pc,
         \/ UNCHANGED bm_lock /\ (p \in PcBmHeld => pc[t] \in PcBmHeld)
         \/ bm_lock = Nobody /\ bm_lock' = t
         \/ bm_lock = t /\ bm_lock' = Nobody /\ p \notin PcBmHeld /\ Goto(t, p),
         p \in PcCur => pc[t] \in PcCur
  PROVE  IInv' /\ KeysKept
<1>1. BmOwner'
  <2> SUFFICES ASSUME NEW u \in Threads, pc'[u] \in PcBmHeld
               PROVE  bm_lock' = u
    BY DEF BmOwner
  <2>1. CASE u = t
    BY <2>1, ConstantsAssumption, Zenon DEF IInv, TypeOK, BmOwner, Goto
  <2>2. CASE u # t
    <3>1. bm_lock = u
      BY <2>2, Zenon DEF IInv, TypeOK, BmOwner, Goto
    <3> QED
      BY <2>2, <3>1, ConstantsAssumption, Zenon
  <2> QED
    BY <2>1, <2>2, Zenon
<1>2. CurKeyed'
  BY Zenon DEF IInv, TypeOK, CurKeyed, Goto
<1>3. KeyUnique' /\ ListKeyed' /\ HeldKeyed'
  BY Zenon DEF IInv, KeyUnique, ListKeyed, HeldKeyed
<1> QED
  BY <1>1, <1>2, <1>3, Zenon DEF IInv, KeysKept

\* nvfuse_find_bc, when the assertion of nvfuse_inc_bc_ref fails.
LEMMA FindAssertStep ==
  ASSUME IInv, NEW t \in Threads, FindLock(t), bc[cur[t]].ref # 0
  PROVE  IInv' /\ KeysKept
<1>1. TypeOK'
  BY Zenon DEF FindLock, Goto, IInv, TypeOK, Pcs, flushVars
<1> QED
  BY <1>1, ControlStep, Zenon DEF FindLock, Pcs, PcBmHeld, PcCur, PcReleasing

\* A step of nvfuse_check_flush_dirty.
LEMMA FlushStep ==
  ASSUME IInv, NEW t \in Threads, Flush(t)
  PROVE  IInv' /\ KeysKept
<1> USE DEF Pcs, PcBmHeld, PcCur, PcReleasing
<1>1. ASSUME FlushStart(t) \/ FlushCheck(t) \/ FlushEnd(t) \/ FlushIoDone(t)
      PROVE  IInv' /\ KeysKept
  <2>a. num_blocks' \in [Threads -> Nat]
    BY <1>1
    DEF FlushStart, FlushCheck, FlushEnd, FlushIoDone, IInv, TypeOK, flushVars
  <2>b. pc' \in [Threads -> Pcs]
    BY <1>1
    DEF FlushStart, FlushCheck, FlushEnd, FlushIoDone, IInv, TypeOK, Goto
  <2>1. TypeOK'
    BY <1>1, <2>a, <2>b, Zenon
    DEF FlushStart, FlushCheck, FlushEnd, FlushIoDone, IInv, TypeOK,
        flushVars, keepCache
  <2>2. /\ UNCHANGED <<bc, held, cur, bm_lock>>
        /\ \E p \in {"fl_check", "fl_end", "fl_lock", "idle", "clean_lock"} :
             Goto(t, p)
    BY <1>1, Zenon
    DEF FlushStart, FlushCheck, FlushEnd, FlushIoDone, flushVars, keepCache
  <2> QED
    BY <2>1, <2>2, ControlStep, Zenon
<1>2. ASSUME FlushLock(t) \/ SyncLock(t) \/ CleanLock(t)
      PROVE  IInv' /\ KeysKept
  <2>1. TypeOK'
    BY <1>2
    DEF FlushLock, SyncLock, CleanLock, IInv, TypeOK, Goto, flushVars,
        keepCache
  <2>2. /\ UNCHANGED <<bc, held, cur>>
        /\ bm_lock = Nobody /\ bm_lock' = t
        /\ \E p \in {"collect", "fill_jobs", "clean"} : Goto(t, p)
    BY <1>2, Zenon DEF FlushLock, SyncLock, CleanLock, keepCache
  <2> QED
    BY <2>1, <2>2, ControlStep, Zenon
<1>3. ASSUME FlushCollected(t) \/ SyncSubmit(t) \/ Cleaned(t)
      PROVE  IInv' /\ KeysKept
  <2>1. jobs' \in [Threads -> SUBSET Jobs]
    BY <1>3
    DEF FlushCollected, SyncSubmit, Cleaned, IInv, TypeOK, flushVars
  <2>2. TypeOK'
    BY <1>3, <2>1
    DEF FlushCollected, SyncSubmit, Cleaned, IInv, TypeOK, Goto, flushVars,
        keepCache
  <2>3. bm_lock = t
    BY <1>3, Zenon DEF FlushCollected, SyncSubmit, Cleaned, IInv, BmOwner
  <2>4. /\ UNCHANGED <<bc, held, cur>>
        /\ bm_lock' = Nobody
        /\ \E p \in {"sync_lock", "io", "assert_flush", "fl_check"} :
             Goto(t, p)
    BY <1>3, Zenon DEF FlushCollected, SyncSubmit, Cleaned, keepCache
  <2> QED
    BY <2>2, <2>3, <2>4, ControlStep, Zenon
<1>4. ASSUME NEW b \in Bcs, SyncFill(t, b)
      PROVE  IInv' /\ KeysKept
  <2>1. JobOf(b) \in Jobs
    BY <1>4, Zenon
    DEF SyncFill, Unfilled, OnList, JobOf, Jobs, IInv, TypeOK, BcType,
        ListKeyed
  <2>a. jobs' \in [Threads -> SUBSET Jobs]
    BY <1>4, <2>1 DEF SyncFill, IInv, TypeOK
  <2>b. pc' \in [Threads -> Pcs]
    BY <1>4 DEF SyncFill, IInv, TypeOK, Goto
  <2>2. TypeOK'
    BY <1>4, <2>a, <2>b, Zenon DEF SyncFill, IInv, TypeOK, keepCache
  <2>3. /\ UNCHANGED <<bc, held, cur, bm_lock>>
        /\ Goto(t, "assert_flush") \/ UNCHANGED pc
    BY <1>4, Zenon DEF SyncFill, keepCache
  <2> QED
    BY <2>2, <2>3, ControlStep
<1>5. ASSUME NEW j \in jobs[t], FlushIo(t, j)
      PROVE  IInv' /\ KeysKept
  <2>1. j \in Jobs
    BY <1>5, Zenon DEF IInv, TypeOK
  <2>2. disk' \in [Keys -> Vals]
    BY <1>5, <2>1, Zenon DEF FlushIo, IInv, TypeOK, Jobs, BcType
  <2>3. TypeOK'
    BY <1>5, <2>2, Zenon DEF FlushIo, IInv, TypeOK, keepCache
  <2>4. UNCHANGED <<bc, held, cur, bm_lock, pc>>
    BY <1>5, Zenon DEF FlushIo, keepCache
  <2> QED
    BY <2>3, <2>4, ControlStep
<1>6. ASSUME NEW b \in Bcs, FlushCollect(t, b)
      PROVE  IInv' /\ KeysKept
  <2>1. CASE bc[b].dirty
    BY <1>6, <2>1, CollectStep, Zenon
  <2>2. CASE ~bc[b].dirty
    <3>1. TypeOK'
      BY <1>6, <2>2, Zenon DEF FlushCollect, IInv, TypeOK, Goto, keepCache
    <3>2. /\ UNCHANGED <<bc, held, cur, bm_lock>>
          /\ Goto(t, "assert_flush")
      BY <1>6, <2>2, Zenon DEF FlushCollect, keepCache
    <3> QED
      BY <3>1, <3>2, ControlStep, Zenon
  <2> QED
    BY <2>1, <2>2
<1>7. ASSUME NEW b \in Bcs, Clean(t, b)
      PROVE  IInv' /\ KeysKept
  <2>1. CASE bc[b].dirty
    BY <1>7, <2>1, CleanStep, Zenon
  <2>2. CASE ~bc[b].dirty
    <3>1. TypeOK'
      BY <1>7, <2>2, Zenon DEF Clean, IInv, TypeOK, Goto, keepCache, flushVars
    <3>2. /\ UNCHANGED <<bc, held, cur, bm_lock>>
          /\ Goto(t, "assert_flush")
      BY <1>7, <2>2, Zenon DEF Clean, keepCache
    <3> QED
      BY <3>1, <3>2, ControlStep, Zenon
  <2> QED
    BY <2>1, <2>2
<1> QED
  BY <1>1, <1>2, <1>3, <1>4, <1>5, <1>6, <1>7, Zenon DEF Flush

\* Every step of a thread preserves the invariant.
LEMMA NextIInv == IInv /\ [Next]_vars => IInv'
<1> SUFFICES ASSUME IInv, [Next]_vars
             PROVE  IInv'
  OBVIOUS
<1>1. CASE UNCHANGED vars
  BY <1>1, Zenon
  DEF vars, IInv, TypeOK, KeyUnique, BmOwner, CurKeyed,
      ListKeyed, HeldKeyed
<1>2. ASSUME NEW t \in Threads, NEW k \in Keys, NEW read \in BOOLEAN,
             Find(t, k, read)
      PROVE  IInv'
  <2>1. CASE FindHit(t, k)
    BY <1>2, <2>1, FindHitStep, Zenon
  <2>2. CASE FindMiss(t, k)
    <3>1. CASE \E b \in Victims(ReplaceList) :
                  /\ bc' = InitBc(b, k)
                  /\ cur' = [cur EXCEPT ![t] = b]
                  /\ Goto(t, "find_wait")
      BY <1>2, <2>2, <3>1, FindMissStep, Zenon DEF FindMiss, Victims, OnList
    <3>2. CASE /\ UNCHANGED <<bc, cur>>
               /\ \E p \in {"sleep", "self_lock", "assert_replace"} : Goto(t, p)
      BY <1>2, <3>2, FindStuckStep, Zenon
    <3> QED
      BY <2>2, <3>1, <3>2, Zenon DEF FindMiss
  <2> QED
    BY <1>2, <2>1, <2>2, Zenon DEF Find
<1>3. ASSUME NEW t \in Threads, ReleaseCheckRef(t)
      PROVE  IInv'
  <2>1. TypeOK'
    BY <1>3, Zenon
    DEF IInv, TypeOK, ReleaseCheckRef, Goto, Pcs, PcReleasing, flushVars
  <2>2. CASE bc[cur[t]].ref = 0
    BY <1>3, <2>1, <2>2, ControlStep, Zenon
    DEF ReleaseCheckRef, Pcs, PcBmHeld, PcCur, PcReleasing
  <2>3. CASE bc[cur[t]].ref # 0
    BY <1>3, <2>1, <2>3, ControlStep, Zenon
    DEF ReleaseCheckRef, Pcs, PcBmHeld, PcCur, PcReleasing
  <2> QED
    BY <2>2, <2>3, Zenon
<1>4. ASSUME NEW t \in Threads, FindLock(t)
      PROVE  IInv'
  BY <1>4, FindLockStep, FindAssertStep, Zenon
<1>5. ASSUME NEW t \in Threads, Flush(t)
      PROVE  IInv'
  BY <1>5, FlushStep
<1> QED
  BY <1>1, <1>2, <1>3, <1>4, <1>5, FillStep, ModifyStep, ReleaseStep,
     ReleaseUnlockStep, ReleaseMoveStep, DiscardStep, DiscardLockStep, Zenon
  DEF Next

\* The type invariant of the cache holds in every state, for any number of
\* threads, buffers and keys: bc_ref is only ever 0 or 1, and a thread only
\* holds, waits for or flushes buffers and blocks that exist.
THEOREM TypeCorrect == Spec => []TypeOK
<1>1. Spec => []IInv
  BY InitIInv, NextIInv, PTL DEF Spec
<1>2. IInv => TypeOK
  BY DEF IInv
<1> QED
  BY <1>1, <1>2, PTL

\* The hash never holds two buffers for one block.
THEOREM KeysUnique == Spec => []KeyUnique
<1>1. Spec => []IInv
  BY InitIInv, NextIInv, PTL DEF Spec
<1>2. IInv => KeyUnique
  BY DEF IInv
<1> QED
  BY <1>1, <1>2, PTL

\* Only the replacement gives a buffer another key, and only under bm_lock and
\* to a buffer of the unused or the clean list.
LEMMA KeyChange ==
  ASSUME IInv, Next, NEW b \in Bcs, bc'[b].bno # bc[b].bno
  PROVE  bm_lock = Nobody /\ bc[b].list \in {"unused", "clean"}
<1>1. bc[b] \in BcType
  BY Zenon DEF IInv, TypeOK
<1>2. ASSUME NEW t \in Threads, NEW k \in Keys, NEW read \in BOOLEAN,
             Find(t, k, read)
      PROVE  bm_lock = Nobody /\ bc[b].list \in {"unused", "clean"}
  <2>1. CASE FindHit(t, k)
    BY <2>1, Zenon DEF FindHit
  <2>2. CASE FindMiss(t, k)
    BY <1>1, <1>2, <2>2, Zenon
    DEF Find, FindMiss, ReplaceList, Victims, OnList, InitBc, BcType,
        IInv, TypeOK
  <2> QED
    BY <1>2, <2>1, <2>2, Zenon DEF Find
<1>3. ASSUME NEW t \in Threads,
             ReleaseCheckRef(t) \/ \E k \in Keys : Discard(t, k)
      PROVE  FALSE
  BY <1>3, Zenon DEF ReleaseCheckRef, Discard
<1> QED
  BY <1>2, <1>3, FindLockStep, FindAssertStep, FillStep, ModifyStep,
     ReleaseStep, ReleaseUnlockStep, ReleaseMoveStep, DiscardLockStep, FlushStep, Zenon
  DEF Next, KeysKept

-----------------------------------------------------------------------------
(* The buffers of blocks that one thread uses at a time, because an inode  *)
(* lock protects them or because there is one thread.  The windows between *)
(* the unlock of bc_lock and the move to the dirty or the clean list are   *)
(* then harmless, for any number of threads, flushers, buffers and keys: a *)
(* buffer has one user, stays on the ref list while it has one, and keeps  *)
(* its key.                                                                *)

\* Every block is under an inode lock, or there is only one thread.
NoSharing == SharedKeys = {} \/ \A t, u \in Threads : t = u

\* Two threads never use one buffer.
UserUnique ==
  \A t, u \in Threads, b \in Bcs : UsedBy(t, b) /\ UsedBy(u, b) => t = u

\* A get or a discard that waits for a buffer, and a release, work on a buffer
\* the thread does not (or no longer) hold; a get that fills one holds it.
OneCall ==
  \A t \in Threads :
    /\ pc[t] \in {"find_wait", "unused_wait"} \cup PcReleasing
         => cur[t] \notin held[t]
    /\ pc[t] = "fill" => cur[t] \in held[t]

\* A buffer stays on the ref list from the get to the end of the release.
OnRef ==
  \A t \in Threads, b \in Bcs :
    b \in held[t] \/ (cur[t] = b /\ pc[t] \in PcReleasing)
      => bc[b].list = "ref"

\* What is on the clean or the unused list, or about to be, is not dirty.
NotDirty ==
  /\ \A b \in Bcs : bc[b].list \in {"clean", "unused"} => ~bc[b].dirty
  /\ \A t \in Threads :
       pc[t] \in {"rel_ref", "rel_clean"} => ~bc[cur[t]].dirty

HInv ==
  /\ HolderExclusive
  /\ UserUnique
  /\ OneCall
  /\ OnRef
  /\ NotDirty
  /\ RefAssert
  /\ ReleaseAssert

-----------------------------------------------------------------------------
\* The initial state satisfies the invariant.
LEMMA InitHInv == Init => HInv
  BY ConstantsAssumption
  DEF Init, HInv, HolderExclusive, UserUnique, UsedBy, InCall, OneCall, OnRef,
      NotDirty, RefAssert, ReleaseAssert, PcReleasing

\* A buffer nobody uses is not locked and has no reference.
LEMMA UnusedFree ==
  ASSUME IInv, HInv, NEW b \in Bcs, \A u \in Threads : ~UsedBy(u, b)
  PROVE  bc[b].lock = Nobody /\ bc[b].ref = 0
<1>1. bc[b].lock \in Threads \cup {Nobody} /\ bc[b].ref \in {0, 1}
  BY Zenon DEF IInv, TypeOK, BcType
<1> QED
  BY <1>1 DEF HInv, HolderExclusive, UsedBy, InCall, PcReleasing

\* A call starts to work on a buffer that nobody uses.
LEMMA BeginStep ==
  ASSUME IInv, HInv, NEW t \in Threads, NEW b \in Bcs,
         NEW p \in {"find_wait", "unused_wait"},
         \A u \in Threads : ~UsedBy(u, b),
         pc[t] = "idle", Goto(t, p), cur' = [cur EXCEPT ![t] = b],
         held' = held,
         \A x \in Bcs : x # b => bc'[x] = bc[x],
         bc'[b] = bc[b]
           \/ /\ bc'[b].lock = Nobody /\ bc'[b].ref = 0
              /\ bc'[b].list = "ref"
  PROVE  HInv'
<1>1. bc'[b].lock = Nobody /\ bc'[b].ref = 0
  BY UnusedFree, Zenon
<1>2. pc' = [pc EXCEPT ![t] = p] /\ pc \in [Threads -> Pcs]
      /\ cur \in [Threads -> Bcs \cup {NoBc}]
  BY Zenon DEF Goto, IInv, TypeOK
<1>3. HolderExclusive'
  BY <1>1, <1>2, ConstantsAssumption
  DEF HInv, HolderExclusive, UsedBy, InCall, PcReleasing
<1>4. UserUnique'
  BY <1>2 DEF HInv, UserUnique, UsedBy, InCall, PcReleasing
<1>5. OneCall'
  BY <1>2, Zenon DEF HInv, OneCall, UsedBy, PcReleasing
<1>6. OnRef'
  BY <1>2 DEF HInv, OnRef, UsedBy, InCall, PcReleasing
<1>7. NotDirty'
  <2>1. \A x \in Bcs : bc'[x].list \in {"clean", "unused"} => ~bc'[x].dirty
    BY Zenon DEF HInv, NotDirty
  <2>2. ASSUME NEW u \in Threads, pc'[u] \in {"rel_ref", "rel_clean"}
        PROVE  ~bc'[cur'[u]].dirty
    <3>1. u # t /\ pc'[u] = pc[u] /\ cur'[u] = cur[u]
      BY <1>2, <2>2, Zenon
    <3>2. cur[u] \in Bcs /\ cur[u] # b
      BY <2>2, <3>1, Zenon
      DEF IInv, CurKeyed, PcCur, PcReleasing, UsedBy, InCall
    <3> QED
      BY <2>2, <3>1, <3>2, Zenon DEF HInv, NotDirty
  <2> QED
    BY <2>1, <2>2, Zenon DEF NotDirty
<1>8. RefAssert' /\ ReleaseAssert'
  BY <1>2, Zenon DEF HInv, RefAssert, ReleaseAssert
<1> QED
  BY <1>3, <1>4, <1>5, <1>6, <1>7, <1>8, Zenon DEF HInv

\* A step that changes no lock, no reference and no holder, takes no buffer off
\* the ref list, puts only clean data on the clean list, makes dirty only what
\* is held, and moves no thread between two points of one call on a buffer,
\* except that a get may end.
LEMMA FrameStep ==
  ASSUME IInv, HInv, held' = held,
         \A x \in Bcs :
           /\ bc'[x].lock = bc[x].lock
           /\ bc'[x].ref = bc[x].ref
           /\ bc[x].list = "ref" => bc'[x].list = "ref"
           /\ bc'[x].list \in {"clean", "unused"} /\ bc'[x] # bc[x]
                => ~bc'[x].dirty
           /\ bc'[x].dirty => bc[x].dirty \/ \E t \in Threads : x \in held[t],
         \A t \in Threads :
           \/ pc'[t] = pc[t] /\ cur'[t] = cur[t]
           \/ /\ pc[t] \notin {"find_wait", "unused_wait"} \cup PcReleasing
              /\ pc'[t] \notin PcCur \cup {"assert_ref", "assert_release"}
  PROVE  HInv'
<1>1. HolderExclusive'
  BY DEF HInv, HolderExclusive, PcCur, PcReleasing
<1>2. UserUnique'
  BY DEF HInv, UserUnique, UsedBy, InCall, PcCur
<1>3. OneCall'
  BY Zenon DEF HInv, OneCall, PcCur
<1>4. OnRef'
  BY DEF HInv, OnRef, PcCur
<1>5. NotDirty'
  <2>1. \A x \in Bcs : bc'[x].list \in {"clean", "unused"} => ~bc'[x].dirty
    BY Zenon DEF HInv, NotDirty
  <2>2. ASSUME NEW u \in Threads, pc'[u] \in {"rel_ref", "rel_clean"}
        PROVE  ~bc'[cur'[u]].dirty
    <3>1. pc'[u] = pc[u] /\ cur'[u] = cur[u] /\ cur[u] \in Bcs
      BY <2>2, Zenon DEF IInv, CurKeyed, PcCur, PcReleasing
    <3>2. \A t \in Threads : cur[u] \notin held[t]
      BY <2>2, <3>1, Zenon
      DEF HInv, UserUnique, OneCall, UsedBy, InCall, PcReleasing
    <3> QED
      BY <2>2, <3>1, <3>2, Zenon DEF HInv, NotDirty
  <2> QED
    BY <2>1, <2>2, Zenon DEF NotDirty
<1>6. RefAssert' /\ ReleaseAssert'
  BY Zenon DEF HInv, RefAssert, ReleaseAssert
<1> QED
  BY <1>1, <1>2, <1>3, <1>4, <1>5, <1>6, Zenon DEF HInv

\* nvfuse_find_bc and the lookup of nvfuse_move_bc_to_unused_list: under the
\* inode lock the buffer of the block is nobody's.
LEMMA HitUnused ==
  ASSUME IInv, HInv, NoSharing, NEW t \in Threads, NEW k \in Keys,
         MayUse(t, k), NEW b \in HashLookup(k)
  PROVE  b \in Bcs /\ \A u \in Threads : ~UsedBy(u, b)
<1>1. b \in Bcs /\ bc[b].bno = k
  BY DEF HashLookup
<1>2. \A u \in Threads : ~Using(u, k)
  BY DEF MayUse, NoSharing
<1> QED
  BY <1>1, <1>2, Zenon DEF Using, UsedBy, InCall, HInv, OneCall, PcReleasing

\* A buffer on the unused or the clean list, where the replacement takes its
\* victims from, is nobody's while bm_lock is free.
LEMMA VictimUnused ==
  ASSUME IInv, HInv, bm_lock = Nobody, NEW b \in Bcs,
         bc[b].list \in {"unused", "clean"}
  PROVE  \A u \in Threads : ~UsedBy(u, b)
<1> SUFFICES ASSUME NEW u \in Threads, UsedBy(u, b)
             PROVE  FALSE
  OBVIOUS
<1>1. pc[u] \notin {"find_wait", "unused_wait"}
  BY ConstantsAssumption, Zenon DEF IInv, BmOwner, PcBmHeld
<1>2. b \in held[u] \/ (cur[u] = b /\ pc[u] \in PcReleasing)
  BY <1>1, Zenon DEF UsedBy, InCall, HInv, OneCall
<1> QED
  BY <1>2, Zenon DEF HInv, OnRef

\* nvfuse_find_bc, hit or miss, starts on a buffer that is nobody's.
LEMMA FindHolder ==
  ASSUME IInv, HInv, NoSharing, NEW t \in Threads, NEW k \in Keys,
         NEW read \in BOOLEAN, Find(t, k, read)
  PROVE  HInv'
<1>1. CASE FindHit(t, k)
  <2>1. PICK b \in HashLookup(k) : cur' = [cur EXCEPT ![t] = b]
    BY <1>1, Zenon DEF FindHit
  <2>2. b \in Bcs /\ \A u \in Threads : ~UsedBy(u, b)
    BY <2>1, HitUnused, Zenon DEF Find
  <2> QED
    BY <1>1, <2>1, <2>2, BeginStep, Zenon DEF Find, FindHit
<1>2. CASE FindMiss(t, k)
  <2>1. CASE \E b \in Victims(ReplaceList) :
               /\ ReplaceList # "dirty"
               /\ bc' = InitBc(b, k)
               /\ cur' = [cur EXCEPT ![t] = b]
               /\ Goto(t, "find_wait")
    <3>1. PICK b \in Victims(ReplaceList) :
            /\ ReplaceList # "dirty"
            /\ bc' = InitBc(b, k)
            /\ cur' = [cur EXCEPT ![t] = b]
            /\ Goto(t, "find_wait")
      BY <2>1, Zenon
    <3>2. b \in Bcs /\ bc[b].list \in {"unused", "clean"}
      BY <3>1, Zenon DEF Victims, OnList, ReplaceList
    <3>3. \A u \in Threads : ~UsedBy(u, b)
      BY <3>2, VictimUnused, Zenon DEF Find
    <3>4. /\ \A x \in Bcs : x # b => bc'[x] = bc[x]
          /\ bc'[b].lock = Nobody /\ bc'[b].ref = 0 /\ bc'[b].list = "ref"
      BY <3>1, <3>2 DEF InitBc, IInv, TypeOK, BcType
    <3> QED
      BY <3>1, <3>2, <3>3, <3>4, BeginStep, Zenon DEF Find
  <2>2. CASE /\ UNCHANGED <<bc, cur>>
             /\ \E p \in {"sleep", "self_lock", "assert_replace"} : Goto(t, p)
    <3>1. \A u \in Threads :
            \/ pc'[u] = pc[u] /\ cur'[u] = cur[u]
            \/ /\ pc[u] = "idle"
               /\ pc'[u] \in {"sleep", "self_lock", "assert_replace"}
      BY <2>2, Zenon DEF Find, Goto, IInv, TypeOK
    <3> QED
      BY <2>2, <3>1, FrameStep, Zenon DEF Find, PcCur, PcReleasing
  <2> QED
    BY <1>2, <2>1, <2>2, Zenon DEF FindMiss
<1> QED
  BY <1>1, <1>2, Zenon DEF Find

\* The get locks the buffer: it becomes the only user.
LEMMA FindLockHolder ==
  ASSUME IInv, HInv, NEW t \in Threads, FindLock(t)
  PROVE  HInv'
<1> DEFINE c == cur[t]
<1>1. /\ c \in Bcs
      /\ c \notin held[t]
      /\ UsedBy(t, c)
      /\ bc[c].ref \in {0, 1}
  BY Zenon
  DEF FindLock, IInv, TypeOK, BcType, CurKeyed, PcCur, HInv, OneCall, UsedBy,
         InCall
<1>2. \A u \in Threads : UsedBy(u, c) => u = t
  BY <1>1, Zenon DEF HInv, UserUnique
<1>3. bc[c].ref = 0
  BY <1>1, <1>2, Zenon DEF HInv, HolderExclusive, UsedBy
<1>4. /\ bc'[c].lock = t /\ bc'[c].ref = 1 /\ bc'[c].list = "ref"
      /\ bc'[c].dirty = bc[c].dirty
      /\ \A x \in Bcs : x # c => bc'[x] = bc[x]
  BY <1>1, <1>3 DEF FindLock, IInv, TypeOK, BcType
<1>5. /\ pc' = [pc EXCEPT ![t] = "fill"] /\ pc \in [Threads -> Pcs]
      /\ held' = [held EXCEPT ![t] = @ \cup {c}]
      /\ held \in [Threads -> SUBSET Bcs]
      /\ cur' = cur
      /\ pc[t] = "find_wait"
  BY <1>3, Zenon DEF FindLock, Goto, IInv, TypeOK
<1>6. HolderExclusive'
  BY <1>1, <1>2, <1>4, <1>5, ConstantsAssumption
  DEF HInv, HolderExclusive, UsedBy, InCall, PcReleasing
<1>7. UserUnique'
  BY <1>1, <1>2, <1>5 DEF HInv, UserUnique, UsedBy, InCall, PcReleasing
<1>8. OneCall'
  BY <1>1, <1>2, <1>5, Zenon
  DEF HInv, OneCall, UsedBy, InCall, PcReleasing
<1>9. OnRef'
  BY <1>4, <1>5, Zenon DEF HInv, OnRef, PcReleasing
<1>10. NotDirty'
  <2>1. \A x \in Bcs : bc'[x].list \in {"clean", "unused"} => ~bc'[x].dirty
    BY <1>4, Zenon DEF HInv, NotDirty
  <2>2. ASSUME NEW u \in Threads, pc'[u] \in {"rel_ref", "rel_clean"}
        PROVE  ~bc'[cur'[u]].dirty
    <3>1. u # t /\ pc'[u] = pc[u] /\ cur'[u] = cur[u]
      BY <1>5, <2>2, Zenon
    <3>2. cur[u] \in Bcs /\ cur[u] # c
      BY <1>2, <2>2, <3>1, Zenon
      DEF IInv, CurKeyed, PcCur, PcReleasing, UsedBy, InCall
    <3> QED
      BY <1>4, <2>2, <3>1, <3>2 DEF HInv, NotDirty
  <2> QED
    BY <2>1, <2>2, Zenon DEF NotDirty
<1>11. RefAssert' /\ ReleaseAssert'
  BY <1>5, Zenon DEF HInv, RefAssert, ReleaseAssert
<1> QED
  BY <1>6, <1>7, <1>8, <1>9, <1>10, <1>11, Zenon DEF HInv

\* The end of a get: the buffer is loaded or cleared.
LEMMA FillHolder ==
  ASSUME IInv, HInv, NEW t \in Threads, Fill(t)
  PROVE  HInv'
<1> DEFINE c == cur[t]
<1>1. c \in Bcs /\ c \in held[t] /\ bc[c].list = "ref"
  BY Zenon DEF Fill, IInv, CurKeyed, PcCur, HInv, OneCall, OnRef
<1>2. \A x \in Bcs :
         /\ bc'[x].lock = bc[x].lock
         /\ bc'[x].ref = bc[x].ref
         /\ bc'[x].list = bc[x].list
         /\ x # c => bc'[x] = bc[x]
  <2>1. CASE bc' = bc
    BY <2>1
  <2>2. CASE bc' = [bc EXCEPT ![c].buf = disk[bc[c].bno], ![c].load = TRUE]
    BY <1>1, <2>2 DEF IInv, TypeOK, BcType
  <2>3. CASE bc' = [bc EXCEPT ![c].buf = Zero, ![c].dirty = TRUE]
    BY <1>1, <2>3 DEF IInv, TypeOK, BcType
  <2> QED
    BY <2>1, <2>2, <2>3, Zenon DEF Fill
<1>3. \A u \in Threads :
         \/ pc'[u] = pc[u] /\ cur'[u] = cur[u]
         \/ pc[u] = "fill" /\ pc'[u] = "idle"
  BY Zenon DEF Fill, Return, Goto, IInv, TypeOK
<1> QED
  BY <1>1, <1>2, <1>3, FrameStep DEF Fill, PcCur, PcReleasing

\* A holder changes the data of its buffer.
LEMMA ModifyHolder ==
  ASSUME IInv, HInv, NEW t \in Threads, NEW b \in held[t], NEW v \in Vals,
         Modify(t, b, v)
  PROVE  HInv'
<1>1. b \in Bcs /\ bc[b].list = "ref"
  BY Zenon DEF IInv, TypeOK, HInv, OnRef
<1>2. \A x \in Bcs :
         /\ bc'[x].lock = bc[x].lock
         /\ bc'[x].ref = bc[x].ref
         /\ bc'[x].list = bc[x].list
         /\ x # b => bc'[x] = bc[x]
  BY <1>1 DEF Modify, IInv, TypeOK, BcType
<1> QED
  BY <1>1, <1>2, FrameStep DEF Modify

\* nvfuse_release_bc up to nvfuse_dec_bc_ref: the reference is there.
LEMMA ReleaseHolder ==
  ASSUME IInv, HInv, NEW t \in Threads, NEW b \in held[t],
         NEW dirty \in BOOLEAN, Release(t, b, dirty)
  PROVE  HInv'
<1>1. /\ b \in Bcs /\ UsedBy(t, b) /\ bc[b].ref = 1
      /\ bc[b].list = "ref" /\ bc[b].lock = t
  BY DEF IInv, TypeOK, UsedBy, HInv, HolderExclusive, OnRef
<1>2. \A u \in Threads : UsedBy(u, b) => u = t
  BY <1>1, Zenon DEF HInv, UserUnique
<1>3. /\ bc'[b].lock = t /\ bc'[b].ref = 0 /\ bc'[b].list = "ref"
      /\ \A x \in Bcs : x # b => bc'[x] = bc[x]
      /\ \A x \in Bcs : bc'[x].dirty = bc[x].dirty
      /\ \A x \in Bcs : bc'[x].list = bc[x].list
  <2>1. bc' = [bc EXCEPT ![b].ref = 0]
    BY <1>1 DEF Release
  <2> QED
    BY <1>1, <2>1 DEF IInv, TypeOK, BcType
<1>4. /\ pc' = [pc EXCEPT ![t] = "rel_unlock"] /\ pc \in [Threads -> Pcs]
      /\ held' = [held EXCEPT ![t] = @ \ {b}]
      /\ held \in [Threads -> SUBSET Bcs]
      /\ cur' = [cur EXCEPT ![t] = b]
      /\ cur \in [Threads -> Bcs \cup {NoBc}]
      /\ pc[t] = "idle"
  BY <1>1 DEF Release, Goto, IInv, TypeOK
<1>5. HolderExclusive'
  BY <1>1, <1>2, <1>3, <1>4, ConstantsAssumption
  DEF HInv, HolderExclusive, UsedBy, InCall, PcReleasing
<1>6. UserUnique'
  BY <1>1, <1>2, <1>4 DEF HInv, UserUnique, UsedBy, InCall, PcReleasing
<1>7. OneCall'
  BY <1>4, Zenon DEF HInv, OneCall, PcReleasing
<1>8. OnRef'
  BY <1>1, <1>3, <1>4 DEF HInv, OnRef, PcReleasing
<1>9. NotDirty'
  BY <1>3, <1>4 DEF HInv, NotDirty, IInv, CurKeyed, PcCur, PcReleasing
<1>10. RefAssert' /\ ReleaseAssert'
  BY <1>4, Zenon DEF HInv, RefAssert, ReleaseAssert
<1> QED
  BY <1>5, <1>6, <1>7, <1>8, <1>9, <1>10, Zenon DEF HInv

\* The release unlocks the buffer; it stays on the ref list.
LEMMA ReleaseUnlockHolder ==
  ASSUME IInv, HInv, NEW t \in Threads, ReleaseUnlock(t)
  PROVE  HInv'
<1> DEFINE c == cur[t]
           d == arg[t] \/ bc[c].dirty
           l == bc[c].load \/ d
<1>1. /\ c \in Bcs /\ UsedBy(t, c) /\ c \notin held[t]
      /\ bc[c].list = "ref"
  BY Zenon
  DEF ReleaseUnlock, IInv, CurKeyed, PcCur, PcReleasing, UsedBy, InCall, HInv,
         OneCall, OnRef
<1>2. \A u \in Threads : UsedBy(u, c) => u = t
  BY <1>1, Zenon DEF HInv, UserUnique
<1>3. bc' = [bc EXCEPT ![c].lock = Nobody, ![c].dirty = d, ![c].load = l]
  BY Zenon DEF ReleaseUnlock
<1>a. d \in BOOLEAN
  OBVIOUS
<1>4. /\ pc' = [pc EXCEPT ![t] = IF d THEN "rel_dirty" ELSE "rel_ref"]
      /\ pc \in [Threads -> Pcs]
      /\ held' = held
      /\ cur' = cur
      /\ pc[t] = "rel_unlock"
  BY Zenon DEF ReleaseUnlock, Goto, IInv, TypeOK
<1> HIDE DEF d, l
<1>5. /\ bc'[c].lock = Nobody /\ bc'[c].dirty = d
      /\ \A x \in Bcs : x # c => bc'[x] = bc[x]
      /\ \A x \in Bcs : bc'[x].list = bc[x].list /\ bc'[x].ref = bc[x].ref
  BY <1>1, <1>3 DEF IInv, TypeOK, BcType
<1>6. HolderExclusive'
  BY <1>1, <1>2, <1>4, <1>5, ConstantsAssumption
  DEF HInv, HolderExclusive, UsedBy, InCall, PcReleasing
<1>7. UserUnique'
  BY <1>4 DEF HInv, UserUnique, UsedBy, InCall, PcReleasing
<1>8. OneCall'
  BY <1>4, Zenon DEF HInv, OneCall, PcReleasing
<1>9. OnRef'
  BY <1>4, <1>5 DEF HInv, OnRef, PcReleasing
<1>10. NotDirty'
  <2>1. \A x \in Bcs : bc'[x].list \in {"clean", "unused"} => ~bc'[x].dirty
    BY <1>1, <1>5, Zenon DEF HInv, NotDirty
  <2>2. ASSUME NEW u \in Threads, pc'[u] \in {"rel_ref", "rel_clean"}
        PROVE  ~bc'[cur'[u]].dirty
    <3>1. CASE u = t
      BY <1>4, <1>5, <1>a, <2>2, <3>1, Zenon
    <3>2. CASE u # t
      <4>1. pc'[u] = pc[u] /\ cur'[u] = cur[u]
        BY <1>4, <3>2, Zenon
      <4>2. cur[u] \in Bcs /\ cur[u] # c
        BY <1>2, <2>2, <3>2, <4>1, Zenon
        DEF IInv, CurKeyed, PcCur, PcReleasing, UsedBy, InCall
      <4> QED
        BY <1>5, <2>2, <4>1, <4>2 DEF HInv, NotDirty
    <3> QED
      BY <3>1, <3>2, Zenon
  <2> QED
    BY <2>1, <2>2, Zenon DEF NotDirty
<1>11. RefAssert' /\ ReleaseAssert'
  BY <1>4, Zenon DEF HInv, RefAssert, ReleaseAssert
<1> QED
  BY <1>6, <1>7, <1>8, <1>9, <1>10, <1>11, Zenon DEF HInv

\* nvfuse_release_bc reads bc_ref after the unlock: nobody got the buffer.
LEMMA ReleaseCheckHolder ==
  ASSUME IInv, HInv, NEW t \in Threads, ReleaseCheckRef(t)
  PROVE  HInv'
<1> DEFINE c == cur[t]
<1>1. /\ c \in Bcs /\ UsedBy(t, c) /\ c \notin held[t]
      /\ bc[c].ref \in {0, 1}
  BY Zenon
  DEF ReleaseCheckRef, IInv, TypeOK, BcType, CurKeyed, PcCur, PcReleasing,
         UsedBy, InCall, HInv, OneCall
<1>2. bc[c].ref = 0
  BY <1>1 DEF HInv, HolderExclusive, UserUnique, UsedBy
<1>3. /\ pc' = [pc EXCEPT ![t] = "rel_clean"] /\ pc \in [Threads -> Pcs]
      /\ pc[t] = "rel_ref"
      /\ held' = held /\ cur' = cur /\ bc' = bc
  BY <1>2, Zenon DEF ReleaseCheckRef, Goto, IInv, TypeOK
<1>4. HolderExclusive'
  BY <1>3 DEF HInv, HolderExclusive
<1>5. UserUnique'
  BY <1>3 DEF HInv, UserUnique, UsedBy, InCall, PcReleasing
<1>6. OneCall' /\ OnRef' /\ NotDirty'
  BY <1>3, Zenon DEF HInv, OneCall, OnRef, NotDirty, PcReleasing
<1>7. RefAssert' /\ ReleaseAssert'
  BY <1>3, Zenon DEF HInv, RefAssert, ReleaseAssert
<1> QED
  BY <1>4, <1>5, <1>6, <1>7, Zenon DEF HInv

\* The end of a call on a buffer the thread does not hold: nobody else uses
\* the buffer, so its list may change.
LEMMA EndStep ==
  ASSUME IInv, HInv, NEW t \in Threads, Return(t), held' = held,
         pc[t] \in {"rel_dirty", "rel_clean", "unused_wait"},
         \A x \in Bcs : x # cur[t] => bc'[x] = bc[x],
         bc'[cur[t]].lock = bc[cur[t]].lock, bc'[cur[t]].ref = bc[cur[t]].ref,
         bc'[cur[t]].list \in {"clean", "unused"} => ~bc'[cur[t]].dirty
  PROVE  HInv'
<1> DEFINE c == cur[t]
<1>1. c \in Bcs /\ UsedBy(t, c) /\ c \notin held[t]
  BY Zenon
  DEF IInv, CurKeyed, PcCur, PcReleasing, UsedBy, InCall, HInv, OneCall
<1>2. \A u \in Threads : UsedBy(u, c) => u = t
  BY <1>1, Zenon DEF HInv, UserUnique
<1>3. /\ pc' = [pc EXCEPT ![t] = "idle"] /\ pc \in [Threads -> Pcs]
      /\ cur' = [cur EXCEPT ![t] = NoBc]
      /\ cur \in [Threads -> Bcs \cup {NoBc}]
  BY Zenon DEF Return, Goto, IInv, TypeOK
<1>4. HolderExclusive'
  BY <1>1, <1>3 DEF HInv, HolderExclusive
<1>5. UserUnique'
  BY <1>3 DEF HInv, UserUnique, UsedBy, InCall, PcReleasing
<1>6. OneCall'
  BY <1>3, Zenon DEF HInv, OneCall, PcReleasing
<1>7. OnRef'
  BY <1>1, <1>2, <1>3 DEF HInv, OnRef, UsedBy, InCall, PcReleasing
<1>8. NotDirty'
  <2>1. \A x \in Bcs : bc'[x].list \in {"clean", "unused"} => ~bc'[x].dirty
    BY <1>1, Zenon DEF HInv, NotDirty
  <2>2. ASSUME NEW u \in Threads, pc'[u] \in {"rel_ref", "rel_clean"}
        PROVE  ~bc'[cur'[u]].dirty
    <3>1. u # t /\ pc'[u] = pc[u] /\ cur'[u] = cur[u]
      BY <1>3, <2>2, Zenon
    <3>2. cur[u] \in Bcs /\ cur[u] # c
      BY <1>2, <2>2, <3>1, Zenon
      DEF IInv, CurKeyed, PcCur, PcReleasing, UsedBy, InCall
    <3> QED
      BY <2>2, <3>1, <3>2, Zenon DEF HInv, NotDirty
  <2> QED
    BY <2>1, <2>2, Zenon DEF NotDirty
<1>9. RefAssert' /\ ReleaseAssert'
  BY <1>3, Zenon DEF HInv, RefAssert, ReleaseAssert
<1> QED
  BY <1>4, <1>5, <1>6, <1>7, <1>8, <1>9, Zenon DEF HInv

\* The end of a release: the move to the dirty or the clean list.
LEMMA ReleaseMoveHolder ==
  ASSUME IInv, HInv, NEW t \in Threads, ReleaseMove(t)
  PROVE  HInv'
<1> DEFINE c == cur[t]
<1>1. c \in Bcs
  BY Zenon DEF ReleaseMove, IInv, CurKeyed, PcCur, PcReleasing
<1>2. bc \in [Bcs -> BcType] /\ bc[c] \in BcType
  BY <1>1, Zenon DEF IInv, TypeOK
<1>3. /\ bc'[c] = [bc[c] EXCEPT !.list =
                     IF pc[t] = "rel_dirty" THEN "dirty" ELSE "clean"]
      /\ \A x \in Bcs : x # c => bc'[x] = bc[x]
  BY <1>1, <1>2, Zenon DEF ReleaseMove
<1>4. bc'[c].lock = bc[c].lock /\ bc'[c].ref = bc[c].ref
  BY <1>2, <1>3, Zenon DEF BcType
<1>5. bc'[c].list \in {"clean", "unused"} => ~bc'[c].dirty
  <2>1. CASE pc[t] = "rel_dirty"
    BY <1>2, <1>3, <2>1, Zenon DEF BcType
  <2>2. CASE pc[t] = "rel_clean"
    BY <1>2, <1>3, <2>2, Zenon DEF BcType, HInv, NotDirty
  <2> QED
    BY <2>1, <2>2, Zenon DEF ReleaseMove
<1> QED
  BY <1>3, <1>4, <1>5, EndStep, Zenon DEF ReleaseMove

\* The start of a discard.
LEMMA DiscardHolder ==
  ASSUME IInv, HInv, NoSharing, NEW t \in Threads, NEW k \in Keys,
         Discard(t, k)
  PROVE  HInv'
<1>1. CASE UNCHANGED <<bm_lock, pc, cur>>
  BY <1>1, FrameStep, Zenon DEF Discard, HInv, NotDirty
<1>2. CASE \E b \in HashLookup(k) :
             cur' = [cur EXCEPT ![t] = b] /\ Goto(t, "unused_wait")
  <2>1. PICK b \in HashLookup(k) :
          cur' = [cur EXCEPT ![t] = b] /\ Goto(t, "unused_wait")
    BY <1>2, Zenon
  <2>2. b \in Bcs /\ \A u \in Threads : ~UsedBy(u, b)
    BY <2>1, HitUnused, Zenon DEF Discard
  <2> QED
    BY <2>1, <2>2, BeginStep, Zenon DEF Discard
<1> QED
  BY <1>1, <1>2, Zenon DEF Discard

\* The end of a discard: the buffer goes to the unused list, its data dropped.
LEMMA DiscardLockHolder ==
  ASSUME IInv, HInv, NEW t \in Threads, DiscardLock(t)
  PROVE  HInv'
<1> DEFINE c == cur[t]
<1>1. c \in Bcs /\ UsedBy(t, c) /\ c \notin held[t]
  BY Zenon
  DEF DiscardLock, IInv, CurKeyed, PcCur, UsedBy, InCall, HInv, OneCall
<1>2. bc \in [Bcs -> BcType] /\ bc[c] \in BcType
  BY <1>1, Zenon DEF IInv, TypeOK
<1>3. /\ bc'[c] = [bc[c] EXCEPT !.load = FALSE, !.dirty = FALSE,
                                !.ref = 0, !.list = "unused"]
      /\ \A x \in Bcs : x # c => bc'[x] = bc[x]
  BY <1>1, <1>2, Zenon DEF DiscardLock
<1>4. bc[c].ref = 0
  BY <1>1, <1>2, Zenon DEF BcType, HInv, HolderExclusive, UserUnique, UsedBy
<1>5. /\ bc'[c].lock = bc[c].lock /\ bc'[c].ref = bc[c].ref
      /\ ~bc'[c].dirty
  BY <1>2, <1>3, <1>4, Zenon DEF BcType
<1> QED
  BY <1>3, <1>5, EndStep, Zenon DEF DiscardLock

\* The flush touches only buffers of the dirty and the flushing list.
LEMMA FlushHolder ==
  ASSUME IInv, HInv, NEW t \in Threads, Flush(t)
  PROVE  HInv'
<1> DEFINE Calm == pc[t] \notin {"find_wait", "unused_wait"} \cup PcReleasing
<1>0. bc \in [Bcs -> BcType] /\ pc \in [Threads -> Pcs]
  BY Zenon DEF IInv, TypeOK
<1>1. ASSUME NEW p, Goto(t, p), Calm,
             p \notin PcCur \cup {"assert_ref", "assert_release"},
             UNCHANGED <<bc, keepCache>>
      PROVE  HInv'
  BY <1>0, <1>1, FrameStep, Zenon DEF keepCache, Goto
<1>2. ASSUME UNCHANGED <<bc, pc, keepCache>>
      PROVE  HInv'
  BY <1>2, FrameStep, Zenon DEF keepCache
<1>3. ASSUME FlushStart(t) \/ FlushCheck(t) \/ FlushLock(t) \/ FlushCollected(t)
      PROVE  HInv'
  BY <1>1, <1>3, Zenon
  DEF FlushStart, FlushCheck, FlushLock, FlushCollected, PcCur, PcReleasing
<1>4. ASSUME SyncLock(t) \/ SyncSubmit(t) \/ FlushIoDone(t)
      PROVE  HInv'
  BY <1>1, <1>4, Zenon
  DEF SyncLock, SyncSubmit, FlushIoDone, PcCur, PcReleasing
<1>5. ASSUME CleanLock(t) \/ Cleaned(t) \/ FlushEnd(t)
      PROVE  HInv'
  BY <1>1, <1>5, Zenon DEF CleanLock, Cleaned, FlushEnd, PcCur, PcReleasing
<1>6. ASSUME NEW j \in jobs[t], FlushIo(t, j)
      PROVE  HInv'
  BY <1>2, <1>6, Zenon DEF FlushIo
<1>7. ASSUME NEW b \in Bcs, SyncFill(t, b)
      PROVE  HInv'
  BY <1>1, <1>2, <1>7, Zenon DEF SyncFill, PcCur, PcReleasing
<1>8. ASSUME NEW b \in Bcs, FlushCollect(t, b)
      PROVE  HInv'
  <2>1. CASE ~bc[b].dirty
    BY <1>1, <1>8, <2>1, Zenon DEF FlushCollect, PcCur, PcReleasing
  <2>2. CASE bc[b].dirty
    <3>1. /\ bc[b].list = "dirty" /\ UNCHANGED <<pc, keepCache>>
          /\ bc' = [bc EXCEPT ![b].flush = TRUE, ![b].list = "flushing"]
      BY <1>8, <2>2, Zenon DEF FlushCollect, OnList
    <3>2. \A x \in Bcs : x # b => bc'[x] = bc[x]
      BY <1>0, <3>1, Zenon
    <3>3. /\ bc'[b].lock = bc[b].lock /\ bc'[b].ref = bc[b].ref
          /\ bc'[b].list = "flushing" /\ bc[b].dirty
      BY <1>0, <2>2, <3>1, Zenon DEF BcType
    <3> QED
      BY <3>1, <3>2, <3>3, FrameStep, Zenon DEF keepCache
  <2> QED
    BY <2>1, <2>2, Zenon
<1>9. ASSUME NEW b \in Bcs, Clean(t, b)
      PROVE  HInv'
  <2>1. CASE ~bc[b].dirty
    BY <1>1, <1>9, <2>1, Zenon DEF Clean, PcCur, PcReleasing
  <2>2. CASE bc[b].dirty
    <3>1. /\ bc[b].list = "flushing" /\ UNCHANGED <<pc, keepCache>>
          /\ bc' = [bc EXCEPT ![b].dirty = FALSE, ![b].flush = FALSE,
                              ![b].list = "clean"]
      BY <1>9, <2>2, Zenon DEF Clean, OnList
    <3>2. \A x \in Bcs : x # b => bc'[x] = bc[x]
      BY <1>0, <3>1, Zenon
    <3>3. /\ bc'[b].lock = bc[b].lock /\ bc'[b].ref = bc[b].ref
          /\ ~bc'[b].dirty
      BY <1>0, <3>1 DEF BcType
    <3> QED
      BY <3>1, <3>2, <3>3, FrameStep, Zenon DEF keepCache
  <2> QED
    BY <2>1, <2>2, Zenon
<1> QED
  BY <1>3, <1>4, <1>5, <1>6, <1>7, <1>8, <1>9, Zenon DEF Flush

\* Every step preserves the invariant.
LEMMA NextHInv ==
  ASSUME NoSharing
  PROVE  IInv /\ HInv /\ [Next]_vars => HInv'
<1> SUFFICES ASSUME IInv, HInv, [Next]_vars
             PROVE  HInv'
  OBVIOUS
<1>1. CASE UNCHANGED vars
  BY <1>1, FrameStep, Zenon DEF vars
<1>2. ASSUME NEW t \in Threads, NEW k \in Keys, NEW read \in BOOLEAN,
             Find(t, k, read)
      PROVE  HInv'
  BY <1>2, FindHolder, Zenon
<1>3. ASSUME NEW t \in Threads, NEW b \in held[t], NEW v \in Vals,
             Modify(t, b, v)
      PROVE  HInv'
  BY <1>3, ModifyHolder, Zenon
<1>4. ASSUME NEW t \in Threads, NEW b \in held[t], NEW dirty \in BOOLEAN,
             Release(t, b, dirty)
      PROVE  HInv'
  BY <1>4, ReleaseHolder, Zenon
<1>5. ASSUME NEW t \in Threads, NEW k \in Keys, Discard(t, k)
      PROVE  HInv'
  BY <1>5, DiscardHolder, Zenon
<1>6. ASSUME NEW t \in Threads,
             FindLock(t) \/ Fill(t) \/ ReleaseUnlock(t) \/ ReleaseCheckRef(t)
      PROVE  HInv'
  BY <1>6, FindLockHolder, FillHolder, ReleaseUnlockHolder,
     ReleaseCheckHolder, Zenon
<1>7. ASSUME NEW t \in Threads, ReleaseMove(t) \/ DiscardLock(t) \/ Flush(t)
      PROVE  HInv'
  BY <1>7, ReleaseMoveHolder, DiscardLockHolder, FlushHolder, Zenon
<1> QED
  BY <1>1, <1>2, <1>3, <1>4, <1>5, <1>6, <1>7, Zenon DEF Next

-----------------------------------------------------------------------------
\* Both invariants hold throughout.
LEMMA HoldersInvariant ==
  ASSUME NoSharing
  PROVE  Spec => [](IInv /\ HInv)
<1>1. Init => IInv /\ HInv
  BY InitIInv, InitHInv, Zenon
<1>2. IInv /\ HInv /\ [Next]_vars => (IInv /\ HInv)'
  BY NextIInv, NextHInv, Zenon
<1> QED
  BY <1>1, <1>2, PTL DEF Spec

\* Blocks one thread uses at a time: between nvfuse_get_bh and the end of
\* nvfuse_release_bh a buffer has one user, which owns its bc_lock, and bc_ref
\* tells the replacement so, for any number of threads and buffers.
THEOREM HoldersExclusive ==
  ASSUME NoSharing
  PROVE  Spec => []HolderExclusive
<1>1. IInv /\ HInv => HolderExclusive
  BY DEF HInv
<1> QED
  BY <1>1, HoldersInvariant, PTL

\* Blocks one thread uses at a time: the assertions of nvfuse_inc_bc_ref,
\* nvfuse_dec_bc_ref and nvfuse_release_bc never fail.
THEOREM AssertsHold ==
  ASSUME NoSharing
  PROVE  Spec => []RefsHold
<1>1. IInv /\ HInv => RefsHold
  BY DEF HInv, RefsHold
<1> QED
  BY <1>1, HoldersInvariant, PTL

\* Blocks one thread uses at a time: a buffer the replacement may drop without
\* writing it has no unwritten data.
THEOREM CleanListsClean ==
  ASSUME NoSharing
  PROVE  Spec => []CleanListIsClean
<1>1. IInv /\ HInv => CleanListIsClean
  BY Zenon DEF HInv, NotDirty, CleanListIsClean, OnList
<1> QED
  BY <1>1, HoldersInvariant, PTL

\* Blocks one thread uses at a time: no step takes a buffer away from a thread
\* that has it, is about to lock it or is still releasing it.
THEOREM HeldKeys ==
  ASSUME NoSharing
  PROVE  Spec => HeldKeepsKey
<1> DEFINE Kept == \A t \in Threads, b \in Bcs :
                     UsedBy(t, b) => bc'[b].bno = bc[b].bno
<1>1. IInv /\ HInv /\ [Next]_vars => [Kept]_vars
  BY KeyChange, VictimUnused, Zenon
<1> QED
  BY <1>1, HoldersInvariant, PTL DEF Spec, HeldKeepsKey

=============================================================================
