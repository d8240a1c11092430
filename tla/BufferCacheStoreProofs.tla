----------------------- MODULE BufferCacheStoreProofs -----------------------
(***************************************************************************)
(* What the cache does with the data, for any number of buffers, keys and  *)
(* values and any depth of the I/O queue.  The flushes of any number of    *)
(* threads strand no dirty buffer, whatever runs meanwhile; and for one    *)
(* thread, the sequential use the cache is written for, a get returns what *)
(* was last stored and the cache implements the block store BlockStore.    *)
(***************************************************************************)
EXTENDS BufferCacheProofs, FiniteSetTheorems

PcFlush == PcPass \cup {"fl_check", "fl_lock", "fl_end"}

\* A buffer on the ref list has a user: no end of a call leaves it there.
RefUsed == \A b \in Bcs : bc[b].list = "ref" => \E t \in Threads : UsedBy(t, b)

\* The flushing list is shared by the passes of all threads: while something
\* is on it, some thread is in a pass.
PassEmpties ==
  OnList("flushing") # {} => \E u \in Threads : pc[u] \in PcPass

RInv == RefUsed /\ PassEmpties

-----------------------------------------------------------------------------
(* The sequential cache                                                    *)

OneThread == \A t, u \in Threads : t = u

\* Thread t has got b and the get is over, or it has just begun to release it.
Filled(t, b) ==
  \/ b \in held[t] /\ ~(pc[t] = "fill" /\ cur[t] = b)
  \/ pc[t] = "rel_unlock" /\ cur[t] = b

\* Thread t discards b, whose block it has given up.
Discarding(t, b) == pc[t] = "unused_wait" /\ cur[t] = b

\* The device has what was last stored in the block of b.
OnDisk(b) == disk[bc[b].bno] = contents[bc[b].bno]

\* A buffer of a block: the lists tell the truth about its flags; while the
\* block is allocated, its data is current if the flags say there is any, and
\* the device is current unless it is dirty; it is not dirty for a block that
\* was given up; and its data is read from the device only when it is clean.
Sound(b) ==
  LET k == bc[b].bno IN
  k # NoKey =>
    /\ bc[b].list \in {"dirty", "flushing"} => bc[b].dirty
    /\ bc[b].list = "flushing" => bc[b].flush
    /\ contents[k] # Freed =>
         /\ bc[b].load \/ bc[b].dirty => bc[b].buf = contents[k]
         /\ bc[b].dirty \/ OnDisk(b)
    /\ bc[b].dirty =>
         /\ contents[k] # Freed \/ \E t \in Threads : Discarding(t, b)
         /\ bc[b].load \/ \E t \in Threads : Filled(t, b)
    /\ \A t \in Threads : Filled(t, b)
         => (bc[b].load \/ bc[b].dirty) /\ contents[k] # Freed

\* A block without a buffer is on the device.
Uncached ==
  \A k \in Keys :
    contents[k] # Freed /\ (\A b \in Bcs : bc[b].bno # k)
      => disk[k] = contents[k]

\* A read is of an allocated block, a discard of one that is given up, and what
\* is about to go to the dirty list is dirty.
CallSound(t) ==
  LET b == cur[t] IN
  /\ pc[t] \in {"find_wait", "fill"} /\ arg[t] => contents[bc[b].bno] # Freed
  /\ pc[t] = "unused_wait" => contents[bc[b].bno] = Freed
  /\ pc[t] = "rel_dirty" => bc[b].dirty

\* The jobs for the buffers of the flushing list.
FlushJobs == {JobOf(b) : b \in OnList("flushing")}

\* The pass of the flush: its count, its jobs and the flushing list agree, it
\* has something to write, and what it has no job for any more is written.
Pass(t) ==
  /\ pc[t] \notin PcPass => num_blocks[t] = 0
  /\ pc[t] \notin {"fill_jobs", "io"} => jobs[t] = {}
  /\ pc[t] = "fl_lock" => OnList("dirty") # {}
  /\ pc[t] = "collect" => OnList("dirty") # {} \/ num_blocks[t] > 0
  /\ pc[t] \in {"sync_lock", "fill_jobs"} => num_blocks[t] > 0
  /\ pc[t] \in {"collect", "sync_lock", "fill_jobs"} =>
       /\ IsFiniteSet(OnList("flushing"))
       /\ num_blocks[t] = Cardinality(OnList("flushing"))
  /\ jobs[t] \subseteq FlushJobs
  /\ pc[t] = "io" =>
       \A b \in OnList("flushing") : JobOf(b) \in jobs[t] \/ OnDisk(b)
  /\ pc[t] \in {"clean_lock", "clean"} =>
       num_blocks[t] = 0 /\ \A b \in OnList("flushing") : OnDisk(b)

\* While the thread does not flush, the flushing list is empty.
PassEmpty ==
  \A t \in Threads : pc[t] \notin PcPass => OnList("flushing") = {}

DInv ==
  /\ \A b \in Bcs : Sound(b)
  /\ \A t \in Threads : CallSound(t)
  /\ Uncached
  /\ FlushAssert
  /\ PassEmpty
  /\ \A t \in Threads : Pass(t)

-----------------------------------------------------------------------------
(* What each action on a buffer leaves of it                               *)

\* Only buffer b changes, and its key stays.
OnlyAt(b) == \A x \in Bcs : x # b => bc'[x] = bc[x]
KeepsKey(b) == bc'[b].bno = bc[b].bno

\* The new list, flags and data of b.
Becomes(b, list, dirty, load, flush, buf) ==
  /\ bc'[b].list = list
  /\ bc'[b].dirty = dirty
  /\ bc'[b].load = load
  /\ bc'[b].flush = flush
  /\ bc'[b].buf = buf

\* The get hits buffer b, or takes over buffer b on a miss, or is stuck.
LEMMA FindEffect ==
  ASSUME IInv, HInv, NoSharing, NEW t \in Threads, NEW k \in Keys,
         NEW read \in BOOLEAN, Find(t, k, read)
  PROVE  \/ /\ \E p \in {"sleep", "self_lock", "assert_replace"} : Goto(t, p)
            /\ UNCHANGED <<bc, cur>>
         \/ \E b \in Bcs :
              /\ \A u \in Threads : ~UsedBy(u, b)
              /\ Goto(t, "find_wait")
              /\ cur' = [cur EXCEPT ![t] = b]
              /\ OnlyAt(b)
              /\ bc'[b].bno = k
              /\ \/ bc' = bc
                 \/ /\ bc[b].list \in {"unused", "clean"}
                    /\ bc'[b].list = "ref"
                    /\ ~bc'[b].dirty /\ ~bc'[b].load
                    /\ HashLookup(k) = {}
<1>1. CASE FindHit(t, k)
  BY <1>1, HitUnused, Zenon DEF Find, FindHit, HashLookup, OnlyAt
<1>2. CASE FindMiss(t, k)
  <2>1. CASE \E b \in Victims(ReplaceList) :
               /\ ReplaceList # "dirty"
               /\ bc' = InitBc(b, k)
               /\ cur' = [cur EXCEPT ![t] = b]
               /\ Goto(t, "find_wait")
    <3>1. PICK b \in Victims(ReplaceList) :
            /\ ReplaceList # "dirty"
            /\ bc' = InitBc(b, k)
            /\ cur' = [cur EXCEPT ![t] = b]
            /\ Goto(t, "find_wait")
      BY <2>1, Zenon
    <3>2. b \in Bcs /\ bc[b].list \in {"unused", "clean"}
      BY <3>1, Zenon DEF Victims, OnList, ReplaceList
    <3>3. \A u \in Threads : ~UsedBy(u, b)
      BY <3>2, VictimUnused, Zenon DEF Find
    <3>4. bc \in [Bcs -> BcType] /\ bc[b] \in BcType
      BY <3>2, Zenon DEF IInv, TypeOK
    <3>5. /\ OnlyAt(b)
          /\ bc'[b] = [bc[b] EXCEPT !.list = "ref", !.bno = k, !.dirty = FALSE,
                                    !.load = FALSE, !.ref = 0, !.lock = Nobody,
                                    !.buf = Zero]
      BY <3>1, <3>2, <3>4, Zenon DEF InitBc, OnlyAt
    <3>6. /\ bc'[b].bno = k /\ bc'[b].list = "ref"
          /\ ~bc'[b].dirty /\ ~bc'[b].load
      BY <3>4, <3>5, Zenon DEF BcType
    <3>7. HashLookup(k) = {}
      BY <1>2, Zenon DEF FindMiss
    <3> QED
      BY <3>1, <3>2, <3>3, <3>5, <3>6, <3>7, Zenon
  <2>2. CASE /\ UNCHANGED <<bc, cur>>
             /\ \E p \in {"sleep", "self_lock", "assert_replace"} : Goto(t, p)
    BY <2>2, Zenon
  <2> QED
    BY <1>2, <2>1, <2>2, Zenon DEF FindMiss
<1> QED
  BY <1>1, <1>2, Zenon DEF Find

\* The get locks its buffer; the assertion on bc_ref holds.
LEMMA FindLockEffect ==
  ASSUME IInv, HInv, HInv', NEW t \in Threads, FindLock(t)
  PROVE  /\ cur[t] \in Bcs
         /\ cur[t] \notin held[t]
         /\ OnlyAt(cur[t])
         /\ KeepsKey(cur[t])
         /\ LET r == bc[cur[t]] IN
            Becomes(cur[t], "ref", r.dirty, r.load, r.flush, r.buf)
         /\ held' = [held EXCEPT ![t] = @ \cup {cur[t]}]
         /\ Goto(t, "fill")
<1> DEFINE c == cur[t]
<1>1. c \in Bcs /\ c \notin held[t]
  BY Zenon DEF FindLock, IInv, CurKeyed, PcCur, HInv, OneCall
<1>2. ~Goto(t, "assert_ref")
  BY Zenon DEF HInv, RefAssert, Goto, IInv, TypeOK
<1>3. bc[c].ref = 0
  BY <1>2, Zenon DEF FindLock
<1>4. bc \in [Bcs -> BcType] /\ bc[c] \in BcType
  BY <1>1, Zenon DEF IInv, TypeOK
<1> QED
  BY <1>1, <1>3, <1>4 DEF FindLock, OnlyAt, BcType, KeepsKey, Becomes

\* The end of a get reads the block into a buffer that has no data, or clears
\* the buffer of a new block.
LEMMA FillEffect ==
  ASSUME IInv, HInv, NEW t \in Threads, Fill(t)
  PROVE  /\ cur[t] \in held[t]
         /\ cur[t] \in Bcs
         /\ OnlyAt(cur[t])
         /\ KeepsKey(cur[t])
         /\ LET r == bc[cur[t]] IN
            \/ /\ arg[t] /\ r.load /\ bc' = bc
               /\ contents' = contents
            \/ /\ arg[t] /\ ~r.load
               /\ Becomes(cur[t], r.list, r.dirty, TRUE, r.flush, disk[r.bno])
               /\ contents' = contents
            \/ /\ ~arg[t]
               /\ Becomes(cur[t], r.list, TRUE, r.load, r.flush, Zero)
               /\ contents' = [contents EXCEPT ![r.bno] = Zero]
<1> DEFINE c == cur[t]
<1>1. c \in Bcs /\ c \in held[t]
  BY Zenon DEF Fill, IInv, CurKeyed, PcCur, HInv, OneCall
<1>2. bc \in [Bcs -> BcType] /\ bc[c] \in BcType
  BY <1>1, Zenon DEF IInv, TypeOK
<1>3. CASE arg[t] /\ bc[c].load
  BY <1>1, <1>3, Zenon DEF Fill, OnlyAt, KeepsKey
<1>4. CASE arg[t] /\ ~bc[c].load
  <2>1. bc' = [bc EXCEPT ![c].buf = disk[bc[c].bno], ![c].load = TRUE]
    BY <1>4, Zenon DEF Fill
  <2> QED
    BY <1>1, <1>2, <1>4, <2>1, Zenon
    DEF Fill, OnlyAt, BcType, KeepsKey, Becomes
<1>5. CASE ~arg[t]
  <2>1. bc' = [bc EXCEPT ![c].buf = Zero, ![c].dirty = TRUE]
    BY <1>5, Zenon DEF Fill
  <2> QED
    BY <1>1, <1>2, <1>5, <2>1, Zenon
    DEF Fill, OnlyAt, BcType, KeepsKey, Becomes
<1> QED
  BY <1>3, <1>4, <1>5, Zenon DEF IInv, TypeOK

\* A holder stores into its buffer.
LEMMA ModifyEffect ==
  ASSUME IInv, NEW t \in Threads, NEW b \in held[t], NEW v \in Vals,
         Modify(t, b, v)
  PROVE  /\ b \in Bcs
         /\ OnlyAt(b)
         /\ KeepsKey(b)
         /\ Becomes(b, bc[b].list, TRUE, bc[b].load, bc[b].flush, v)
<1>1. b \in Bcs
  BY Zenon DEF IInv, TypeOK
<1>2. bc \in [Bcs -> BcType] /\ bc[b] \in BcType
  BY <1>1, Zenon DEF IInv, TypeOK
<1> QED
  BY <1>1, <1>2, Zenon DEF Modify, OnlyAt, BcType, KeepsKey, Becomes

\* The release drops the reference; the assertion on bc_ref holds.
LEMMA ReleaseEffect ==
  ASSUME IInv, HInv, NEW t \in Threads, NEW b \in held[t],
         NEW dirty \in BOOLEAN, Release(t, b, dirty)
  PROVE  /\ b \in Bcs
         /\ OnlyAt(b)
         /\ KeepsKey(b)
         /\ Becomes(b, bc[b].list, bc[b].dirty, bc[b].load, bc[b].flush,
                    bc[b].buf)
         /\ Goto(t, "rel_unlock")
<1>1. b \in Bcs
  BY Zenon DEF IInv, TypeOK
<1>2. bc \in [Bcs -> BcType] /\ bc[b] \in BcType
  BY <1>1, Zenon DEF IInv, TypeOK
<1>3. bc[b].ref = 1
  BY <1>1, Zenon DEF HInv, HolderExclusive
<1>4. bc' = [bc EXCEPT ![b].ref = 0]
  BY <1>3 DEF Release
<1> QED
  BY <1>1, <1>2, <1>3, <1>4 DEF Release, OnlyAt, BcType, KeepsKey, Becomes

\* The release sets the flags and drops bc_lock.
LEMMA ReleaseUnlockEffect ==
  ASSUME IInv, NEW t \in Threads, ReleaseUnlock(t)
  PROVE  /\ cur[t] \in Bcs
         /\ OnlyAt(cur[t])
         /\ bc'[cur[t]].bno = bc[cur[t]].bno
         /\ bc'[cur[t]].list = bc[cur[t]].list
         /\ bc'[cur[t]].flush = bc[cur[t]].flush
         /\ bc'[cur[t]].buf = bc[cur[t]].buf
         /\ bc'[cur[t]].dirty <=> arg[t] \/ bc[cur[t]].dirty
         /\ bc'[cur[t]].load <=> bc[cur[t]].load \/ arg[t] \/ bc[cur[t]].dirty
         /\ \/ Goto(t, "rel_ref")
            \/ Goto(t, "rel_dirty") /\ bc'[cur[t]].dirty
<1> DEFINE c == cur[t]
           d == arg[t] \/ bc[c].dirty
           l == bc[c].load \/ d
<1>1. c \in Bcs
  BY Zenon DEF ReleaseUnlock, IInv, CurKeyed, PcCur, PcReleasing
<1>2. bc \in [Bcs -> BcType] /\ bc[c] \in BcType
  BY <1>1, Zenon DEF IInv, TypeOK
<1>3. d \in BOOLEAN /\ l \in BOOLEAN
  BY Zenon
<1>4. bc' = [bc EXCEPT ![c].lock = Nobody, ![c].dirty = d, ![c].load = l]
  BY Zenon DEF ReleaseUnlock
<1>5. Goto(t, IF d THEN "rel_dirty" ELSE "rel_ref")
  BY Zenon DEF ReleaseUnlock
<1>6. (d <=> arg[t] \/ bc[c].dirty)
      /\ (l <=> bc[c].load \/ arg[t] \/ bc[c].dirty)
  BY Zenon
<1> HIDE DEF d, l
<1>7. /\ bc'[c].bno = bc[c].bno /\ bc'[c].list = bc[c].list
      /\ bc'[c].flush = bc[c].flush /\ bc'[c].buf = bc[c].buf
      /\ bc'[c].dirty = d /\ bc'[c].load = l
      /\ OnlyAt(c)
  BY <1>1, <1>2, <1>3, <1>4, Zenon DEF BcType, OnlyAt
<1>8. \/ Goto(t, "rel_ref")
      \/ Goto(t, "rel_dirty") /\ d
  BY <1>3, <1>5, Zenon
<1> QED
  BY <1>1, <1>3, <1>6, <1>7, <1>8, Zenon

\* The end of a release moves the buffer to its list.
LEMMA ReleaseMoveEffect ==
  ASSUME IInv, HInv, NEW t \in Threads, ReleaseMove(t)
  PROVE  /\ cur[t] \in Bcs
         /\ cur[t] \notin held[t]
         /\ OnlyAt(cur[t])
         /\ KeepsKey(cur[t])
         /\ LET r == bc[cur[t]] IN
            \/ /\ pc[t] = "rel_dirty"
               /\ Becomes(cur[t], "dirty", r.dirty, r.load, r.flush, r.buf)
            \/ Becomes(cur[t], "clean", r.dirty, r.load, r.flush, r.buf)
<1>1. cur[t] \in Bcs /\ cur[t] \notin held[t]
  BY Zenon DEF ReleaseMove, IInv, CurKeyed, PcCur, PcReleasing, HInv, OneCall
<1>2. bc \in [Bcs -> BcType] /\ bc[cur[t]] \in BcType
  BY <1>1, Zenon DEF IInv, TypeOK
<1> QED
  BY <1>1, <1>2, Zenon DEF ReleaseMove, OnlyAt, BcType, KeepsKey, Becomes

\* The end of a discard drops the data.
LEMMA DiscardLockEffect ==
  ASSUME IInv, HInv, NEW t \in Threads, DiscardLock(t)
  PROVE  /\ cur[t] \in Bcs
         /\ cur[t] \notin held[t]
         /\ OnlyAt(cur[t])
         /\ KeepsKey(cur[t])
         /\ Becomes(cur[t], "unused", FALSE, FALSE, bc[cur[t]].flush,
                    bc[cur[t]].buf)
<1>1. cur[t] \in Bcs /\ cur[t] \notin held[t]
  BY Zenon DEF DiscardLock, IInv, CurKeyed, PcCur, HInv, OneCall
<1>2. bc \in [Bcs -> BcType] /\ bc[cur[t]] \in BcType
  BY <1>1, Zenon DEF IInv, TypeOK
<1> QED
  BY <1>1, <1>2, Zenon DEF DiscardLock, OnlyAt, BcType, KeepsKey, Becomes

\* The pass collects a dirty buffer.
LEMMA CollectEffect ==
  ASSUME IInv, NEW t \in Threads, NEW b \in Bcs, FlushCollect(t, b)
  PROVE  /\ bc[b].list = "dirty"
         /\ \/ ~bc[b].dirty /\ Goto(t, "assert_flush") /\ bc' = bc
               /\ num_blocks' = num_blocks
            \/ /\ bc[b].dirty /\ pc' = pc
               /\ Becomes(b, "flushing", TRUE, bc[b].load, TRUE, bc[b].buf)
               /\ num_blocks' = [num_blocks EXCEPT ![t] = @ + 1]
         /\ OnlyAt(b)
         /\ KeepsKey(b)
<1>1. bc \in [Bcs -> BcType] /\ bc[b] \in BcType
  BY Zenon DEF IInv, TypeOK
<1>2. CASE bc[b].dirty
  <2>1. bc' = [bc EXCEPT ![b].flush = TRUE, ![b].list = "flushing"]
    BY <1>2, Zenon DEF FlushCollect
  <2> QED
    BY <1>1, <1>2, <2>1, Zenon
    DEF FlushCollect, OnlyAt, OnList, BcType, KeepsKey, Becomes
<1>3. CASE ~bc[b].dirty
  BY <1>1, <1>3, Zenon DEF FlushCollect, OnlyAt, OnList, KeepsKey
<1> QED
  BY <1>2, <1>3, Zenon

\* The pass moves a written buffer to the clean list.
LEMMA CleanEffect ==
  ASSUME IInv, NEW t \in Threads, NEW b \in Bcs, Clean(t, b)
  PROVE  /\ bc[b].list = "flushing"
         /\ \/ ~bc[b].dirty /\ Goto(t, "assert_flush") /\ bc' = bc
            \/ /\ bc[b].dirty /\ pc' = pc
               /\ Becomes(b, "clean", FALSE, bc[b].load, FALSE, bc[b].buf)
         /\ OnlyAt(b)
         /\ KeepsKey(b)
<1>1. bc \in [Bcs -> BcType] /\ bc[b] \in BcType
  BY Zenon DEF IInv, TypeOK
<1>2. CASE bc[b].dirty
  <2>1. bc' = [bc EXCEPT ![b].dirty = FALSE, ![b].flush = FALSE,
                         ![b].list = "clean"]
    BY <1>2, Zenon DEF Clean
  <2> QED
    BY <1>1, <1>2, <2>1, Zenon
    DEF Clean, OnlyAt, OnList, BcType, KeepsKey, Becomes
<1>3. CASE ~bc[b].dirty
  BY <1>1, <1>3, Zenon DEF Clean, OnlyAt, OnList, KeepsKey
<1> QED
  BY <1>2, <1>3, Zenon

-----------------------------------------------------------------------------
(* The flush strands no dirty buffer                                       *)

\* The initial state satisfies the invariant.
LEMMA InitRInv == Init => RInv
  BY DEF Init, RInv, RefUsed, PassEmpties, OnList

\* A step of the cache that is not a flush: the lists it may put a buffer on.
LEMMA CacheLists ==
  ASSUME IInv, RInv, NEW t \in Threads, NEW p, Goto(t, p),
         pc[t] \notin PcFlush, p \notin PcFlush,
         \A x \in Bcs :
           /\ bc'[x].list = "flushing" => bc[x].list = "flushing"
           /\ bc'[x].list = "ref" =>
                \/ UsedBy(t, x)'
                \/ /\ bc[x].list = "ref"
                   /\ \A u \in Threads : UsedBy(u, x) => UsedBy(u, x)'
  PROVE  RInv'
<1>1. pc'[t] \notin PcFlush /\ \A u \in Threads : u # t => pc'[u] = pc[u]
  BY Zenon DEF Goto, IInv, TypeOK
<1>2. RefUsed'
  BY Zenon DEF RInv, RefUsed
<1>3. \A u \in Threads : pc[u] \in PcPass => pc'[u] \in PcPass
  BY <1>1, Zenon DEF PcFlush
<1>4. PassEmpties'
  BY <1>3, Zenon DEF RInv, PassEmpties, OnList
<1> QED
  BY <1>2, <1>4, Zenon DEF RInv

\* The steps of the calls on a buffer.
LEMMA CallRInv ==
  ASSUME IInv, HInv, HInv', RInv, NoSharing, NEW t \in Threads,
         \/ \E k \in Keys, read \in BOOLEAN : Find(t, k, read)
         \/ FindLock(t) \/ Fill(t)
         \/ \E b \in held[t], v \in Vals : Modify(t, b, v)
         \/ \E b \in held[t], dirty \in BOOLEAN : Release(t, b, dirty)
         \/ ReleaseUnlock(t) \/ ReleaseCheckRef(t) \/ ReleaseMove(t)
         \/ \E k \in Keys : Discard(t, k)
         \/ DiscardLock(t)
  PROVE  RInv'
<1>0. /\ bc \in [Bcs -> BcType] /\ pc \in [Threads -> Pcs]
      /\ cur \in [Threads -> Bcs \cup {NoBc}]
      /\ held \in [Threads -> SUBSET Bcs]
  BY Zenon DEF IInv, TypeOK
<1>1. ASSUME NEW k \in Keys, NEW read \in BOOLEAN, Find(t, k, read)
      PROVE  RInv'
  <2>1. pc[t] = "idle" /\ held' = held
    BY <1>1, Zenon DEF Find
  <2>2. CASE /\ \E p \in {"sleep", "self_lock", "assert_replace"} : Goto(t, p)
             /\ UNCHANGED <<bc, cur>>
    BY <1>0, <2>1, <2>2, CacheLists, Zenon
    DEF UsedBy, InCall, PcReleasing, PcFlush, PcPass, Goto
  <2>3. ASSUME NEW b \in Bcs, Goto(t, "find_wait"),
               cur' = [cur EXCEPT ![t] = b], OnlyAt(b),
               bc' = bc \/ bc'[b].list = "ref"
        PROVE  RInv'
    <3>1. "idle" \notin PcFlush /\ "find_wait" \notin PcFlush
      BY Zenon DEF PcFlush, PcPass
    <3>2. UsedBy(t, b)'
      BY <1>0, <2>3, Zenon DEF UsedBy, InCall, Goto
    <3>3. \A u \in Threads, x \in Bcs : UsedBy(u, x) => UsedBy(u, x)'
      BY <1>0, <2>1, <2>3, Zenon DEF UsedBy, InCall, PcReleasing, Goto
    <3>4. \A x \in Bcs : x = b \/ bc'[x] = bc[x]
      BY <2>3, Zenon DEF OnlyAt
    <3> QED
      BY <2>1, <2>3, <3>1, <3>2, <3>3, <3>4, CacheLists
  <2> QED
    BY <1>1, <2>2, <2>3, FindEffect
<1>2. ASSUME FindLock(t)
      PROVE  RInv'
  <2>1. /\ pc[t] = "find_wait" /\ cur[t] \in Bcs /\ OnlyAt(cur[t])
        /\ held' = [held EXCEPT ![t] = @ \cup {cur[t]}] /\ cur' = cur
        /\ Goto(t, "fill")
    BY <1>2, FindLockEffect, Zenon DEF FindLock
  <2>2. bc'[cur[t]].list = "ref"
    BY <1>2, FindLockEffect, Zenon DEF Becomes
  <2>3. UsedBy(t, cur[t])' /\ pc[t] \notin PcFlush /\ "fill" \notin PcFlush
    BY <1>0, <2>1, Zenon DEF UsedBy, PcFlush, PcPass
  <2>4. \A u \in Threads, x \in Bcs :
          x # cur[t] /\ UsedBy(u, x) => UsedBy(u, x)'
    BY <1>0, <2>1, Zenon DEF UsedBy, InCall, PcReleasing, Goto
  <2> QED
    BY <2>1, <2>2, <2>3, <2>4, CacheLists DEF OnlyAt
<1>3. ASSUME Fill(t)
      PROVE  RInv'
  <2>1. /\ pc[t] = "fill" /\ cur[t] \in Bcs /\ OnlyAt(cur[t]) /\ held' = held
        /\ cur[t] \in held[t] /\ Goto(t, "idle")
        /\ cur' = [cur EXCEPT ![t] = NoBc]
    BY <1>3, FillEffect, Zenon DEF Fill, Return
  <2>2. bc'[cur[t]].list = bc[cur[t]].list
    BY <1>3, FillEffect, Zenon DEF Becomes
  <2>3. pc[t] \notin PcFlush /\ "idle" \notin PcFlush
    BY <2>1, Zenon DEF PcFlush, PcPass
  <2>4. \A u \in Threads, x \in Bcs : UsedBy(u, x) => UsedBy(u, x)'
    BY <1>0, <2>1, Zenon DEF UsedBy, InCall, PcReleasing, Goto
  <2> QED
    BY <2>1, <2>2, <2>3, <2>4, CacheLists, Zenon DEF OnlyAt
<1>4. ASSUME NEW b \in held[t], NEW v \in Vals, Modify(t, b, v)
      PROVE  RInv'
  <2>1. pc[t] = "idle" /\ pc' = pc /\ cur' = cur /\ held' = held
    BY <1>4, Zenon DEF Modify
  <2>2. \A x \in Bcs : bc'[x].list = bc[x].list
    BY <1>4, ModifyEffect, Zenon DEF OnlyAt, Becomes
  <2>3. Goto(t, "idle")
    BY <1>0, <2>1, Zenon DEF Goto
  <2> QED
    BY <1>0, <2>1, <2>2, <2>3, CacheLists, Zenon
    DEF UsedBy, InCall, PcFlush, PcPass
<1>5. ASSUME NEW b \in held[t], NEW dirty \in BOOLEAN, Release(t, b, dirty)
      PROVE  RInv'
  <2>1. /\ pc[t] = "idle" /\ Goto(t, "rel_unlock") /\ b \in Bcs /\ OnlyAt(b)
        /\ cur' = [cur EXCEPT ![t] = b] /\ held' = [held EXCEPT ![t] = @ \ {b}]
    BY <1>5, ReleaseEffect, Zenon DEF Release
  <2>2. \A x \in Bcs : bc'[x].list = bc[x].list
    BY <1>5, ReleaseEffect, Zenon DEF OnlyAt, Becomes
  <2> QED
    BY <1>0, <2>1, <2>2, CacheLists, Zenon
    DEF UsedBy, InCall, PcReleasing, PcFlush, PcPass, Goto
<1>6. ASSUME ReleaseUnlock(t)
      PROVE  RInv'
  <2>1. /\ pc[t] = "rel_unlock" /\ cur' = cur /\ held' = held
        /\ Goto(t, "rel_ref") \/ Goto(t, "rel_dirty")
    BY <1>6, ReleaseUnlockEffect, Zenon DEF ReleaseUnlock
  <2>2. \A x \in Bcs : bc'[x].list = bc[x].list
    BY <1>6, ReleaseUnlockEffect, Zenon DEF OnlyAt
  <2> QED
    BY <1>0, <2>1, <2>2, CacheLists, Zenon
    DEF UsedBy, InCall, PcReleasing, PcFlush, PcPass, Goto
<1>7. ASSUME ReleaseCheckRef(t)
      PROVE  RInv'
  <2>1. /\ pc[t] = "rel_ref" /\ cur' = cur /\ held' = held /\ bc' = bc
        /\ Goto(t, "rel_clean") \/ Goto(t, "assert_release")
    BY <1>7, Zenon DEF ReleaseCheckRef
  <2>2. Goto(t, "rel_clean")
    BY <1>0, <2>1, Zenon DEF HInv, ReleaseAssert, Goto
  <2> QED
    BY <1>0, <2>1, <2>2, CacheLists, Zenon
    DEF UsedBy, InCall, PcReleasing, PcFlush, PcPass, Goto
<1>8. ASSUME ReleaseMove(t) \/ DiscardLock(t)
      PROVE  RInv'
  <2>1. /\ pc[t] \in {"rel_dirty", "rel_clean", "unused_wait"}
        /\ cur[t] \in Bcs /\ OnlyAt(cur[t]) /\ held' = held /\ Goto(t, "idle")
        /\ cur' = [cur EXCEPT ![t] = NoBc]
    BY <1>8, ReleaseMoveEffect, DiscardLockEffect, Zenon
    DEF ReleaseMove, DiscardLock, Return
  <2>2. bc'[cur[t]].list \in {"dirty", "clean", "unused"}
    BY <1>8, ReleaseMoveEffect, DiscardLockEffect, Zenon DEF Becomes
  <2>3. pc[t] \notin PcFlush /\ "idle" \notin PcFlush
    BY <2>1, Zenon DEF PcFlush, PcPass
  <2>4. \A u \in Threads, x \in Bcs :
          x # cur[t] /\ UsedBy(u, x) => UsedBy(u, x)'
    BY <1>0, <2>1, Zenon DEF UsedBy, InCall, PcReleasing, Goto
  <2> QED
    BY <2>1, <2>2, <2>3, <2>4, CacheLists, Zenon DEF OnlyAt
<1>9. ASSUME NEW k \in Keys, Discard(t, k)
      PROVE  RInv'
  <2>1. /\ pc[t] = "idle" /\ bc' = bc /\ held' = held
        /\ \/ pc' = pc /\ cur' = cur
           \/ /\ Goto(t, "unused_wait")
              /\ \E b \in Bcs : cur' = [cur EXCEPT ![t] = b]
    BY <1>9, Zenon DEF Discard, HashLookup
  <2>2. PICK p \in {"idle", "unused_wait"} : Goto(t, p)
    BY <1>0, <2>1, Zenon DEF Goto
  <2>3. pc[t] \notin PcFlush /\ p \notin PcFlush
    BY <2>1, Zenon DEF PcFlush, PcPass
  <2>4. \A u \in Threads, x \in Bcs : UsedBy(u, x) => UsedBy(u, x)'
    BY <1>0, <2>1, Zenon DEF UsedBy, InCall, PcReleasing, Goto
  <2> QED
    BY <2>1, <2>2, <2>3, <2>4, CacheLists, Zenon
<1> QED
  BY <1>1, <1>2, <1>3, <1>4, <1>5, <1>6, <1>7, <1>8, <1>9, Zenon

\* A step of the flush works on no buffer that is in use; it puts buffers on
\* the flushing list inside a pass only, and leaves the pass when nothing is
\* on it.
LEMMA FlushLists ==
  ASSUME IInv, HInv, RInv, NEW t \in Threads, NEW p, Goto(t, p),
         pc[t] \notin PcCur, p \notin PcCur,
         \/ p \in PcPass
         \/ \A x \in Bcs : bc'[x].list # "flushing"
         \/ pc[t] \notin PcPass /\ bc' = bc,
         UNCHANGED <<cur, held>>,
         \A x \in Bcs : bc'[x].list = "ref" => bc[x].list = "ref"
  PROVE  RInv'
<1>1. pc'[t] = p /\ \A u \in Threads : u # t => pc'[u] = pc[u]
  BY Zenon DEF Goto, IInv, TypeOK
<1>2. \A u \in Threads, x \in Bcs : UsedBy(u, x)' <=> UsedBy(u, x)
  BY <1>1, Zenon DEF UsedBy, InCall, PcCur
<1>3. RefUsed'
  BY <1>2, Zenon DEF RInv, RefUsed
<1>4. CASE p \in PcPass
  BY <1>1, <1>3, <1>4, Zenon DEF RInv, PassEmpties
<1>5. CASE \A x \in Bcs : bc'[x].list # "flushing"
  BY <1>3, <1>5, Zenon DEF RInv, PassEmpties, OnList
<1>6. CASE pc[t] \notin PcPass /\ bc' = bc
  <2>1. \A u \in Threads : pc[u] \in PcPass => pc'[u] \in PcPass
    BY <1>1, <1>6, Zenon
  <2> QED
    BY <1>3, <1>6, <2>1, Zenon DEF RInv, PassEmpties, OnList
<1> QED
  BY <1>4, <1>5, <1>6, Zenon

\* The steps of the flush.
LEMMA FlushRInv ==
  ASSUME IInv, HInv, RInv, NEW t \in Threads, Flush(t)
  PROVE  RInv'
<1>0. bc \in [Bcs -> BcType] /\ pc \in [Threads -> Pcs]
  BY Zenon DEF IInv, TypeOK
<1>1. ASSUME NEW p \in PcFlush \cup {"idle"}, Goto(t, p),
             pc[t] \in PcFlush \cup {"idle"},
             p \in PcPass \/ pc[t] \notin PcPass \/ OnList("flushing") = {},
             UNCHANGED <<bc, cur, held>>
      PROVE  RInv'
  BY <1>1, FlushLists, Zenon DEF OnList, PcFlush, PcPass, PcCur, PcReleasing
<1>4. ASSUME FlushStart(t) \/ FlushCheck(t) \/ FlushLock(t) \/ FlushEnd(t)
      PROVE  RInv'
  BY <1>1, <1>4, Zenon
  DEF FlushStart, FlushCheck, FlushLock, FlushEnd, PcFlush, PcPass, keepCache
<1>5. ASSUME FlushCollected(t) \/ SyncLock(t) \/ SyncSubmit(t) \/ FlushIoDone(t)
      PROVE  RInv'
  BY <1>1, <1>5, Zenon
  DEF FlushCollected, SyncLock, SyncSubmit, FlushIoDone, PcFlush, PcPass,
      keepCache
<1>6. ASSUME CleanLock(t) \/ Cleaned(t)
      PROVE  RInv'
  BY <1>1, <1>6, Zenon DEF CleanLock, Cleaned, PcFlush, PcPass, keepCache
<1>8. ASSUME NEW p \in PcPass, Goto(t, p), pc[t] \in PcPass,
             UNCHANGED <<cur, held>>,
             \A x \in Bcs : bc'[x].list = "ref" => bc[x].list = "ref"
      PROVE  RInv'
  BY <1>8, FlushLists, Zenon DEF PcPass, PcCur, PcReleasing
<1>9. ASSUME NEW b \in Bcs, FlushCollect(t, b)
      PROVE  RInv'
  <2>1. Goto(t, "collect") \/ Goto(t, "assert_flush")
    BY <1>0, <1>9, Zenon DEF FlushCollect, Goto
  <2>2. \A x \in Bcs : bc'[x].list = "ref" => bc[x].list = "ref"
    BY <1>9, CollectEffect, Zenon DEF OnlyAt, Becomes
  <2> QED
    BY <1>8, <1>9, <2>1, <2>2, Zenon DEF FlushCollect, keepCache, PcPass
<1>10. ASSUME NEW b \in Bcs, Clean(t, b)
       PROVE  RInv'
  <2>1. Goto(t, "clean") \/ Goto(t, "assert_flush")
    BY <1>0, <1>10, Zenon DEF Clean, Goto
  <2>2. \A x \in Bcs : bc'[x].list = "ref" => bc[x].list = "ref"
    BY <1>10, CleanEffect, Zenon DEF OnlyAt, Becomes
  <2> QED
    BY <1>8, <1>10, <2>1, <2>2, Zenon DEF Clean, keepCache, PcPass
<1>11. ASSUME NEW b \in Bcs, SyncFill(t, b)
       PROVE  RInv'
  <2>1. Goto(t, "fill_jobs") \/ Goto(t, "assert_flush")
    BY <1>0, <1>11, Zenon DEF SyncFill, Goto
  <2> QED
    BY <1>8, <1>11, <2>1, Zenon DEF SyncFill, keepCache, PcPass
<1>12. ASSUME NEW j \in jobs[t], FlushIo(t, j)
       PROVE  RInv'
  <2>1. Goto(t, "io")
    BY <1>0, <1>12, Zenon DEF FlushIo, Goto
  <2> QED
    BY <1>8, <1>12, <2>1, Zenon DEF FlushIo, keepCache, PcPass
<1> QED
  BY <1>4, <1>5, <1>6, <1>9, <1>10, <1>11, <1>12, Zenon DEF Flush

\* Every step preserves the invariant.
LEMMA NextRInv ==
  ASSUME NoSharing
  PROVE  IInv /\ HInv /\ RInv /\ [Next]_vars => RInv'
<1> SUFFICES ASSUME IInv, HInv, RInv, [Next]_vars
             PROVE  RInv'
  BY Zenon
<1>1. HInv'
  BY NextHInv, Zenon
<1>2. CASE UNCHANGED vars
  BY <1>2, Zenon
  DEF vars, RInv, RefUsed, UsedBy, InCall, PassEmpties, OnList
<1>3. CASE Next
  BY <1>1, <1>3, CallRInv, FlushRInv, Zenon DEF Next
<1> QED
  BY <1>2, <1>3, Zenon

\* The three invariants hold throughout.
LEMMA RefUsedInvariant ==
  ASSUME NoSharing
  PROVE  Spec => [](IInv /\ HInv /\ RInv)
<1>1. Init => IInv /\ HInv /\ RInv
  BY InitIInv, InitHInv, InitRInv, Zenon
<1>2. IInv /\ HInv /\ RInv /\ [Next]_vars => (IInv /\ HInv /\ RInv)'
  BY NextIInv, NextHInv, NextRInv, Zenon
<1> QED
  BY <1>1, <1>2, PTL DEF Spec

\* Only the loop condition of the flush leads from the check to the end.
LEMMA LeavesLoop ==
  ASSUME IInv, Next, NEW t \in Threads,
         pc[t] = "fl_check", pc'[t] = "fl_end"
  PROVE  OnList("dirty") = {}
<1>0. pc \in [Threads -> Pcs]
  BY Zenon DEF IInv, TypeOK
<1>1. ASSUME NEW u \in Threads, NEW p, Goto(u, p), pc[u] # "fl_check"
      PROVE  FALSE
  BY <1>0, <1>1, Zenon DEF Goto
<1>2. pc' # pc
  BY Zenon
<1>3. ASSUME NEW u \in Threads, NEW k \in Keys, NEW read \in BOOLEAN,
             Find(u, k, read)
      PROVE  FALSE
  BY <1>1, <1>3, Zenon DEF Find, FindHit, FindMiss
<1>4. ASSUME NEW u \in Threads,
             FindLock(u) \/ Fill(u) \/ ReleaseUnlock(u) \/ ReleaseCheckRef(u)
      PROVE  FALSE
  BY <1>1, <1>4, Zenon
  DEF FindLock, Fill, ReleaseUnlock, ReleaseCheckRef, Return
<1>5. ASSUME NEW u \in Threads, ReleaseMove(u) \/ DiscardLock(u)
      PROVE  FALSE
  BY <1>1, <1>5, Zenon DEF ReleaseMove, DiscardLock, Return
<1>6. ASSUME NEW u \in Threads, NEW b \in held[u], NEW dirty \in BOOLEAN,
             Release(u, b, dirty)
      PROVE  FALSE
  BY <1>1, <1>6, Zenon DEF Release
<1>7. ASSUME NEW u \in Threads, NEW k \in Keys, Discard(u, k)
      PROVE  FALSE
  BY <1>1, <1>2, <1>7, Zenon DEF Discard
<1>8. ASSUME NEW u \in Threads,
             FlushStart(u) \/ FlushLock(u) \/ FlushCollected(u)
             \/ SyncLock(u) \/ SyncSubmit(u) \/ FlushIoDone(u)
      PROVE  FALSE
  BY <1>1, <1>8, Zenon
  DEF FlushStart, FlushLock, FlushCollected, SyncLock, SyncSubmit, FlushIoDone
<1>9. ASSUME NEW u \in Threads, CleanLock(u) \/ Cleaned(u) \/ FlushEnd(u)
      PROVE  FALSE
  BY <1>1, <1>9, Zenon DEF CleanLock, Cleaned, FlushEnd
<1>10. ASSUME NEW u \in Threads, NEW b \in Bcs,
              FlushCollect(u, b) \/ SyncFill(u, b) \/ Clean(u, b)
       PROVE  FALSE
  BY <1>1, <1>2, <1>10, Zenon DEF FlushCollect, SyncFill, Clean
<1>11. ASSUME NEW u \in Threads, FlushCheck(u)
       PROVE  OnList("dirty") = {}
  BY <1>0, <1>11, Zenon DEF FlushCheck, Goto
<1> QED
  BY <1>2, <1>3, <1>4, <1>5, <1>6, <1>7, <1>8, <1>9, <1>10, <1>11, Zenon
  DEF Next, Flush, Modify, FlushIo

\* Blocks one thread uses at a time, and any number of threads that flush: when
\* nvfuse_check_flush_dirty leaves its loop, every buffer that is still dirty
\* is in use or on the list that the pass of another thread writes, whatever
\* gets, releases, discards and flushes ran between its passes.
THEOREM FlushComplete ==
  ASSUME NoSharing
  PROVE  Spec => FlushLeavesNoDirty
<1> DEFINE Left == \A t \in Threads :
             pc[t] = "fl_check" /\ pc'[t] = "fl_end"
               => \A b \in Bcs : bc[b].dirty =>
                    \/ \E u \in Threads : UsedBy(u, b)
                    \/ /\ b \in OnList("flushing")
                       /\ \E u \in Threads : pc[u] \in PcPass
<1>1. IInv /\ HInv /\ RInv /\ [Next]_vars => [Left]_vars
  <2> SUFFICES ASSUME IInv, HInv, RInv, Next, NEW t \in Threads,
                      pc[t] = "fl_check", pc'[t] = "fl_end",
                      NEW b \in Bcs, bc[b].dirty
               PROVE  \/ \E u \in Threads : UsedBy(u, b)
                      \/ /\ b \in OnList("flushing")
                         /\ \E u \in Threads : pc[u] \in PcPass
    BY Zenon DEF vars
  <2>1. OnList("dirty") = {}
    BY LeavesLoop, Zenon
  <2>2. bc[b].list = "ref" \/ b \in OnList("flushing") \/ \E u \in Threads : UsedBy(u, b)
    BY <2>1, Zenon
    DEF OnList, HInv, NotDirty, IInv, TypeOK, BcType, ListTypes
  <2>3. bc[b].list = "ref" => \E u \in Threads : UsedBy(u, b)
    BY Zenon DEF RInv, RefUsed
  <2>4. b \in OnList("flushing") => \E u \in Threads : pc[u] \in PcPass
    BY Zenon DEF RInv, PassEmpties
  <2> QED
    BY <2>2, <2>3, <2>4, Zenon
<1> QED
  BY <1>1, RefUsedInvariant, PTL DEF Spec, FlushLeavesNoDirty

-----------------------------------------------------------------------------
(* One thread: the data                                                    *)

\* The initial state satisfies the invariant.
LEMMA InitDInv == Init => DInv
<1> SUFFICES ASSUME Init
             PROVE  DInv
  BY Zenon
<1>1. \A b \in Bcs : bc[b].list = "unused" /\ bc[b].bno = NoKey
  BY Zenon DEF Init
<1>2. \A b \in Bcs : Sound(b)
  BY <1>1, Zenon DEF Sound
<1>3. OnList("flushing") = {}
  BY <1>1, Zenon DEF OnList
<1>4. \A t \in Threads : CallSound(t) /\ Pass(t)
  BY <1>3, Zenon DEF Init, CallSound, Pass, PcPass
<1> QED
  BY <1>2, <1>3, <1>4, Zenon DEF DInv, Init, Uncached, FlushAssert, PassEmpty

\* Between the calls and the discards nothing else fills or discards b.
SameUse(t, b) ==
  /\ Filled(t, b)' <=> Filled(t, b)
  /\ Discarding(t, b)' <=> Discarding(t, b)

\* A buffer that a step leaves alone stays sound.
LEMMA SoundKept ==
  ASSUME IInv, NEW b \in Bcs, Sound(b), bc'[b] = bc[b],
         bc[b].bno # NoKey => /\ contents'[bc[b].bno] = contents[bc[b].bno]
                              /\ disk'[bc[b].bno] = disk[bc[b].bno],
         \A t \in Threads : SameUse(t, b)
  PROVE  Sound(b)'
<1>1. CASE bc[b].bno = NoKey
  BY <1>1, Zenon DEF Sound
<1>2. CASE bc[b].bno # NoKey
  BY <1>2, Zenon DEF Sound, OnDisk, SameUse
<1> QED
  BY <1>1, <1>2, Zenon

\* A call that is not a flush leaves the flush as it is: not running.
LEMMA NoPass ==
  ASSUME IInv, DInv, OneThread, NEW t \in Threads, NEW p, Goto(t, p),
         pc[t] \notin PcFlush, p \notin PcFlush, UNCHANGED <<num_blocks, jobs>>,
         \A x \in Bcs : bc'[x].list = "flushing" => bc[x].list = "flushing"
  PROVE  FlushAssert' /\ PassEmpty' /\ \A u \in Threads : Pass(u)'
<1>1. pc'[t] = p /\ \A u \in Threads : u = t
  BY Zenon DEF Goto, IInv, TypeOK, OneThread
<1>2. OnList("flushing") = {} /\ OnList("flushing")' = {}
  BY Zenon DEF DInv, PassEmpty, OnList, PcFlush
<1>3. FlushAssert' /\ PassEmpty'
  BY <1>1, <1>2, Zenon DEF FlushAssert, PassEmpty, PcFlush, PcPass
<1>4. num_blocks[t] = 0 /\ jobs[t] = {}
  BY Zenon DEF DInv, Pass, PcFlush, PcPass
<1>5. Pass(t)'
  BY <1>1, <1>2, <1>4, Zenon DEF Pass, PcFlush, PcPass
<1> QED
  BY <1>1, <1>3, <1>5, Zenon

\* A step of a call on buffer b: what it owes is that b and the call are sound.
LEMMA CallStep ==
  ASSUME IInv, IInv', DInv, OneThread, NEW t \in Threads, NEW b \in Bcs,
         NEW p, Goto(t, p), pc[t] \notin PcFlush, p \notin PcFlush,
         UNCHANGED flushVars, OnlyAt(b), bc'[b].bno # NoKey,
         KeepsKey(b) \/ (bc[b].bno # NoKey => ~bc[b].dirty),
         bc'[b].list = "flushing" => bc[b].list = "flushing",
         \A k \in Keys : k # bc'[b].bno => contents'[k] = contents[k],
         \A x \in Bcs : x # b => SameUse(t, x),
         Sound(b)', CallSound(t)'
  PROVE  DInv'
<1>1. \A u \in Threads : u = t
  BY Zenon DEF OneThread
<1>2. UNCHANGED <<disk, num_blocks, jobs>>
  BY Zenon DEF flushVars
<1>3. ASSUME NEW x \in Bcs
      PROVE  Sound(x)'
  <2>1. CASE x = b
    BY <2>1, Zenon
  <2>2. CASE x # b
    <3>1. bc'[x] = bc[x]
      BY <2>2, Zenon DEF OnlyAt
    <3>2. bc[x].bno # NoKey => bc[x].bno \in Keys /\ bc[x].bno # bc'[b].bno
      BY <2>2, <3>1, Zenon DEF IInv, TypeOK, BcType, KeyUnique
    <3> QED
      BY <1>1, <1>2, <2>2, <3>1, <3>2, SoundKept, Zenon DEF DInv
  <2> QED
    BY <2>1, <2>2, Zenon
<1>4. Uncached'
  <2> SUFFICES ASSUME NEW k \in Keys, contents'[k] # Freed,
                      \A x \in Bcs : bc'[x].bno # k
               PROVE  disk'[k] = contents'[k]
    BY Zenon DEF Uncached
  <2>1. contents'[k] = contents[k] /\ disk'[k] = disk[k]
    BY <1>2, Zenon
  <2>2. CASE bc[b].bno = k
    <3>1. ~bc[b].dirty /\ k # NoKey
      BY <2>2, ConstantsAssumption, Zenon DEF KeepsKey
    <3> QED
      BY <2>1, <2>2, <3>1, Zenon DEF DInv, Sound, OnDisk
  <2>3. CASE bc[b].bno # k
    BY <2>1, <2>3, Zenon DEF DInv, Uncached, OnlyAt
  <2> QED
    BY <2>2, <2>3, Zenon
<1>5. FlushAssert' /\ PassEmpty' /\ \A u \in Threads : Pass(u)'
  BY <1>2, NoPass, Zenon DEF OnlyAt
<1> QED
  BY <1>1, <1>3, <1>4, <1>5, Zenon DEF DInv

\* The get: a hit finds a buffer nobody uses, and a miss takes over one that
\* has no unwritten data.
LEMMA FindDInv ==
  ASSUME IInv, IInv', HInv, DInv, OneThread, NEW t \in Threads, NEW k \in Keys,
         NEW read \in BOOLEAN, Find(t, k, read)
  PROVE  DInv'
<1>0. /\ bc \in [Bcs -> BcType] /\ pc \in [Threads -> Pcs]
      /\ cur \in [Threads -> Bcs \cup {NoBc}] /\ arg \in [Threads -> BOOLEAN]
      /\ held \in [Threads -> SUBSET Bcs]
  BY Zenon DEF IInv, TypeOK
<1>1. /\ pc[t] = "idle" /\ held' = held /\ contents' = contents
      /\ UNCHANGED flushVars /\ arg' = [arg EXCEPT ![t] = read]
      /\ read => contents[k] # Freed
  BY Zenon DEF Find
<1>2. \A u \in Threads : u = t
  BY Zenon DEF OneThread
<1>3. NoSharing
  BY <1>2, Zenon DEF NoSharing
<1>4. pc[t] \notin PcFlush
  BY <1>1, Zenon DEF PcFlush, PcPass
<1>5. ASSUME NEW p \in {"sleep", "self_lock", "assert_replace"}, Goto(t, p),
             UNCHANGED <<bc, cur>>
      PROVE  DInv'
  <2>1. pc'[t] = p /\ p \notin PcFlush
    BY <1>0, <1>5, Zenon DEF Goto, PcFlush, PcPass
  <2>2. \A x \in Bcs : Sound(x)'
    <3>1. \A x \in Bcs : SameUse(t, x)
      BY <1>1, <1>5, <2>1, Zenon DEF SameUse, Filled, Discarding
    <3> QED
      BY <1>1, <1>2, <1>5, <3>1, SoundKept, Zenon DEF DInv, flushVars
  <2>3. CallSound(t)'
    BY <2>1, Zenon DEF CallSound
  <2>4. Uncached'
    BY <1>1, <1>5, Zenon DEF DInv, Uncached, flushVars
  <2>5. FlushAssert' /\ PassEmpty' /\ \A u \in Threads : Pass(u)'
    BY <1>1, <1>4, <1>5, <2>1, NoPass, Zenon DEF flushVars
  <2> QED
    BY <1>2, <2>2, <2>3, <2>4, <2>5, Zenon DEF DInv
<1>6. ASSUME NEW b \in Bcs, \A u \in Threads : ~UsedBy(u, b),
             Goto(t, "find_wait"), cur' = [cur EXCEPT ![t] = b], OnlyAt(b),
             bc'[b].bno = k,
             \/ bc' = bc
             \/ /\ bc[b].list \in {"unused", "clean"}
                /\ bc'[b].list = "ref"
                /\ ~bc'[b].dirty /\ ~bc'[b].load
                /\ HashLookup(k) = {}
      PROVE  DInv'
  <2>1. pc'[t] = "find_wait" /\ cur'[t] = b /\ arg'[t] = read
    BY <1>0, <1>1, <1>6, Zenon DEF Goto
  <2>2. \A x \in Bcs : SameUse(t, x)
    BY <1>1, <2>1, Zenon DEF SameUse, Filled, Discarding
  <2>3. ~Filled(t, b)' /\ ~Filled(t, b)
    BY <1>1, <1>6, <2>1, Zenon DEF Filled, UsedBy
  <2>4. CallSound(t)'
    BY <1>1, <1>6, <2>1, Zenon DEF CallSound
  <2>5. k # NoKey
    BY ConstantsAssumption, Zenon
  <2>6. CASE bc' = bc
    <3>1. Sound(b)'
      BY <1>1, <1>2, <1>6, <2>2, <2>6, SoundKept, Zenon DEF DInv, flushVars
    <3> QED
      BY <1>1, <1>4, <1>6, <2>2, <2>4, <2>5, <2>6, <3>1, CallStep, Zenon
      DEF PcFlush, PcPass, KeepsKey
  <2>7. CASE /\ bc[b].list \in {"unused", "clean"}
             /\ bc'[b].list = "ref"
             /\ ~bc'[b].dirty /\ ~bc'[b].load
             /\ HashLookup(k) = {}
    <3>1. ~bc[b].dirty
      BY <2>7, Zenon DEF HInv, NotDirty
    <3>2. contents[k] # Freed => disk[k] = contents[k]
      BY <2>7, Zenon DEF HashLookup, DInv, Uncached
    <3>3. Sound(b)'
      BY <1>1, <1>2, <1>6, <2>3, <2>7, <3>2, Zenon DEF Sound, OnDisk, flushVars
    <3> QED
      BY <1>1, <1>4, <1>6, <2>2, <2>4, <2>5, <2>7, <3>1, <3>3, CallStep, Zenon
      DEF PcFlush, PcPass
  <2> QED
    BY <1>6, <2>6, <2>7, Zenon
<1> QED
  BY <1>3, <1>5, <1>6, FindEffect

\* The get locks the buffer and is yet to fill it.
LEMMA FindLockDInv ==
  ASSUME IInv, IInv', HInv, HInv', DInv, OneThread, NEW t \in Threads,
         FindLock(t)
  PROVE  DInv'
<1> DEFINE c == cur[t]
<1>0. /\ pc \in [Threads -> Pcs] /\ held \in [Threads -> SUBSET Bcs]
      /\ bc' \in [Bcs -> BcType]
  BY Zenon DEF IInv, TypeOK
<1>1. /\ pc[t] = "find_wait" /\ cur' = cur /\ arg' = arg
      /\ contents' = contents /\ UNCHANGED flushVars
  BY Zenon DEF FindLock
<1>2. /\ c \in Bcs /\ c \notin held[t] /\ OnlyAt(c) /\ KeepsKey(c)
      /\ Becomes(c, "ref", bc[c].dirty, bc[c].load, bc[c].flush, bc[c].buf)
      /\ held' = [held EXCEPT ![t] = @ \cup {c}]
      /\ Goto(t, "fill")
  BY FindLockEffect, Zenon
<1>3. pc'[t] = "fill" /\ held'[t] = held[t] \cup {c}
  BY <1>0, <1>2, Zenon DEF Goto
<1>4. \A u \in Threads : u = t
  BY Zenon DEF OneThread
<1>5. \A x \in Bcs : SameUse(t, x)
  BY <1>1, <1>2, <1>3, Zenon DEF SameUse, Filled, Discarding
<1>6. bc[c].bno # NoKey
  BY <1>1, Zenon DEF IInv, CurKeyed, PcCur
<1>7. CallSound(t)'
  BY <1>1, <1>2, <1>3, Zenon DEF DInv, CallSound, KeepsKey
<1>8. Sound(c)'
  BY <1>1, <1>2, <1>4, <1>5, <1>6, Zenon
  DEF DInv, Sound, OnDisk, SameUse, KeepsKey, Becomes, flushVars
<1> QED
  BY <1>1, <1>2, <1>5, <1>6, <1>7, <1>8, CallStep, Zenon
  DEF PcFlush, PcPass, KeepsKey, Becomes

\* The get reads the block only into a buffer that is not dirty, from a device
\* that is current.
LEMMA FillDInv ==
  ASSUME IInv, IInv', HInv, DInv, OneThread, NEW t \in Threads, Fill(t)
  PROVE  DInv'
<1>a. PICK c \in Bcs : c = cur[t]
  BY FillEffect, Zenon
<1>0. /\ pc \in [Threads -> Pcs] /\ cur \in [Threads -> Bcs \cup {NoBc}]
      /\ contents \in [Keys -> Vals \cup {Freed}] /\ bc[c].bno \in Keys
      /\ bc[c].bno # NoKey
  BY <1>a, Zenon DEF Fill, IInv, TypeOK, CurKeyed, PcCur, BcType
<1>1. /\ pc[t] = "fill" /\ Goto(t, "idle") /\ cur' = [cur EXCEPT ![t] = NoBc]
      /\ held' = held /\ UNCHANGED flushVars
  BY Zenon DEF Fill, Return
<1>2. /\ c \in held[t] /\ c \in Bcs /\ OnlyAt(c) /\ KeepsKey(c)
  BY <1>a, FillEffect, Zenon
<1>3. pc'[t] = "idle" /\ cur'[t] = NoBc
  BY <1>0, <1>1, Zenon DEF Goto
<1>4. \A u \in Threads : u = t
  BY Zenon DEF OneThread
<1>5. \A x \in Bcs : x # c => SameUse(t, x)
  BY <1>a, <1>1, <1>3, ConstantsAssumption, Zenon
  DEF SameUse, Filled, Discarding
<1>6. /\ Filled(t, c)' /\ ~Filled(t, c) /\ ~Discarding(t, c)
      /\ ~Discarding(t, c)'
  BY <1>a, <1>1, <1>2, <1>3, ConstantsAssumption, Zenon DEF Filled, Discarding
<1>7. CallSound(t)'
  BY <1>3, Zenon DEF CallSound
<1>8. Sound(c) /\ CallSound(t)
  BY <1>2, Zenon DEF DInv
<1>9. ASSUME contents' = contents, arg[t],
             \/ bc[c].load /\ bc' = bc
             \/ /\ ~bc[c].load
                /\ Becomes(c, bc[c].list, bc[c].dirty, TRUE, bc[c].flush,
                           disk[bc[c].bno])
      PROVE  DInv'
  <2>1. contents[bc[c].bno] # Freed
    BY <1>a, <1>1, <1>8, <1>9, Zenon DEF CallSound
  <2>2. Sound(c)'
    BY <1>0, <1>1, <1>2, <1>4, <1>6, <1>8, <1>9, <2>1, Zenon
    DEF Sound, OnDisk, KeepsKey, Becomes, flushVars
  <2>3. bc'[c].list = bc[c].list
    BY <1>9, Zenon DEF Becomes
  <2> QED
    BY <1>0, <1>1, <1>2, <1>5, <1>7, <1>9, <2>2, <2>3, CallStep, Zenon
    DEF PcFlush, PcPass, KeepsKey
<1>10. ASSUME contents' = [contents EXCEPT ![bc[c].bno] = Zero],
              Becomes(c, bc[c].list, TRUE, bc[c].load, bc[c].flush, Zero)
       PROVE  DInv'
  <2>1. contents'[bc[c].bno] = Zero /\ Zero # Freed
    BY <1>0, <1>10, ConstantsAssumption, Zenon
  <2>2. Sound(c)'
    BY <1>0, <1>1, <1>2, <1>4, <1>6, <1>8, <1>10, <2>1, Zenon
    DEF Sound, OnDisk, KeepsKey, Becomes, flushVars
  <2>3. \A k \in Keys : k # bc'[c].bno => contents'[k] = contents[k]
    BY <1>0, <1>2, <1>10, Zenon DEF KeepsKey
  <2> QED
    BY <1>0, <1>1, <1>2, <1>5, <1>7, <1>10, <2>2, <2>3, CallStep, Zenon
    DEF PcFlush, PcPass, KeepsKey, Becomes
<1> QED
  BY <1>a, <1>9, <1>10, FillEffect, Zenon

\* A holder stores into its buffer.
LEMMA ModifyDInv ==
  ASSUME IInv, IInv', HInv, DInv, OneThread, NEW t \in Threads,
         NEW b \in held[t], NEW v \in Vals, Modify(t, b, v)
  PROVE  DInv'
<1>0. /\ pc \in [Threads -> Pcs] /\ contents \in [Keys -> Vals \cup {Freed}]
      /\ b \in Bcs /\ bc[b].bno \in Keys /\ bc[b].bno # NoKey
  BY Zenon DEF IInv, TypeOK, HeldKeyed, BcType
<1>1. /\ pc[t] = "idle" /\ pc' = pc /\ cur' = cur /\ held' = held
      /\ contents' = [contents EXCEPT ![bc[b].bno] = v] /\ UNCHANGED flushVars
  BY Zenon DEF Modify
<1>2. /\ OnlyAt(b) /\ KeepsKey(b)
      /\ Becomes(b, bc[b].list, TRUE, bc[b].load, bc[b].flush, v)
  BY ModifyEffect, Zenon
<1>3. \A u \in Threads : u = t
  BY Zenon DEF OneThread
<1>4. \A x \in Bcs : SameUse(t, x)
  BY <1>1, Zenon DEF SameUse, Filled, Discarding
<1>5. Filled(t, b) /\ Goto(t, "idle")
  BY <1>0, <1>1, Zenon DEF Filled, Goto
<1>6. CallSound(t)'
  BY <1>1, Zenon DEF CallSound
<1>7. contents'[bc[b].bno] = v /\ v # Freed
  BY <1>0, <1>1, ConstantsAssumption, Zenon
<1>8. Sound(b)'
  BY <1>0, <1>1, <1>2, <1>3, <1>4, <1>5, <1>7, Zenon
  DEF DInv, Sound, OnDisk, SameUse, KeepsKey, Becomes, flushVars
<1>9. \A k \in Keys : k # bc'[b].bno => contents'[k] = contents[k]
  BY <1>0, <1>1, <1>2, Zenon DEF KeepsKey
<1> QED
  BY <1>0, <1>1, <1>2, <1>4, <1>5, <1>6, <1>8, <1>9, CallStep, Zenon
  DEF PcFlush, PcPass, KeepsKey, Becomes

\* The release of a buffer that holds current data.
LEMMA ReleaseDInv ==
  ASSUME IInv, IInv', HInv, DInv, OneThread, NEW t \in Threads,
         NEW b \in held[t], NEW dirty \in BOOLEAN, Release(t, b, dirty)
  PROVE  DInv'
<1>0. /\ pc \in [Threads -> Pcs] /\ cur \in [Threads -> Bcs \cup {NoBc}]
      /\ held \in [Threads -> SUBSET Bcs] /\ b \in Bcs /\ bc[b].bno # NoKey
  BY Zenon DEF IInv, TypeOK, HeldKeyed
<1>1. /\ pc[t] = "idle" /\ cur' = [cur EXCEPT ![t] = b]
      /\ held' = [held EXCEPT ![t] = @ \ {b}]
      /\ contents' = contents /\ UNCHANGED flushVars
  BY Zenon DEF Release
<1>2. /\ OnlyAt(b) /\ KeepsKey(b) /\ Goto(t, "rel_unlock")
      /\ Becomes(b, bc[b].list, bc[b].dirty, bc[b].load, bc[b].flush, bc[b].buf)
  BY ReleaseEffect, Zenon
<1>3. pc'[t] = "rel_unlock" /\ cur'[t] = b /\ held'[t] = held[t] \ {b}
  BY <1>0, <1>1, <1>2, Zenon DEF Goto
<1>4. \A u \in Threads : u = t
  BY Zenon DEF OneThread
<1>5. \A x \in Bcs : SameUse(t, x)
  BY <1>1, <1>3, Zenon DEF SameUse, Filled, Discarding
<1>6. CallSound(t)'
  BY <1>3, Zenon DEF CallSound
<1>7. Sound(b)'
  BY <1>0, <1>1, <1>2, <1>4, <1>5, Zenon
  DEF DInv, Sound, OnDisk, SameUse, KeepsKey, Becomes, flushVars
<1> QED
  BY <1>0, <1>1, <1>2, <1>5, <1>6, <1>7, CallStep, Zenon
  DEF PcFlush, PcPass, KeepsKey, Becomes

\* The flags of the release: a buffer released dirty is current, and loaded.
LEMMA ReleaseUnlockDInv ==
  ASSUME IInv, IInv', HInv, DInv, OneThread, NEW t \in Threads, ReleaseUnlock(t)
  PROVE  DInv'
<1>a. PICK c \in Bcs : c = cur[t]
  BY ReleaseUnlockEffect, Zenon
<1>0. pc \in [Threads -> Pcs] /\ bc[c].bno # NoKey
  BY <1>a, Zenon DEF ReleaseUnlock, IInv, TypeOK, CurKeyed, PcCur, PcReleasing
<1>1. /\ pc[t] = "rel_unlock" /\ cur' = cur /\ held' = held
      /\ contents' = contents /\ UNCHANGED flushVars
  BY Zenon DEF ReleaseUnlock
<1>2. /\ OnlyAt(c) /\ bc'[c].bno = bc[c].bno /\ bc'[c].list = bc[c].list
      /\ bc'[c].flush = bc[c].flush /\ bc'[c].buf = bc[c].buf
      /\ bc'[c].dirty <=> arg[t] \/ bc[c].dirty
      /\ bc'[c].load <=> bc[c].load \/ arg[t] \/ bc[c].dirty
  BY <1>a, ReleaseUnlockEffect, Zenon
<1>3. \E p \in {"rel_ref", "rel_dirty"} :
         Goto(t, p) /\ (p = "rel_dirty" => bc'[c].dirty)
  BY <1>a, ReleaseUnlockEffect, Zenon
<1>4. /\ pc'[t] \in {"rel_ref", "rel_dirty"}
      /\ pc'[t] = "rel_dirty" => bc'[c].dirty
  BY <1>0, <1>3, Zenon DEF Goto
<1>5. \A u \in Threads : u = t
  BY Zenon DEF OneThread
<1>6. c \notin held[t]
  BY <1>a, <1>1, Zenon DEF HInv, OneCall, PcReleasing
<1>7. \A x \in Bcs : x # c => SameUse(t, x)
  BY <1>a, <1>1, <1>4, Zenon DEF SameUse, Filled, Discarding
<1>8. /\ Filled(t, c) /\ ~Filled(t, c)' /\ ~Discarding(t, c)
      /\ ~Discarding(t, c)'
  BY <1>a, <1>1, <1>4, <1>6, Zenon DEF Filled, Discarding
<1>9. CallSound(t)'
  BY <1>a, <1>1, <1>4, Zenon DEF CallSound
<1>10. Sound(c)'
  BY <1>0, <1>1, <1>2, <1>5, <1>8, Zenon DEF DInv, Sound, OnDisk, flushVars
<1> QED
  BY <1>0, <1>1, <1>2, <1>3, <1>7, <1>9, <1>10, CallStep, Zenon
  DEF PcFlush, PcPass, KeepsKey

\* The clean release reads bc_ref.
LEMMA ReleaseCheckDInv ==
  ASSUME IInv, IInv', HInv, DInv, OneThread, NEW t \in Threads,
         ReleaseCheckRef(t)
  PROVE  DInv'
<1>a. PICK c \in Bcs : c = cur[t]
  BY Zenon DEF ReleaseCheckRef, IInv, CurKeyed, PcCur, PcReleasing
<1>0. pc \in [Threads -> Pcs] /\ bc[c].bno # NoKey
  BY <1>a, Zenon
  DEF ReleaseCheckRef, IInv, TypeOK, CurKeyed, PcCur, PcReleasing
<1>1. /\ pc[t] = "rel_ref" /\ cur' = cur /\ held' = held /\ bc' = bc
      /\ contents' = contents /\ UNCHANGED flushVars
      /\ \E p \in {"rel_clean", "assert_release"} : Goto(t, p)
  BY Zenon DEF ReleaseCheckRef
<1>2. pc'[t] \in {"rel_clean", "assert_release"}
  BY <1>0, <1>1, Zenon DEF Goto
<1>3. \A u \in Threads : u = t
  BY Zenon DEF OneThread
<1>4. \A x \in Bcs : SameUse(t, x)
  BY <1>1, <1>2, Zenon DEF SameUse, Filled, Discarding
<1>5. CallSound(t)'
  BY <1>2, Zenon DEF CallSound
<1>6. Sound(c)'
  BY <1>1, <1>3, <1>4, SoundKept, Zenon DEF DInv, flushVars
<1> QED
  BY <1>0, <1>1, <1>4, <1>5, <1>6, CallStep, Zenon
  DEF PcFlush, PcPass, KeepsKey, OnlyAt

\* The end of a release: what goes to the dirty list is dirty.
LEMMA ReleaseMoveDInv ==
  ASSUME IInv, IInv', HInv, DInv, OneThread, NEW t \in Threads, ReleaseMove(t)
  PROVE  DInv'
<1>a. PICK c \in Bcs : c = cur[t]
  BY ReleaseMoveEffect, Zenon
<1>0. /\ pc \in [Threads -> Pcs] /\ cur \in [Threads -> Bcs \cup {NoBc}]
      /\ bc[c].bno # NoKey
  BY <1>a, Zenon DEF ReleaseMove, IInv, TypeOK, CurKeyed, PcCur, PcReleasing
<1>1. /\ pc[t] \in {"rel_dirty", "rel_clean"} /\ Goto(t, "idle")
      /\ cur' = [cur EXCEPT ![t] = NoBc] /\ held' = held
      /\ contents' = contents /\ UNCHANGED flushVars
  BY Zenon DEF ReleaseMove, Return
<1>2. /\ c \notin held[t] /\ OnlyAt(c) /\ KeepsKey(c)
      /\ \/ /\ pc[t] = "rel_dirty"
            /\ Becomes(c, "dirty", bc[c].dirty, bc[c].load, bc[c].flush, bc[c].buf)
         \/ Becomes(c, "clean", bc[c].dirty, bc[c].load, bc[c].flush, bc[c].buf)
  BY <1>a, ReleaseMoveEffect, Zenon
<1>3. pc'[t] = "idle" /\ cur'[t] = NoBc
  BY <1>0, <1>1, Zenon DEF Goto
<1>4. \A u \in Threads : u = t
  BY Zenon DEF OneThread
<1>5. \A x \in Bcs : SameUse(t, x)
  BY <1>1, <1>3, Zenon DEF SameUse, Filled, Discarding
<1>6. CallSound(t)'
  BY <1>3, Zenon DEF CallSound
<1>7. pc[t] = "rel_dirty" => bc[c].dirty
  BY <1>a, Zenon DEF DInv, CallSound
<1>8. Sound(c)'
  BY <1>0, <1>1, <1>2, <1>4, <1>5, <1>7, Zenon
  DEF DInv, Sound, OnDisk, SameUse, KeepsKey, Becomes, flushVars
<1> QED
  BY <1>0, <1>1, <1>2, <1>5, <1>6, <1>8, CallStep, Zenon
  DEF PcFlush, PcPass, KeepsKey, Becomes

\* The end of a discard drops data of a block that was given up.
LEMMA DiscardLockDInv ==
  ASSUME IInv, IInv', HInv, DInv, OneThread, NEW t \in Threads, DiscardLock(t)
  PROVE  DInv'
<1>a. PICK c \in Bcs : c = cur[t]
  BY DiscardLockEffect, Zenon
<1>0. /\ pc \in [Threads -> Pcs] /\ cur \in [Threads -> Bcs \cup {NoBc}]
      /\ bc[c].bno # NoKey
  BY <1>a, Zenon DEF DiscardLock, IInv, TypeOK, CurKeyed, PcCur, PcReleasing
<1>1. /\ pc[t] = "unused_wait" /\ Goto(t, "idle")
      /\ cur' = [cur EXCEPT ![t] = NoBc] /\ held' = held
      /\ contents' = contents /\ UNCHANGED flushVars
  BY Zenon DEF DiscardLock, Return
<1>2. /\ c \notin held[t] /\ OnlyAt(c) /\ KeepsKey(c)
      /\ Becomes(c, "unused", FALSE, FALSE, bc[c].flush, bc[c].buf)
  BY <1>a, DiscardLockEffect, Zenon
<1>3. pc'[t] = "idle" /\ cur'[t] = NoBc
  BY <1>0, <1>1, Zenon DEF Goto
<1>4. \A u \in Threads : u = t
  BY Zenon DEF OneThread
<1>5. \A x \in Bcs : x # c => SameUse(t, x)
  BY <1>a, <1>1, <1>3, ConstantsAssumption, Zenon
  DEF SameUse, Filled, Discarding
<1>6. CallSound(t)'
  BY <1>3, Zenon DEF CallSound
<1>7. contents[bc[c].bno] = Freed /\ ~Filled(t, c)'
  BY <1>a, <1>1, <1>2, <1>3, Zenon DEF DInv, CallSound, Filled
<1>8. Sound(c)'
  BY <1>0, <1>1, <1>2, <1>4, <1>7, Zenon
  DEF DInv, Sound, OnDisk, SameUse, KeepsKey, Becomes, flushVars
<1> QED
  BY <1>0, <1>1, <1>2, <1>5, <1>6, <1>8, CallStep, Zenon
  DEF PcFlush, PcPass, KeepsKey, Becomes

\* The start of a discard gives the block up.
LEMMA DiscardDInv ==
  ASSUME IInv, IInv', HInv, DInv, OneThread, NEW t \in Threads, NEW k \in Keys,
         Discard(t, k)
  PROVE  DInv'
<1>0. /\ pc \in [Threads -> Pcs] /\ cur \in [Threads -> Bcs \cup {NoBc}]
      /\ contents \in [Keys -> Vals \cup {Freed}] /\ bc \in [Bcs -> BcType]
      /\ k # NoKey
  BY ConstantsAssumption, Zenon DEF IInv, TypeOK
<1>1. /\ pc[t] = "idle" /\ bc' = bc /\ held' = held /\ UNCHANGED flushVars
      /\ contents' = [contents EXCEPT ![k] = Freed] /\ MayUse(t, k)
  BY Zenon DEF Discard
<1>2. /\ contents'[k] = Freed
      /\ \A l \in Keys : l # k => contents'[l] = contents[l]
  BY <1>0, <1>1, Zenon
<1>3. \A u \in Threads : u = t
  BY Zenon DEF OneThread
<1>4. CASE HashLookup(k) = {} /\ UNCHANGED <<pc, cur>>
  <2>1. \A x \in Bcs : SameUse(t, x)
    BY <1>1, <1>4, Zenon DEF SameUse, Filled, Discarding
  <2>2. ASSUME NEW x \in Bcs
        PROVE  Sound(x)'
    <3>1. bc[x].bno # NoKey => bc[x].bno \in Keys /\ bc[x].bno # k
      BY <1>0, <1>4, Zenon DEF BcType, HashLookup
    <3> QED
      BY <1>1, <1>2, <1>3, <2>1, <3>1, SoundKept, Zenon DEF DInv, flushVars
  <2>3. CallSound(t)'
    BY <1>1, <1>4, Zenon DEF CallSound
  <2>4. Uncached'
    BY <1>1, <1>2, Zenon DEF DInv, Uncached, flushVars
  <2>5. Goto(t, "idle")
    BY <1>0, <1>1, <1>4, Zenon DEF Goto
  <2>6. FlushAssert' /\ PassEmpty' /\ \A u \in Threads : Pass(u)'
    BY <1>1, <2>5, NoPass, Zenon DEF flushVars, PcFlush, PcPass
  <2> QED
    BY <1>3, <2>2, <2>3, <2>4, <2>6, Zenon DEF DInv
<1>5. ASSUME NEW b \in HashLookup(k), cur' = [cur EXCEPT ![t] = b],
             Goto(t, "unused_wait")
      PROVE  DInv'
  <2>1. NoSharing
    BY <1>3, Zenon DEF NoSharing
  <2>2. b \in Bcs /\ bc[b].bno = k /\ ~UsedBy(t, b)
    BY <1>1, <1>5, <2>1, HitUnused, Zenon DEF HashLookup
  <2>3. pc'[t] = "unused_wait" /\ cur'[t] = b
    BY <1>0, <1>5, Zenon DEF Goto
  <2>4. \A x \in Bcs : x # b => SameUse(t, x)
    BY <1>1, <2>3, Zenon DEF SameUse, Filled, Discarding
  <2>5. ~Filled(t, b)' /\ Discarding(t, b)' /\ ~Filled(t, b)
    BY <1>1, <2>2, <2>3, Zenon DEF Filled, Discarding, UsedBy
  <2>6. Sound(b)'
    BY <1>1, <1>2, <1>3, <2>2, <2>5, Zenon DEF DInv, Sound
  <2>7. CallSound(t)'
    BY <1>1, <1>2, <2>2, <2>3, Zenon DEF CallSound
  <2> QED
    BY <1>0, <1>1, <1>2, <1>5, <2>2, <2>4, <2>6, <2>7, CallStep, Zenon
    DEF PcFlush, PcPass, KeepsKey, OnlyAt
<1> QED
  BY <1>4, <1>5, Zenon DEF Discard

\* A step of the flush that writes neither a buffer nor the device.
LEMMA FlushFrame ==
  ASSUME IInv, DInv, OneThread, NEW t \in Threads, NEW p, Goto(t, p),
         pc[t] \notin PcCur, p \notin PcCur, p # "assert_flush",
         UNCHANGED <<bc, disk, keepCache>>,
         p \notin PcPass => OnList("flushing") = {}, Pass(t)'
  PROVE  DInv'
<1>1. pc'[t] = p /\ \A u \in Threads : u = t
  BY Zenon DEF Goto, IInv, TypeOK, OneThread
<1>2. UNCHANGED <<cur, arg, held, contents>>
  BY Zenon DEF keepCache
<1>3. \A x \in Bcs : SameUse(t, x)
  BY <1>1, <1>2, Zenon DEF SameUse, Filled, Discarding, PcCur, PcReleasing
<1>4. \A x \in Bcs : Sound(x)'
  BY <1>1, <1>2, <1>3, SoundKept, Zenon DEF DInv
<1>5. CallSound(t)'
  BY <1>1, Zenon DEF CallSound, PcCur, PcReleasing
<1>6. Uncached'
  BY <1>2, Zenon DEF DInv, Uncached
<1>7. FlushAssert' /\ PassEmpty'
  BY <1>1, Zenon DEF DInv, FlushAssert, PassEmpty, OnList
<1> QED
  BY <1>1, <1>4, <1>5, <1>6, <1>7, Zenon DEF DInv

\* The steps of the flush that only move on: the pass has something to write.
LEMMA FlushMoveDInv ==
  ASSUME IInv, DInv, OneThread, NEW t \in Threads,
         FlushStart(t) \/ FlushCheck(t) \/ FlushLock(t) \/ FlushCollected(t)
         \/ SyncLock(t) \/ CleanLock(t) \/ Cleaned(t) \/ FlushEnd(t)
  PROVE  DInv'
<1>0. pc \in [Threads -> Pcs] /\ QDepth > 0
  BY ConstantsAssumption DEF IInv, TypeOK
<1>1. Pass(t) /\ (pc[t] \notin PcPass => OnList("flushing") = {})
  BY Zenon DEF DInv, PassEmpty
<1>2. UNCHANGED <<bc, disk, num_blocks, jobs, keepCache>>
  BY Zenon
  DEF FlushStart, FlushCheck, FlushLock, FlushCollected, SyncLock, CleanLock,
         Cleaned, FlushEnd, flushVars
<1>3. /\ OnList("flushing")' = OnList("flushing")
      /\ OnList("dirty")' = OnList("dirty")
      /\ FlushJobs' = FlushJobs
      /\ \A b \in OnList("flushing") : OnDisk(b)' <=> OnDisk(b)
  BY <1>2, Zenon DEF OnList, FlushJobs, JobOf, OnDisk, keepCache
<1>4. PICK p : Goto(t, p) /\
        \/ p = "fl_check" /\ pc[t] = "idle"
        \/ p = "fl_end" /\ pc[t] = "fl_check"
        \/ p = "fl_lock" /\ pc[t] = "fl_check" /\ OnList("dirty") # {}
        \/ p = "collect" /\ pc[t] = "fl_lock"
        \/ p = "sync_lock" /\ pc[t] = "collect"
           /\ (OnList("dirty") = {} \/ num_blocks[t] = QDepth)
        \/ p = "fill_jobs" /\ pc[t] = "sync_lock"
        \/ p = "clean" /\ pc[t] = "clean_lock"
        \/ p = "fl_check" /\ pc[t] = "clean" /\ OnList("flushing") = {}
        \/ p = "idle" /\ pc[t] = "fl_end"
  BY Zenon
  DEF FlushStart, FlushCheck, FlushLock, FlushCollected, SyncLock, CleanLock,
         Cleaned, FlushEnd
<1>5. pc'[t] = p
  BY <1>0, <1>4, Zenon DEF Goto
<1>6. IsFiniteSet({}) /\ Cardinality({}) = 0
  BY FS_EmptySet, Zenon
<1>7. Pass(t)'
  BY <1>0, <1>1, <1>2, <1>3, <1>4, <1>5, <1>6, Zenon DEF Pass, PcPass
<1> QED
  BY <1>1, <1>2, <1>4, <1>7, FlushFrame, Zenon DEF PcPass, PcCur, PcReleasing

\* There is one job per buffer of the flushing list.
LEMMA JobsCount ==
  ASSUME IsFiniteSet(OnList("flushing"))
  PROVE  /\ IsFiniteSet(FlushJobs)
         /\ Cardinality(FlushJobs) = Cardinality(OnList("flushing"))
<1> DEFINE S == OnList("flushing")
           f == [b \in S |-> JobOf(b)]
<1>1. f \in Surjection(S, FlushJobs)
  BY Zenon DEF Surjection, FlushJobs
<1>2. f \in Injection(S, FlushJobs)
  BY Zenon DEF Injection, IsInjective, FlushJobs, JobOf
<1>3. ExistsBijection(S, FlushJobs)
  BY <1>1, <1>2, Zenon DEF ExistsBijection, Bijection
<1> QED
  BY <1>3, FS_Bijection, Zenon

\* A step of the flush that changes the flags of buffer b.
LEMMA FlushAt ==
  ASSUME IInv, DInv, OneThread, NEW t \in Threads, NEW b \in Bcs,
         pc[t] \in {"collect", "clean"}, pc' = pc, OnlyAt(b), KeepsKey(b),
         UNCHANGED <<disk, keepCache>>, Sound(b)', Pass(t)'
  PROVE  DInv'
<1>1. \A u \in Threads : u = t
  BY Zenon DEF OneThread
<1>2. UNCHANGED <<cur, arg, held, contents>>
  BY Zenon DEF keepCache
<1>3. \A x \in Bcs : SameUse(t, x)
  BY <1>2, Zenon DEF SameUse, Filled, Discarding
<1>4. \A x \in Bcs : Sound(x)'
  BY <1>1, <1>2, <1>3, SoundKept, Zenon DEF DInv, OnlyAt
<1>5. CallSound(t)'
  BY <1>2, Zenon DEF CallSound
<1>6. Uncached'
  BY <1>2, Zenon DEF DInv, Uncached, OnlyAt, KeepsKey
<1>7. FlushAssert' /\ PassEmpty'
  BY <1>1, Zenon DEF DInv, FlushAssert, PassEmpty, PcPass
<1> QED
  BY <1>1, <1>4, <1>5, <1>6, <1>7, Zenon DEF DInv

\* The pass collects a buffer: it is dirty, as the code asserts.
LEMMA CollectDInv ==
  ASSUME IInv, IInv', DInv, OneThread, NEW t \in Threads, NEW b \in Bcs,
         FlushCollect(t, b)
  PROVE  DInv'
<1>0. /\ num_blocks \in [Threads -> Nat] /\ bc[b].bno # NoKey
      /\ bc[b].list = "dirty"
  BY Zenon DEF FlushCollect, OnList, IInv, TypeOK, ListKeyed
<1>1. bc[b].dirty
  BY <1>0, Zenon DEF DInv, Sound
<1>2. /\ pc[t] = "collect" /\ pc' = pc /\ OnlyAt(b) /\ KeepsKey(b)
      /\ UNCHANGED <<disk, jobs, keepCache>>
      /\ Becomes(b, "flushing", TRUE, bc[b].load, TRUE, bc[b].buf)
      /\ num_blocks'[t] = num_blocks[t] + 1
  BY <1>0, <1>1, CollectEffect, Zenon DEF FlushCollect
<1>3. \A u \in Threads : u = t
  BY Zenon DEF OneThread
<1>4. UNCHANGED <<cur, arg, held, contents>>
  BY <1>2, Zenon DEF keepCache
<1>5. SameUse(t, b)
  BY <1>2, <1>4, Zenon DEF SameUse, Filled, Discarding
<1>6. Sound(b)'
  BY <1>0, <1>1, <1>2, <1>3, <1>4, <1>5, Zenon
  DEF DInv, Sound, OnDisk, SameUse, KeepsKey, Becomes
<1>7. Pass(t)'
  <2> DEFINE S == OnList("flushing")
  <2>1. OnList("flushing")' = S \cup {b} /\ b \notin S
    BY <1>0, <1>2, Zenon DEF OnList, OnlyAt, Becomes
  <2>2. IsFiniteSet(S) /\ num_blocks[t] = Cardinality(S) /\ jobs[t] = {}
    BY <1>2, Zenon DEF DInv, Pass
  <2>3. IsFiniteSet(S \cup {b}) /\ Cardinality(S \cup {b}) = num_blocks'[t]
    BY <1>2, <2>1, <2>2, FS_AddElement, Zenon
  <2>4. num_blocks'[t] > 0
    BY <1>0, <1>2
  <2> QED
    BY <1>2, <2>1, <2>2, <2>3, <2>4, Zenon DEF Pass, PcPass
<1> QED
  BY <1>2, <1>6, <1>7, FlushAt, Zenon

\* A written buffer goes to the clean list: the device has its data.
LEMMA CleanDInv ==
  ASSUME IInv, IInv', HInv, DInv, OneThread, NEW t \in Threads, NEW b \in Bcs,
         Clean(t, b)
  PROVE  DInv'
<1>0. bc[b].bno # NoKey /\ bc[b].list = "flushing"
  BY Zenon DEF Clean, OnList, IInv, TypeOK, ListKeyed
<1>1. bc[b].dirty
  BY <1>0, Zenon DEF DInv, Sound
<1>2. /\ pc[t] = "clean" /\ pc' = pc /\ OnlyAt(b) /\ KeepsKey(b)
      /\ UNCHANGED <<disk, jobs, num_blocks, keepCache>>
      /\ Becomes(b, "clean", FALSE, bc[b].load, FALSE, bc[b].buf)
  BY <1>1, CleanEffect, Zenon DEF Clean, flushVars
<1>3. \A u \in Threads : u = t
  BY Zenon DEF OneThread
<1>4. UNCHANGED <<cur, arg, held, contents>>
  BY <1>2, Zenon DEF keepCache
<1>5. ~Filled(t, b) /\ ~Filled(t, b)'
  BY <1>0, <1>2, <1>4, Zenon DEF Filled, HInv, OnRef
<1>6. OnDisk(b) /\ OnDisk(b)'
  BY <1>0, <1>2, <1>4, Zenon DEF DInv, Pass, OnList, OnDisk, KeepsKey
<1>7. Sound(b)'
  BY <1>0, <1>1, <1>2, <1>3, <1>4, <1>5, <1>6, Zenon
  DEF DInv, Sound, KeepsKey, Becomes
<1>8. Pass(t)'
  <2>1. jobs[t] = {} /\ num_blocks[t] = 0
    BY <1>2, Zenon DEF DInv, Pass
  <2>2. \A x \in OnList("flushing")' : OnDisk(x)'
    BY <1>2, <1>4, <1>6 DEF DInv, Pass, OnList, OnDisk, OnlyAt
  <2> QED
    BY <1>2, <2>1, <2>2, Zenon DEF Pass, PcPass
<1> QED
  BY <1>2, <1>7, <1>8, FlushAt, Zenon

\* The second loop of the flush fills a job it has allocated, for a buffer that
\* the first marked.
LEMMA SyncFillDInv ==
  ASSUME IInv, IInv', DInv, OneThread, NEW t \in Threads, NEW b \in Bcs,
         SyncFill(t, b)
  PROVE  DInv'
<1>0. /\ bc[b].bno # NoKey /\ b \in OnList("flushing")
      /\ JobOf(b) \notin jobs[t] /\ pc[t] = "fill_jobs"
      /\ pc \in [Threads -> Pcs] /\ jobs \in [Threads -> SUBSET Jobs]
      /\ num_blocks \in [Threads -> Nat]
  BY Zenon DEF SyncFill, Unfilled, OnList, IInv, TypeOK, ListKeyed
<1>1. bc[b].dirty /\ bc[b].flush
  BY <1>0, Zenon DEF DInv, Sound, OnList
<1>2. Cardinality(jobs[t]) < num_blocks[t]
  <2>1. /\ IsFiniteSet(FlushJobs) /\ Cardinality(FlushJobs) = num_blocks[t]
        /\ jobs[t] \subseteq FlushJobs
    BY <1>0, JobsCount, Zenon DEF DInv, Pass
  <2>2. jobs[t] # FlushJobs
    BY <1>0, Zenon DEF FlushJobs
  <2>3. IsFiniteSet(jobs[t])
    BY <2>1, FS_Subset, Zenon
  <2>4. Cardinality(jobs[t]) \in Nat /\ Cardinality(jobs[t]) <= num_blocks[t]
        /\ Cardinality(jobs[t]) # num_blocks[t]
    BY <2>1, <2>2, <2>3, FS_Subset, FS_CardinalityType, Zenon
  <2> QED
    BY <1>0, <2>4
<1>3. /\ pc' = pc /\ jobs' = [jobs EXCEPT ![t] = @ \cup {JobOf(b)}]
      /\ UNCHANGED <<bc, disk, num_blocks, keepCache>>
  BY <1>1, <1>2, Zenon DEF SyncFill
<1>4. jobs'[t] = jobs[t] \cup {JobOf(b)}
  BY <1>0, <1>3, Zenon
<1>5. /\ OnList("flushing")' = OnList("flushing")
      /\ FlushJobs' = FlushJobs /\ JobOf(b) \in FlushJobs
  BY <1>0, <1>3, Zenon DEF OnList, FlushJobs, JobOf
<1>6. Goto(t, "fill_jobs")
  BY <1>0, <1>3, Zenon DEF Goto
<1>7. Pass(t)'
  BY <1>0, <1>3, <1>4, <1>5, Zenon DEF DInv, Pass, PcPass
<1> QED
  BY <1>0, <1>3, <1>6, <1>7, FlushFrame, Zenon DEF PcCur, PcReleasing, PcPass

\* The jobs that are submitted are the ones that were filled.
LEMMA SyncSubmitDInv ==
  ASSUME IInv, IInv', DInv, OneThread, NEW t \in Threads, SyncSubmit(t)
  PROVE  DInv'
<1>0. /\ pc[t] = "fill_jobs" /\ Unfilled(t) = {}
      /\ UNCHANGED <<bc, disk, num_blocks, keepCache>>
      /\ pc \in [Threads -> Pcs] /\ jobs \in [Threads -> SUBSET Jobs]
      /\ num_blocks \in [Threads -> Nat]
  BY Zenon DEF SyncSubmit, IInv, TypeOK
<1>1. /\ num_blocks[t] > 0 /\ jobs[t] \subseteq FlushJobs
      /\ IsFiniteSet(OnList("flushing"))
      /\ num_blocks[t] = Cardinality(OnList("flushing"))
  BY <1>0, Zenon DEF DInv, Pass
<1>2. jobs[t] = FlushJobs
  BY <1>0, <1>1, Zenon DEF Unfilled, FlushJobs
<1>3. Cardinality(jobs[t]) = num_blocks[t]
  BY <1>1, <1>2, JobsCount, Zenon
<1>4. jobs' = jobs /\ Goto(t, "io")
  <2>1. num_blocks[t] - Cardinality(jobs[t]) = 0
    BY <1>0, <1>3
  <2>2. \E old \in SUBSET Jobs :
          /\ IsFiniteSet(old)
          /\ Cardinality(old) <= 0
          /\ jobs' = [jobs EXCEPT ![t] = @ \cup old]
          /\ Goto(t, "io")
    BY <1>1, <2>1 DEF SyncSubmit
  <2>3. PICK old : /\ IsFiniteSet(old)
                   /\ Cardinality(old) <= 0
                   /\ jobs' = [jobs EXCEPT ![t] = @ \cup old]
                   /\ Goto(t, "io")
    BY <2>2, Zenon
  <2>4. Cardinality(old) = 0
    BY <2>3, FS_CardinalityType
  <2>5. old = {}
    BY <2>3, <2>4, FS_EmptySet, Zenon
  <2> QED
    BY <1>0, <2>3, <2>5, Zenon
<1>5. pc'[t] = "io"
  BY <1>0, <1>4, Zenon DEF Goto
<1>6. /\ OnList("flushing")' = OnList("flushing")
      /\ FlushJobs' = FlushJobs
      /\ \A b \in OnList("flushing") : JobOf(b)' \in FlushJobs
  BY <1>0, Zenon DEF OnList, FlushJobs, JobOf
<1>7. Pass(t)'
  BY <1>2, <1>4, <1>5, <1>6, Zenon DEF Pass, PcPass
<1> QED
  BY <1>0, <1>4, <1>7, FlushFrame, Zenon DEF PcCur, PcReleasing, PcPass

\* The job of a buffer: the block is allocated and the buffer has its data.
LEMMA JobCurrent ==
  ASSUME IInv, DInv, OneThread, NEW t \in Threads, pc[t] = "io",
         NEW j \in jobs[t]
  PROVE  /\ j.bc \in OnList("flushing") /\ JobOf(j.bc) = j
         /\ j.key = bc[j.bc].bno /\ j.key \in Keys
         /\ bc[j.bc].dirty
         /\ contents[j.key] # Freed
         /\ bc[j.bc].buf = contents[j.key]
<1>1. jobs[t] \subseteq FlushJobs
  BY Zenon DEF DInv, Pass
<1>2. PICK b \in OnList("flushing") : j = JobOf(b)
  BY <1>1, Zenon DEF FlushJobs
<1>3. j.bc = b /\ j.key = bc[b].bno
  BY <1>2, Zenon DEF JobOf
<1>4. b \in Bcs /\ bc[b].list = "flushing" /\ bc[b].bno # NoKey
  BY <1>2, Zenon DEF OnList, IInv, ListKeyed
<1>5. bc[b].bno \in Keys
  BY <1>4, Zenon DEF IInv, TypeOK, BcType
<1>6. bc[b].dirty
  BY <1>4, Zenon DEF DInv, Sound
<1>7. ~\E u \in Threads : Discarding(u, b)
  BY Zenon DEF OneThread, Discarding
<1>8. contents[bc[b].bno] # Freed
  BY <1>4, <1>6, <1>7, Zenon DEF DInv, Sound
<1>9. bc[b].buf = contents[bc[b].bno]
  BY <1>4, <1>6, <1>8, Zenon DEF DInv, Sound
<1> QED
  BY <1>2, <1>3, <1>5, <1>6, <1>8, <1>9, Zenon

\* The device performs a write: the block gets what was last stored in it.
LEMMA FlushIoDInv ==
  ASSUME IInv, IInv', DInv, OneThread, NEW t \in Threads, NEW j \in jobs[t],
         FlushIo(t, j)
  PROVE  DInv'
<1>0. /\ pc[t] = "io" /\ disk' = [disk EXCEPT ![j.key] = bc[j.bc].buf]
      /\ jobs' = [jobs EXCEPT ![t] = @ \ {j}]
      /\ UNCHANGED <<bc, pc, num_blocks, cur, arg, held, contents>>
      /\ pc \in [Threads -> Pcs] /\ jobs \in [Threads -> SUBSET Jobs]
      /\ disk \in [Keys -> Vals] /\ bc \in [Bcs -> BcType]
  BY Zenon DEF FlushIo, IInv, TypeOK, keepCache
<1>1. /\ j.bc \in Bcs /\ bc[j.bc].bno = j.key /\ j.key \in Keys
      /\ bc[j.bc].list = "flushing" /\ bc[j.bc].dirty
      /\ JobOf(j.bc) = j
      /\ bc[j.bc].buf = contents[j.key]
  BY <1>0, JobCurrent, Zenon DEF OnList
<1>2. /\ disk'[j.key] = contents'[j.key]
      /\ \A k \in Keys : k # j.key => disk'[k] = disk[k]
  BY <1>0, <1>1, Zenon
<1>3. \A u \in Threads : u = t
  BY Zenon DEF OneThread
<1>4. \A x \in Bcs : SameUse(t, x)
  BY <1>0, Zenon DEF SameUse, Filled, Discarding
<1>5. ASSUME NEW x \in Bcs
      PROVE  Sound(x)'
  <2>1. CASE x = j.bc
    BY <1>0, <1>1, <1>2, <1>3, <1>4, <2>1, Zenon
    DEF DInv, Sound, OnDisk, SameUse
  <2>2. CASE x # j.bc
    <3>1. bc[x].bno # NoKey => bc[x].bno \in Keys /\ bc[x].bno # j.key
      BY <1>0, <1>1, <2>2, Zenon DEF IInv, BcType, KeyUnique
    <3> QED
      BY <1>0, <1>2, <1>3, <1>4, <3>1, SoundKept, Zenon DEF DInv
  <2> QED
    BY <2>1, <2>2, Zenon
<1>6. CallSound(t)'
  BY <1>0, Zenon DEF CallSound
<1>7. Uncached'
  BY <1>0, <1>1, <1>2, Zenon DEF DInv, Uncached
<1>8. FlushAssert' /\ PassEmpty'
  BY <1>0, <1>3, Zenon DEF DInv, FlushAssert, PassEmpty, PcPass
<1>9. Pass(t)'
  <2>1. jobs'[t] = jobs[t] \ {j} /\ jobs[t] \subseteq FlushJobs
    BY <1>0, Zenon DEF DInv, Pass
  <2>2. FlushJobs' = FlushJobs /\ OnList("flushing")' = OnList("flushing")
    BY <1>0, Zenon DEF FlushJobs, OnList, JobOf
  <2>3. ASSUME NEW b \in OnList("flushing")
        PROVE  JobOf(b)' \in jobs'[t] \/ OnDisk(b)'
    <3>1. JobOf(b)' = JobOf(b) /\ b \in Bcs /\ bc[b].bno \in Keys
      BY <1>0, Zenon DEF JobOf, OnList, IInv, ListKeyed, BcType
    <3>2. CASE JobOf(b) = j
      BY <1>0, <1>1, <1>2, <3>2, Zenon DEF JobOf, OnDisk
    <3>3. CASE JobOf(b) # j /\ JobOf(b) \in jobs[t]
      BY <2>1, <3>1, <3>3, Zenon
    <3>4. CASE OnDisk(b)
      BY <1>0, <1>2, <3>1, <3>4, Zenon DEF OnDisk
    <3> QED
      BY <1>0, <3>2, <3>3, <3>4, Zenon DEF DInv, Pass
  <2> QED
    BY <1>0, <2>1, <2>2, <2>3, Zenon DEF Pass, PcPass
<1> QED
  BY <1>3, <1>5, <1>6, <1>7, <1>8, <1>9, Zenon DEF DInv

\* The writes of the pass are done: the device is current for all it flushed.
LEMMA FlushIoDoneDInv ==
  ASSUME IInv, IInv', DInv, OneThread, NEW t \in Threads, FlushIoDone(t)
  PROVE  DInv'
<1>0. /\ pc[t] = "io" /\ jobs[t] = {} /\ Goto(t, "clean_lock")
      /\ num_blocks' = [num_blocks EXCEPT ![t] = 0]
      /\ UNCHANGED <<bc, disk, jobs, keepCache>>
      /\ pc \in [Threads -> Pcs] /\ num_blocks \in [Threads -> Nat]
  BY Zenon DEF FlushIoDone, IInv, TypeOK
<1>1. pc'[t] = "clean_lock" /\ num_blocks'[t] = 0
  BY <1>0, Zenon DEF Goto
<1>2. /\ OnList("flushing")' = OnList("flushing")
      /\ \A b \in OnList("flushing") : OnDisk(b)'
  BY <1>0, Zenon DEF DInv, Pass, OnList, OnDisk, keepCache
<1>3. Pass(t)'
  BY <1>0, <1>1, <1>2, Zenon DEF Pass, PcPass
<1> QED
  BY <1>0, <1>3, FlushFrame, Zenon DEF PcCur, PcReleasing, PcPass

\* The steps of the flush.
LEMMA FlushDInv ==
  ASSUME IInv, IInv', HInv, DInv, OneThread, NEW t \in Threads, Flush(t)
  PROVE  DInv'
<1>1. ASSUME NEW b \in Bcs, FlushCollect(t, b) \/ SyncFill(t, b) \/ Clean(t, b)
      PROVE  DInv'
  BY <1>1, CollectDInv, SyncFillDInv, CleanDInv, Zenon
<1>2. ASSUME NEW j \in jobs[t], FlushIo(t, j)
      PROVE  DInv'
  BY <1>2, FlushIoDInv, Zenon
<1>3. ASSUME SyncSubmit(t) \/ FlushIoDone(t)
      PROVE  DInv'
  BY <1>3, SyncSubmitDInv, FlushIoDoneDInv, Zenon
<1> QED
  BY <1>1, <1>2, <1>3, FlushMoveDInv, Zenon DEF Flush

\* Every step preserves the invariant.
LEMMA NextDInv ==
  ASSUME OneThread
  PROVE  IInv /\ HInv /\ DInv /\ [Next]_vars => DInv'
<1> SUFFICES ASSUME IInv, HInv, DInv, [Next]_vars
             PROVE  DInv'
  BY Zenon
<1>1. NoSharing
  BY Zenon DEF OneThread, NoSharing
<1>2. IInv' /\ HInv'
  BY <1>1, NextIInv, NextHInv, Zenon
<1>3. CASE UNCHANGED vars
  <2>1. UNCHANGED <<bc, disk, pc, cur, arg, held, num_blocks, jobs, contents>>
    BY <1>3, Zenon DEF vars
  <2>2. \A t \in Threads, x \in Bcs : SameUse(t, x)
    BY <2>1, Zenon DEF SameUse, Filled, Discarding
  <2>3. \A x \in Bcs : Sound(x)'
    BY <2>1, <2>2, SoundKept, Zenon DEF DInv
  <2>4. \A t \in Threads : CallSound(t)'
    BY <2>1, Zenon DEF DInv, CallSound
  <2>5. \A t \in Threads : Pass(t)'
    <3>1. /\ OnList("flushing")' = OnList("flushing")
          /\ OnList("dirty")' = OnList("dirty")
          /\ FlushJobs' = FlushJobs
          /\ \A b \in OnList("flushing") : /\ OnDisk(b)' <=> OnDisk(b)
                                           /\ JobOf(b)' = JobOf(b)
      BY <2>1, Zenon DEF OnList, FlushJobs, JobOf, OnDisk
    <3> QED
      BY <2>1, <3>1, Zenon DEF DInv, Pass
  <2>6. Uncached' /\ FlushAssert' /\ PassEmpty'
    BY <2>1, Zenon DEF DInv, Uncached, FlushAssert, PassEmpty, OnList
  <2> QED
    BY <2>3, <2>4, <2>5, <2>6, Zenon DEF DInv
<1>4. ASSUME NEW t \in Threads, NEW k \in Keys, NEW read \in BOOLEAN,
             Find(t, k, read)
      PROVE  DInv'
  BY <1>2, <1>4, FindDInv, Zenon
<1>5. ASSUME NEW t \in Threads, NEW b \in held[t], NEW v \in Vals,
             Modify(t, b, v)
      PROVE  DInv'
  BY <1>2, <1>5, ModifyDInv, Zenon
<1>6. ASSUME NEW t \in Threads, NEW b \in held[t], NEW dirty \in BOOLEAN,
             Release(t, b, dirty)
      PROVE  DInv'
  BY <1>2, <1>6, ReleaseDInv, Zenon
<1>7. ASSUME NEW t \in Threads, NEW k \in Keys, Discard(t, k)
      PROVE  DInv'
  BY <1>2, <1>7, DiscardDInv, Zenon
<1>8. ASSUME NEW t \in Threads,
             FindLock(t) \/ Fill(t) \/ ReleaseUnlock(t) \/ ReleaseCheckRef(t)
      PROVE  DInv'
  BY <1>2, <1>8, FindLockDInv, FillDInv, ReleaseUnlockDInv, ReleaseCheckDInv,
     Zenon
<1>9. ASSUME NEW t \in Threads, ReleaseMove(t) \/ DiscardLock(t) \/ Flush(t)
      PROVE  DInv'
  BY <1>2, <1>9, ReleaseMoveDInv, DiscardLockDInv, FlushDInv, Zenon
<1> QED
  BY <1>3, <1>4, <1>5, <1>6, <1>7, <1>8, <1>9, Zenon DEF Next

\* The invariants of the sequential cache hold throughout.
LEMMA DataInvariant ==
  ASSUME OneThread
  PROVE  Spec => [](IInv /\ HInv /\ DInv)
<1>1. NoSharing
  BY Zenon DEF OneThread, NoSharing
<1>2. Init => IInv /\ HInv /\ DInv
  BY InitIInv, InitHInv, InitDInv, Zenon
<1>3. IInv /\ HInv /\ DInv /\ [Next]_vars => (IInv /\ HInv /\ DInv)'
  BY <1>1, NextIInv, NextHInv, NextDInv, Zenon
<1> QED
  BY <1>2, <1>3, PTL DEF Spec

\* One thread: a get returns what was last stored in the block, for any number
\* of buffers and blocks and any mix of hits, replacements, discards, dirty and
\* clean releases and flushes; no update is lost and no freed data comes back.
THEOREM CacheCoherent ==
  ASSUME OneThread
  PROVE  Spec => []Coherent
<1>1. IInv /\ HInv /\ DInv => Coherent
  <2> SUFFICES ASSUME IInv, DInv, NEW k \in Keys, contents[k] # Freed
               PROVE  LET cached == {b \in HashLookup(k) :
                                       bc[b].load \/ bc[b].dirty}
                      IN  IF cached = {} THEN disk[k] = contents[k]
                          ELSE \A b \in cached : bc[b].buf = contents[k]
    BY Zenon DEF Coherent
  <2>1. k # NoKey
    BY ConstantsAssumption, Zenon
  <2>2. \A b \in HashLookup(k) : b \in Bcs /\ bc[b].bno = k /\ Sound(b)
    BY Zenon DEF HashLookup, DInv
  <2>3. \A b \in HashLookup(k) :
          bc[b].load \/ bc[b].dirty => bc[b].buf = contents[k]
    BY <2>1, <2>2, Zenon DEF Sound
  <2>4. ASSUME \A b \in HashLookup(k) : ~(bc[b].load \/ bc[b].dirty)
        PROVE  disk[k] = contents[k]
    <3>1. CASE HashLookup(k) = {}
      BY <3>1, Zenon DEF DInv, Uncached, HashLookup
    <3>2. CASE HashLookup(k) # {}
      <4>1. PICK b \in HashLookup(k) : TRUE
        BY <3>2, Zenon
      <4> QED
        BY <2>1, <2>2, <2>4, <4>1, Zenon DEF Sound, OnDisk
    <3> QED
      BY <3>1, <3>2, Zenon
  <2> QED
    BY <2>3, <2>4, Zenon
<1> QED
  BY <1>1, DataInvariant, PTL

\* A step of the cache is a step of the block store: a store, the end of a
\* block, a write of what was last stored in a block, or none of these.
LEMMA StoreStep ==
  ASSUME OneThread, IInv, HInv, DInv, [Next]_vars
  PROVE  [Store!Next]_<<contents, disk>>
<1>1. CASE UNCHANGED vars
  BY <1>1, Zenon DEF vars
<1>2. ASSUME NEW t \in Threads, Fill(t)
      PROVE  [Store!Next]_<<contents, disk>>
  <2>1. bc[cur[t]].bno \in Keys
    BY <1>2, Zenon DEF Fill, IInv, TypeOK, CurKeyed, PcCur, BcType
  <2>2. disk' = disk
    BY <1>2, Zenon DEF Fill, flushVars
  <2>3. \/ contents' = contents
        \/ contents' = [contents EXCEPT ![bc[cur[t]].bno] = Zero]
    BY <1>2, Zenon DEF Fill
  <2> QED
    BY <2>1, <2>2, <2>3, ConstantsAssumption, Zenon DEF Store!Next, Store!Store
<1>3. ASSUME NEW t \in Threads, NEW b \in held[t], NEW v \in Vals,
             Modify(t, b, v)
      PROVE  [Store!Next]_<<contents, disk>>
  <2>1. bc[b].bno \in Keys
    BY Zenon DEF IInv, TypeOK, HeldKeyed, BcType
  <2> QED
    BY <1>3, <2>1, Zenon DEF Modify, flushVars, Store!Next, Store!Store
<1>4. ASSUME NEW t \in Threads, NEW k \in Keys, Discard(t, k)
      PROVE  [Store!Next]_<<contents, disk>>
  BY <1>4, Zenon DEF Discard, flushVars, Store!Next, Store!Free
<1>5. ASSUME NEW t \in Threads, NEW j \in jobs[t], FlushIo(t, j)
      PROVE  [Store!Next]_<<contents, disk>>
  <2>1. /\ j.key \in Keys /\ contents[j.key] # Freed
        /\ bc[j.bc].buf = contents[j.key]
    BY <1>5, JobCurrent, Zenon DEF FlushIo
  <2> QED
    BY <1>5, <2>1, Zenon DEF FlushIo, keepCache, Store!Next, Store!Persist
<1>6. ASSUME NEW t \in Threads,
             \/ \E k \in Keys, read \in BOOLEAN : Find(t, k, read)
             \/ FindLock(t)
             \/ \E b \in held[t], dirty \in BOOLEAN : Release(t, b, dirty)
             \/ ReleaseUnlock(t) \/ ReleaseCheckRef(t) \/ ReleaseMove(t)
             \/ DiscardLock(t)
      PROVE  UNCHANGED <<contents, disk>>
  BY <1>6, Zenon
  DEF Find, FindLock, Release, ReleaseUnlock, ReleaseCheckRef, ReleaseMove,
      DiscardLock, flushVars
<1>7. ASSUME NEW t \in Threads,
             \/ FlushStart(t) \/ FlushCheck(t) \/ FlushLock(t)
             \/ FlushCollected(t) \/ SyncLock(t) \/ SyncSubmit(t)
             \/ FlushIoDone(t) \/ CleanLock(t) \/ Cleaned(t) \/ FlushEnd(t)
      PROVE  UNCHANGED <<contents, disk>>
  BY <1>7, Zenon
  DEF FlushStart, FlushCheck, FlushLock, FlushCollected, SyncLock, SyncSubmit,
      FlushIoDone, CleanLock, Cleaned, FlushEnd, flushVars, keepCache
<1>8. ASSUME NEW t \in Threads, NEW b \in Bcs,
             FlushCollect(t, b) \/ SyncFill(t, b) \/ Clean(t, b)
      PROVE  UNCHANGED <<contents, disk>>
  BY <1>8, Zenon DEF FlushCollect, SyncFill, Clean, flushVars, keepCache
<1> QED
  BY <1>1, <1>2, <1>3, <1>4, <1>5, <1>6, <1>7, <1>8, Zenon DEF Next, Flush

\* One thread: the cache implements the block store.  Whatever it replaces,
\* discards or flushes, the device only ever receives what was last stored in
\* an allocated block.
THEOREM StoreImplemented ==
  ASSUME OneThread
  PROVE  Spec => ImplementsBlockStore
<1>1. Init => Store!Init
  BY Zenon DEF Init, Store!Init
<1>2. IInv /\ HInv /\ DInv /\ [Next]_vars => [Store!Next]_<<contents, disk>>
  BY StoreStep, Zenon
<1> QED
  BY <1>1, <1>2, DataInvariant, PTL DEF Spec, ImplementsBlockStore, Store!Spec

=============================================================================
