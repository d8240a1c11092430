---------------------------- MODULE BufferCache ----------------------------
(***************************************************************************)
(* The write-back buffer cache (nvfuse_buffer_cache.c) and the flush of    *)
(* dirty buffers to the device (nvfuse_core.c): threads that get, modify,  *)
(* release and discard buffers, and flush them, under the two levels of    *)
(* spin locks the code uses: bm_lock for the lists and the hash, and       *)
(* bc_lock for each buffer.                                                *)
(*                                                                         *)
(* A step is one stretch of code that no other thread can observe half     *)
(* done: it ends where the code takes a lock it may have to wait for,      *)
(* drops a lock, or starts or ends device I/O.                             *)
(*                                                                         *)
(* Data abstractions: a block's data is one value; the list a buffer is on *)
(* is a field, its position there is not kept, so a victim is any          *)
(* unreferenced buffer of the list the code picks; a key's physical block  *)
(* is the key itself.                                                      *)
(***************************************************************************)
EXTENDS Integers, FiniteSets

CONSTANTS
  Threads,    \* the application threads that share one nvfuse handle
  Flushers,   \* the threads that call nvfuse_check_flush_dirty
  Bcs,        \* the buffers of the cache
  Keys,       \* block keys: inode number and logical block number
  SharedKeys, \* keys of blocks no inode lock protects (bitmaps, descriptors)
  Vals,       \* the data a block may hold
  Zero,       \* what memset leaves in a new block
  QDepth,     \* AIO_MAX_QDEPTH: the buffers of one flush round
  MaxHeld,    \* bound: the buffers a thread holds at a time
  Nobody, NoKey, NoBc, Freed

ASSUME ConstantsAssumption ==
  /\ Flushers \subseteq Threads
  /\ SharedKeys \subseteq Keys
  /\ Zero \in Vals
  /\ QDepth \in Nat \ {0}
  /\ MaxHeld \in Nat
  /\ Nobody \notin Threads
  /\ NoKey \notin Keys
  /\ NoBc \notin Bcs
  /\ Freed \notin Vals

VARIABLES
  bm_lock,     \* the owner of bm->bm_lock
  bc,          \* struct nvfuse_buffer_cache of every buffer
  disk,        \* the data of every block on the device
  pc,          \* where each thread is
  cur,         \* the buffer the call in progress works on
  arg,         \* the flag of the call in progress: sync_read of a get, dirty of
               \* a release
  held,        \* the buffers each thread has got and not released
  num_blocks,  \* flushing_count of the flush in progress
  jobs,        \* the write jobs of the flush in progress
  contents     \* what the file system last stored in each block

vars == <<bm_lock, bc, disk, pc, cur, arg, held, num_blocks, jobs, contents>>
flushVars == <<disk, num_blocks, jobs>>

ListTypes == {"unused", "ref", "clean", "dirty", "flushing"}

Jobs == [bc : Bcs, key : Keys]

\* The points where a thread waits for a lock, or can be interrupted.  A
\* thread never leaves "self_lock" (spinning on a lock it owns itself) and
\* "sleep" (for ever), nor a failed assertion; the others may go on, which is
\* more than the program does after an assertion.
PcBmHeld == {"find_wait", "unused_wait", "collect", "fill_jobs", "clean",
             "self_lock", "sleep"}
PcReleasing == {"rel_unlock", "rel_dirty", "rel_ref", "rel_clean"}
Pcs == PcBmHeld \cup PcReleasing \cup
  {"idle", "fill", "fl_check", "fl_lock", "sync_lock", "io", "clean_lock",
   "fl_end", "assert_ref", "assert_release", "assert_flush",
   "assert_replace"}

\* struct nvfuse_buffer_cache.
BcType == [list : ListTypes, bno : Keys \cup {NoKey}, dirty : BOOLEAN,
           load : BOOLEAN, flush : BOOLEAN, ref : {0, 1},
           lock : Threads \cup {Nobody}, buf : Vals]

TypeOK ==
  /\ bm_lock \in Threads \cup {Nobody}
  /\ bc \in [Bcs -> BcType]
  /\ disk \in [Keys -> Vals]
  /\ pc \in [Threads -> Pcs]
  /\ cur \in [Threads -> Bcs \cup {NoBc}]
  /\ arg \in [Threads -> BOOLEAN]
  /\ held \in [Threads -> SUBSET Bcs]
  /\ num_blocks \in [Threads -> Nat]
  /\ jobs \in [Threads -> SUBSET Jobs]
  /\ contents \in [Keys -> Vals \cup {Freed}]

\* nvfuse_init_buffer_cache: every buffer is new and on the unused list.
Init ==
  /\ bm_lock = Nobody
  /\ bc = [b \in Bcs |-> [list |-> "unused", bno |-> NoKey, dirty |-> FALSE,
                          load |-> FALSE, flush |-> FALSE, ref |-> 0,
                          lock |-> Nobody, buf |-> Zero]]
  /\ disk = [k \in Keys |-> Zero]
  /\ pc = [t \in Threads |-> "idle"]
  /\ cur = [t \in Threads |-> NoBc]
  /\ arg = [t \in Threads |-> FALSE]
  /\ held = [t \in Threads |-> {}]
  /\ num_blocks = [t \in Threads |-> 0]
  /\ jobs = [t \in Threads |-> {}]
  /\ contents = [k \in Keys |-> Zero]

-----------------------------------------------------------------------------
OnList(type) == {b \in Bcs : bc[b].list = type}

Goto(t, point) == pc' = [pc EXCEPT ![t] = point]

\* The call returns: its arguments and locals are gone.
Return(t) ==
  /\ Goto(t, "idle")
  /\ cur' = [cur EXCEPT ![t] = NoBc]
  /\ arg' = [arg EXCEPT ![t] = FALSE]

\* Variant: discarded buffers are taken out of the hash's sight.
HashLookupUsed(k) == {b \in Bcs : bc[b].bno = k /\ bc[b].list # "unused"}

\* nvfuse_hash_lookup: the buffers of the key's bucket that carry the key.
HashLookup(k) == {b \in Bcs : bc[b].bno = k}

\* Thread t is between the get and the end of the release of key k.
Using(t, k) ==
  \/ \E b \in held[t] : bc[b].bno = k
  \/ /\ pc[t] \in {"find_wait", "unused_wait"} \cup PcReleasing
     /\ bc[cur[t]].bno = k

\* Callers hold the lock of the inode a block belongs to from before the get
\* until after the release; they never get a block they already hold.
MayUse(t, k) ==
  /\ k \notin SharedKeys => \A u \in Threads \ {t} : ~Using(u, k)
  /\ ~Using(t, k)

-----------------------------------------------------------------------------
(* Getting a buffer: nvfuse_find_bc and nvfuse_get_bc.                      *)

\* nvfuse_replace_buffer_cache: the list the victim is taken from, and the
\* buffers of it that are not referenced.
ReplaceList ==
  IF OnList("unused") # {} THEN "unused"
  ELSE IF OnList("clean") # {} THEN "clean" ELSE "dirty"
Victims(type) == {b \in OnList(type) : bc[b].ref = 0}

\* Variant: bc_load survives the replacement.
InitBcKeepLoad(b, k) ==
  [bc EXCEPT ![b] = [@ EXCEPT !.list = "ref", !.bno = k, !.dirty = FALSE,
                              !.ref = 0, !.lock = Nobody]]

\* nvfuse_init_bc and the insertion under the new key; bc_flush is left alone.
InitBc(b, k) ==
  [bc EXCEPT ![b] = [@ EXCEPT !.list = "ref", !.bno = k, !.dirty = FALSE,
                              !.load = FALSE, !.ref = 0, !.lock = Nobody,
                              !.buf = Zero]]

\* nvfuse_find_bc up to the point where it takes bc_lock: it holds bm_lock.
\* With no unused and no clean buffer left the code flushes the dirty ones,
\* and the flush takes bm_lock again; with no dirty buffer either, the code
\* asserts; with only referenced buffers on the list it sleeps for ever.
FindHit(t, k) ==
  /\ \E b \in HashLookup(k) : cur' = [cur EXCEPT ![t] = b]
  /\ Goto(t, "find_wait")
  /\ UNCHANGED bc

FindMiss(t, k) ==
  /\ HashLookup(k) = {}
  /\ \/ /\ ReplaceList # "dirty"
        /\ \E b \in Victims(ReplaceList) :
             /\ bc' = InitBc(b, k)
             /\ cur' = [cur EXCEPT ![t] = b]
             /\ Goto(t, "find_wait")
     \/ /\ ReplaceList # "dirty"
        /\ Victims(ReplaceList) = {}
        /\ Goto(t, "sleep")
        /\ UNCHANGED <<bc, cur>>
     \/ /\ ReplaceList = "dirty"
        /\ Goto(t, IF OnList("dirty") = {} THEN "assert_replace"
                   ELSE "self_lock")
        /\ UNCHANGED <<bc, cur>>

Find(t, k, read) ==
  /\ pc[t] = "idle"
  /\ bm_lock = Nobody
  /\ Cardinality(held[t]) < MaxHeld
  /\ MayUse(t, k)
  /\ read => contents[k] # Freed
  /\ bm_lock' = t
  /\ arg' = [arg EXCEPT ![t] = read]
  /\ FindHit(t, k) \/ FindMiss(t, k)
  /\ UNCHANGED <<held, contents, flushVars>>

\* Variant: the buffer is left on the list where the get found it.
FindLockNoMove(t) ==
  LET b == cur[t] IN
  /\ pc[t] = "find_wait"
  /\ bc[b].lock = Nobody
  /\ bc' = [bc EXCEPT ![b].lock = t, ![b].ref = 1]
  /\ held' = [held EXCEPT ![t] = @ \cup {b}]
  /\ bm_lock' = Nobody
  /\ Goto(t, "fill")
  /\ UNCHANGED <<cur, arg, contents, flushVars>>

\* The rest of nvfuse_find_bc: bc_lock, the reference, which must be the only
\* one, the move to the ref list; bm_lock is dropped and bc_lock kept.
FindLock(t) ==
  LET b == cur[t] IN
  /\ pc[t] = "find_wait"
  /\ bc[b].lock = Nobody
  /\ IF bc[b].ref = 0
     THEN /\ bc' = [bc EXCEPT ![b].lock = t, ![b].ref = 1, ![b].list = "ref"]
          /\ held' = [held EXCEPT ![t] = @ \cup {b}]
          /\ bm_lock' = Nobody
          /\ Goto(t, "fill")
     ELSE /\ Goto(t, "assert_ref")
          /\ UNCHANGED <<bc, held, bm_lock>>
  /\ UNCHANGED <<cur, arg, contents, flushVars>>

\* nvfuse_get_bc reads a block that is not loaded; nvfuse_get_new_bh clears
\* the buffer and marks it dirty.  A get without a read by a caller that
\* overwrites the whole block is a get of a new block and a Modify.
Fill(t) ==
  LET b == cur[t]
      k == bc[b].bno
  IN
  /\ pc[t] = "fill"
  /\ \/ /\ arg[t]
        /\ bc' = IF bc[b].load THEN bc
                 ELSE [bc EXCEPT ![b].buf = disk[k], ![b].load = TRUE]
        /\ UNCHANGED contents
     \/ /\ ~arg[t]
        /\ bc' = [bc EXCEPT ![b].buf = Zero, ![b].dirty = TRUE]
        /\ contents' = [contents EXCEPT ![k] = Zero]
  /\ Return(t)
  /\ UNCHANGED <<bm_lock, held, flushVars>>

\* A caller changes the data of a buffer it holds: nvfuse_mark_dirty_bh.
Modify(t, b, v) ==
  /\ pc[t] = "idle"
  /\ b \in held[t]
  /\ bc' = [bc EXCEPT ![b].buf = v, ![b].dirty = TRUE]
  /\ contents' = [contents EXCEPT ![bc[b].bno] = v]
  /\ UNCHANGED <<bm_lock, pc, cur, arg, held, flushVars>>

-----------------------------------------------------------------------------
(* Releasing a buffer: nvfuse_release_bh and nvfuse_release_bc.             *)

\* Variant: bc_ref is not decremented.
ReleaseKeepRef(t, b, dirty) ==
  /\ pc[t] = "idle"
  /\ b \in held[t]
  /\ Goto(t, "rel_unlock")
  /\ held' = [held EXCEPT ![t] = @ \ {b}]
  /\ cur' = [cur EXCEPT ![t] = b]
  /\ arg' = [arg EXCEPT ![t] = dirty]
  /\ UNCHANGED <<bm_lock, bc, contents, flushVars>>

\* nvfuse_dec_bc_ref: from here on the replacement may take the buffer,
\* although its bc_lock is still held.
Release(t, b, dirty) ==
  /\ pc[t] = "idle"
  /\ b \in held[t]
  /\ IF bc[b].ref > 0
     THEN /\ bc' = [bc EXCEPT ![b].ref = @ - 1]
          /\ Goto(t, "rel_unlock")
     ELSE /\ Goto(t, "assert_ref")
          /\ UNCHANGED bc
  /\ held' = [held EXCEPT ![t] = @ \ {b}]
  /\ cur' = [cur EXCEPT ![t] = b]
  /\ arg' = [arg EXCEPT ![t] = dirty]
  /\ UNCHANGED <<bm_lock, contents, flushVars>>

\* Variant: only the caller's dirty flag decides the list.
ReleaseCallerFlag(t) ==
  LET b == cur[t] IN
  /\ pc[t] = "rel_unlock"
  /\ bc' = [bc EXCEPT ![b].lock = Nobody, ![b].dirty = @ \/ arg[t],
                      ![b].load = @ \/ arg[t]]
  /\ Goto(t, IF arg[t] THEN "rel_dirty" ELSE "rel_ref")
  /\ UNCHANGED <<bm_lock, cur, arg, held, contents, flushVars>>

\* The flags, and the unlock of bc_lock.
ReleaseUnlock(t) ==
  LET b == cur[t]
      dirty == arg[t] \/ bc[b].dirty
  IN
  /\ pc[t] = "rel_unlock"
  /\ bc' = [bc EXCEPT ![b].lock = Nobody, ![b].dirty = dirty,
                      ![b].load = @ \/ dirty]
  /\ Goto(t, IF dirty THEN "rel_dirty" ELSE "rel_ref")
  /\ UNCHANGED <<bm_lock, cur, arg, held, contents, flushVars>>

\* A clean release reads bc_ref after it has dropped bc_lock; the other
\* branch is assert(0).
ReleaseCheckRef(t) ==
  /\ pc[t] = "rel_ref"
  /\ Goto(t, IF bc[cur[t]].ref = 0 THEN "rel_clean" ELSE "assert_release")
  /\ UNCHANGED <<bm_lock, bc, cur, arg, held, contents, flushVars>>

\* nvfuse_move_buffer_list: the move, under bm_lock.
ReleaseMove(t) ==
  /\ pc[t] \in {"rel_dirty", "rel_clean"}
  /\ bm_lock = Nobody
  /\ bc' = [bc EXCEPT ![cur[t]].list =
                IF pc[t] = "rel_dirty" THEN "dirty" ELSE "clean"]
  /\ Return(t)
  /\ UNCHANGED <<bm_lock, held, contents, flushVars>>

-----------------------------------------------------------------------------
(* Discarding the buffer of a truncated block: nvfuse_free_inode_size and   *)
(* nvfuse_move_bc_to_unused_list.  The buffer stays in the hash.            *)

Discard(t, k) ==
  /\ pc[t] = "idle"
  /\ bm_lock = Nobody
  /\ k \notin SharedKeys
  /\ MayUse(t, k)
  /\ contents[k] # Freed
  /\ contents' = [contents EXCEPT ![k] = Freed]
  /\ \/ /\ HashLookup(k) = {}
        /\ UNCHANGED <<bm_lock, pc, cur>>
     \/ \E b \in HashLookup(k) :
          /\ bm_lock' = t
          /\ cur' = [cur EXCEPT ![t] = b]
          /\ Goto(t, "unused_wait")
  /\ UNCHANGED <<bc, arg, held, flushVars>>

DiscardLock(t) ==
  /\ pc[t] = "unused_wait"
  /\ bc[cur[t]].lock = Nobody
  /\ bc' = [bc EXCEPT ![cur[t]] = [@ EXCEPT !.load = FALSE, !.dirty = FALSE,
                                            !.ref = 0, !.list = "unused"]]
  /\ bm_lock' = Nobody
  /\ Return(t)
  /\ UNCHANGED <<held, contents, flushVars>>

-----------------------------------------------------------------------------
(* Flushing: nvfuse_check_flush_dirty, nvfuse_flush_dirty_data and          *)
(* nvfuse_sync_dirty_data.                                                  *)

keepCache == <<cur, arg, held, contents>>

\* A caller forces the flush, or the dirty count has reached its limit.
FlushStart(t) ==
  /\ pc[t] = "idle"
  /\ t \in Flushers
  /\ OnList("dirty") # {}
  /\ Goto(t, "fl_check")
  /\ UNCHANGED <<bm_lock, bc, keepCache, flushVars>>

\* The loop condition reads the dirty count without bm_lock.
FlushCheck(t) ==
  /\ pc[t] = "fl_check"
  /\ Goto(t, IF OnList("dirty") = {} THEN "fl_end" ELSE "fl_lock")
  /\ UNCHANGED <<bm_lock, bc, keepCache, flushVars>>

FlushLock(t) ==
  /\ pc[t] = "fl_lock"
  /\ bm_lock = Nobody
  /\ bm_lock' = t
  /\ Goto(t, "collect")
  /\ UNCHANGED <<bc, flushVars, keepCache>>

\* Variant: bc_flush is not set.
FlushCollectUnmarked(t, b) ==
  /\ pc[t] = "collect"
  /\ b \in OnList("dirty")
  /\ num_blocks[t] < QDepth
  /\ bc[b].lock = Nobody
  /\ bc' = [bc EXCEPT ![b].list = "flushing"]
  /\ num_blocks' = [num_blocks EXCEPT ![t] = @ + 1]
  /\ UNCHANGED <<bm_lock, pc, disk, jobs, keepCache>>

\* Collect dirty data: one buffer of the dirty list, under its bc_lock.
FlushCollect(t, b) ==
  /\ pc[t] = "collect"
  /\ b \in OnList("dirty")
  /\ num_blocks[t] < QDepth
  /\ bc[b].lock = Nobody
  /\ IF bc[b].dirty
     THEN /\ bc' = [bc EXCEPT ![b].flush = TRUE, ![b].list = "flushing"]
          /\ num_blocks' = [num_blocks EXCEPT ![t] = @ + 1]
          /\ UNCHANGED pc
     ELSE /\ Goto(t, "assert_flush")
          /\ UNCHANGED <<bc, num_blocks>>
  /\ UNCHANGED <<bm_lock, disk, jobs, keepCache>>

\* Variant: the pass does not stop at the depth of the queue.
FlushCollectedAll(t) ==
  /\ pc[t] = "collect"
  /\ OnList("dirty") = {}
  /\ bm_lock' = Nobody
  /\ Goto(t, "sync_lock")
  /\ UNCHANGED <<bc, flushVars, keepCache>>

FlushCollected(t) ==
  /\ pc[t] = "collect"
  /\ OnList("dirty") = {} \/ num_blocks[t] = QDepth
  /\ bm_lock' = Nobody
  /\ Goto(t, "sync_lock")
  /\ UNCHANGED <<bc, flushVars, keepCache>>

\* nvfuse_sync_dirty_data takes bm_lock again and fills one job for every
\* buffer that is on the flushing list by then.
SyncLock(t) ==
  /\ pc[t] = "sync_lock"
  /\ bm_lock = Nobody
  /\ bm_lock' = t
  /\ Goto(t, "fill_jobs")
  /\ UNCHANGED <<bc, flushVars, keepCache>>

JobOf(b) == [bc |-> b, key |-> bc[b].bno]
Unfilled(t) == {b \in OnList("flushing") : JobOf(b) \notin jobs[t]}

\* jobs[] has num_blocks entries; filling one more goes through a pointer
\* nobody set.
SyncFill(t, b) ==
  /\ pc[t] = "fill_jobs"
  /\ b \in Unfilled(t)
  /\ bc[b].lock = Nobody
  /\ IF bc[b].dirty /\ bc[b].flush /\ Cardinality(jobs[t]) < num_blocks[t]
     THEN /\ jobs' = [jobs EXCEPT ![t] = @ \cup {JobOf(b)}]
          /\ UNCHANGED pc
     ELSE /\ Goto(t, "assert_flush")
          /\ UNCHANGED jobs
  /\ UNCHANGED <<bm_lock, bc, disk, num_blocks, keepCache>>

\* num_blocks jobs are submitted.  When fewer were filled the others still
\* hold the buffer and the block of some earlier write; a job that was never
\* used has no iovec, which the reactor asserts against.
SyncSubmit(t) ==
  LET stale == num_blocks[t] - Cardinality(jobs[t]) IN
  /\ pc[t] = "fill_jobs"
  /\ Unfilled(t) = {}
  /\ bm_lock' = Nobody
  /\ \/ /\ num_blocks[t] > 0
        /\ \E old \in SUBSET Jobs :
             /\ IsFiniteSet(old)
             /\ Cardinality(old) <= stale
             /\ stale > 0 => old # {}
             /\ jobs' = [jobs EXCEPT ![t] = @ \cup old]
        /\ Goto(t, "io")
     \/ /\ num_blocks[t] = 0 \/ stale > 0
        /\ Goto(t, "assert_flush")
        /\ UNCHANGED jobs
  /\ UNCHANGED <<bc, disk, num_blocks, keepCache>>

\* The device performs one write; the data is what the buffer holds then.
FlushIo(t, j) ==
  /\ pc[t] = "io"
  /\ j \in jobs[t]
  /\ disk' = [disk EXCEPT ![j.key] = bc[j.bc].buf]
  /\ jobs' = [jobs EXCEPT ![t] = @ \ {j}]
  /\ UNCHANGED <<bm_lock, bc, pc, num_blocks, keepCache>>

FlushIoDone(t) ==
  /\ pc[t] = "io"
  /\ jobs[t] = {}
  /\ num_blocks' = [num_blocks EXCEPT ![t] = 0]
  /\ Goto(t, "clean_lock")
  /\ UNCHANGED <<bm_lock, bc, disk, jobs, keepCache>>

\* Move to the clean list every buffer that is on the flushing list by then.
CleanLock(t) ==
  /\ pc[t] = "clean_lock"
  /\ bm_lock = Nobody
  /\ bm_lock' = t
  /\ Goto(t, "clean")
  /\ UNCHANGED <<bc, flushVars, keepCache>>

Clean(t, b) ==
  /\ pc[t] = "clean"
  /\ b \in OnList("flushing")
  /\ bc[b].lock = Nobody
  /\ IF bc[b].dirty
     THEN /\ bc' = [bc EXCEPT ![b].dirty = FALSE, ![b].flush = FALSE,
                              ![b].list = "clean"]
          /\ UNCHANGED pc
     ELSE /\ Goto(t, "assert_flush")
          /\ UNCHANGED bc
  /\ UNCHANGED <<bm_lock, flushVars, keepCache>>

Cleaned(t) ==
  /\ pc[t] = "clean"
  /\ OnList("flushing") = {}
  /\ bm_lock' = Nobody
  /\ Goto(t, "fl_check")
  /\ UNCHANGED <<bc, flushVars, keepCache>>

\* reactor_sync_flush, and the return to the caller.
FlushEnd(t) ==
  /\ pc[t] = "fl_end"
  /\ Goto(t, "idle")
  /\ UNCHANGED <<bm_lock, bc, flushVars, keepCache>>

-----------------------------------------------------------------------------
Flush(t) ==
  \/ FlushStart(t) \/ FlushCheck(t) \/ FlushLock(t) \/ FlushCollected(t)
  \/ SyncLock(t) \/ SyncSubmit(t) \/ FlushIoDone(t) \/ CleanLock(t)
  \/ Cleaned(t) \/ FlushEnd(t)
  \/ \E b \in Bcs : FlushCollect(t, b) \/ SyncFill(t, b) \/ Clean(t, b)
  \/ \E j \in jobs[t] : FlushIo(t, j)

Next == \E t \in Threads :
  \/ \E k \in Keys, read \in BOOLEAN : Find(t, k, read)
  \/ FindLock(t) \/ Fill(t)
  \/ \E b \in held[t], v \in Vals : Modify(t, b, v)
  \/ \E b \in held[t], dirty \in BOOLEAN : Release(t, b, dirty)
  \/ ReleaseUnlock(t) \/ ReleaseCheckRef(t) \/ ReleaseMove(t)
  \/ \E k \in Keys : Discard(t, k)
  \/ DiscardLock(t)
  \/ Flush(t)

Spec == Init /\ [][Next]_vars

-----------------------------------------------------------------------------
(* Properties                                                              *)

\* Between nvfuse_get_bh and the end of nvfuse_release_bh a buffer has one
\* user: the thread that has it owns its bc_lock and nobody else does, and
\* bc_ref, which the replacement reads without bc_lock, is 1 exactly while a
\* thread has got it.
HolderExclusive ==
  \A b \in Bcs :
    /\ \A t \in Threads :
         bc[b].lock = t <=> b \in held[t] \/ (pc[t] = "rel_unlock" /\ cur[t] = b)
    /\ bc[b].ref = 1 <=> \E t \in Threads : b \in held[t]

\* The hash never holds two buffers for one key, whatever mix of misses,
\* replacements and discards led there: two threads that get the same block
\* share its buffer.
KeyUnique ==
  \A a, b \in Bcs : bc[a].bno = bc[b].bno /\ bc[a].bno # NoKey => a = b

\* Thread t has buffer b, or is in the middle of a call that works on it.
InCall(t, b) ==
  cur[t] = b /\ pc[t] \in {"find_wait", "fill", "unused_wait"} \cup PcReleasing
UsedBy(t, b) == b \in held[t] \/ InCall(t, b)

\* The replacement never takes a buffer away from a thread that has it, is
\* about to lock it, or is still releasing it: the buffer keeps its key.
HeldKeepsKey ==
  [][\A t \in Threads, b \in Bcs :
       UsedBy(t, b) => bc'[b].bno = bc[b].bno]_vars

\* A get returns what was last stored in the block: a loaded or dirty buffer
\* holds it, and with no such buffer the device does.  Replacement, discard
\* and flush lose no update.
Coherent ==
  \A k \in Keys :
    LET cached == {b \in HashLookup(k) : bc[b].load \/ bc[b].dirty} IN
    contents[k] # Freed =>
      IF cached = {} THEN disk[k] = contents[k]
      ELSE \A b \in cached : bc[b].buf = contents[k]

\* A thread is in a pass of the flush, or has failed an assertion there.
PcPass == {"collect", "sync_lock", "fill_jobs", "io", "clean_lock", "clean", "assert_flush"}

\* When nvfuse_check_flush_dirty leaves its loop, every buffer that is still
\* dirty is in use or is being written by the pass of another thread, with
\* which the list of flushed buffers is shared: no dirty buffer is stranded on
\* a list that no flush visits any more.
FlushLeavesNoDirty ==
  [][\A t \in Threads :
       pc[t] = "fl_check" /\ pc'[t] = "fl_end"
         => \A b \in Bcs : bc[b].dirty =>
              \/ \E u \in Threads : UsedBy(u, b)
              \/ /\ b \in OnList("flushing")
                 /\ \E u \in Threads : pc[u] \in PcPass]_vars

\* Every buffer nvfuse_deinit_buffer_cache or the replacement may drop
\* without writing it (the unused and the clean list) has no unwritten data.
CleanListIsClean ==
  \A b \in OnList("clean") \cup OnList("unused") :
    bc[b].dirty => \E t \in Threads : UsedBy(t, b)

\* nvfuse_inc_bc_ref asserts that the reference a get takes is the only one,
\* and nvfuse_dec_bc_ref that there was one to give up.
RefAssert == \A t \in Threads : pc[t] # "assert_ref"

\* nvfuse_release_bc asserts that a buffer it released clean has no other
\* reference by the time it looks.
ReleaseAssert == \A t \in Threads : pc[t] # "assert_release"

\* The assertions of the cache on bc_ref hold, in a get and in a release.
RefsHold == RefAssert /\ ReleaseAssert

\* What the flush asserts of the buffers it visits holds (they are dirty, and
\* marked by its first pass), it has at least one block to write, and it
\* submits no I/O job that it did not fill for a buffer.
FlushAssert == \A t \in Threads : pc[t] # "assert_flush"

\* The cache is a block store: whatever it replaces, discards or flushes, the
\* device only ever receives what was last stored in a block.
Store == INSTANCE BlockStore
ImplementsBlockStore == Store!Spec

\* A forced flush of a single thread comes to its end.
FlushTerminates ==
  \A t \in Threads : pc[t] = "fl_check" ~> pc[t] = "idle"
====
