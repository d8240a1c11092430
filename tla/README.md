# NVFUSE in TLA+

NVFUSE is a user-space file system for NVMe devices. Application threads call
a POSIX-like layer (`nvfuse_api.c`), which works on inodes and blocks through
an inode cache and a write-back buffer cache. Blocks reach the device through a
*reactor core*: a polling SPDK thread that other threads talk to over pairs of
rings. Files opened for direct I/O bypass the buffer cache with an asynchronous
queue. Several processes may share a device; a control plane process then hands
out containers of block groups over IPC rings.

This directory models those parts as TLA+ modules, checks them with TLC on
small instances and proves the properties that matter most with TLAPS.

## The parts of the system

| Part | Source | Module |
|---|---|---|
| Buffer cache and dirty data flush | `nvfuse_buffer_cache.c`, `nvfuse_core.c` | `BufferCache` |
| The block store the cache promises | | `BlockStore` |
| Rings of a reactor task | `nvfuse_reactor.c` | `ReactorTask` |
| Synchronous block I/O | `nvfuse_reactor.c` | `SyncIo` |
| The service synchronous I/O promises | | `IoService` |
| Asynchronous direct I/O | `nvfuse_aio.c` | `AioQueue` |
| Inode cache | `nvfuse_inode_cache.c`, `nvfuse_core.c` | `InodeCache` |
| B+tree file and directory index | `nvfuse_bp_tree.c`, `nvfuse_core.c` | `BpTree`, `DirIndex` |
| Directories and the POSIX layer | `nvfuse_api.c`, `nvfuse_core.c` | `Directory` |
| The tree of names directories promise | | `Namespace` |
| Block groups and their bitmaps | `nvfuse_core.c` | `BlockGroups` |
| Files: block map, data path, truncation | `nvfuse_indirect.c`, `nvfuse_core.c`, `nvfuse_api.c` | `FileMap` |
| The sequence of blocks a file promises | | `BlockMap` |
| Control plane: containers, reservations, log | `nvfuse_control_plane.c`, `nvfuse_core.c` | `ControlPlane` |
| Processes, IPC rings, mount and umount | `nvfuse_ipc_ring.c`, `nvfuse_core.c`, `nvfuse_api.c` | `DataPlane` |

`PROJECT.json` lists every part with what is left out of it, the lines each
definition stands for, and the hazards of the code with the properties that
cover them.

## How the modules are written

A step of a module is a stretch of code that no other thread can observe half
done. It ends where the code takes a lock it may have to wait for, drops a
lock, or starts or ends device I/O. Locks are variables that hold their owner.
A failed `assert` is a program counter value (`"assert_..."`), so that "this
assertion never fails" is an invariant.

The data a property does not tell apart is abstracted: a block's contents is
one value, a position in an LRU list is not kept (so a victim is any buffer the
code could pick), requests carry no offset. Definitions whose comment begins
with "Variant" are not part of a specification: each is a plausible mistake in
the definition that follows it, and shows that a property can see it.

Related invariants are stated one by one and checked as one, under the name of
their conjunction (`RequestsAccounted`, `JobsCounted`, `OneContext`,
`EntriesSound`, `SpaceAccounted`, `MapExact`, `Accounted`, `LeasesSound`, ...); the
type invariant of a module is part of one of them.

## BufferCache

`bc[b]` is `struct nvfuse_buffer_cache`; `bm_lock` and `bc[b].lock` are the two
levels of spin locks; `disk` is the device; `contents` is what the file system
last stored in each block and exists only for the properties. A get is `Find`
(lookup or replacement, under `bm_lock`), `FindLock` (`bc_lock`, the reference,
the move to the ref list) and `Fill`; a release is `Release`, `ReleaseUnlock`,
`ReleaseCheckRef` and `ReleaseMove`, between which other threads run, because
the code drops `bc_lock` before it looks at the reference count and before it
moves the buffer. `Discard` is the truncation of a block. A flush collects up
to `QDepth` buffers, fills jobs, writes, and moves the buffers to the clean
list, again and again until no buffer is dirty.

`SharedKeys` are the blocks that no inode lock protects: bitmaps and block
group descriptors. For the others a caller holds the lock of the inode from
before the get until after the release (`MayUse`).

| Run | What it shows |
|---|---|
| `cache_store` | One thread, 2 buffers, 3 blocks, 2 values: a get returns what was last stored (`Coherent`), the cache implements `BlockStore` (the device only ever receives what was last stored), what the flush asserts holds, and it ends. More blocks than buffers, so replacement happens; 2 buffers and `QDepth = 1`, so a flush takes two passes. |
| `cache_private` | Two threads that both flush, all blocks under inode locks: a buffer has one user, `bc_ref` is 1 exactly while it is held, the assertions of the reference count hold, a held buffer keeps its key, a buffer that may be dropped is clean, and when a flush ends what is still dirty is in use or in the pass of the other thread (`FlushLeavesNoDirty`; the two share the flushing list). |

`KeyUnique` (no two buffers for one block) is checked in `cache_private` and
proved below with shared blocks too. What `cache_private`
leaves open is where the code goes wrong, the first with `SharedKeys = {k1, k2}`,
the second already in `cache_private`, where a thread simply stops there:

* `nvfuse_release_bc` reads `bc_ref` after it unlocked the buffer; when another
  thread gets the same shared block in between, the release runs into
  `assert(0)` (`ReleaseAssert`, a part of `RefsHold`). The move to the clean list comes after the
  unlock too, with similar effects: it may hit a buffer another thread has, or
  leave dirty data on the clean list where no flush looks.
* A miss with every buffer dirty calls the flush under the `bm_lock` that the
  flush takes: the thread stays at `"self_lock"`. With every buffer referenced
  it sleeps for ever (`"sleep"`) or stops (`"assert_replace"`).

The race needs a shared block and a second thread; `cache_private` shows, and
the proofs below show in general, that the reference count is safe without.

Fairness (`MCBufferCache!FairSpec`): weak fairness of the steps of a flush that
has begun, which is what a running thread does; a flush need not begin.

## ReactorTask, SyncIo and IoService

`ReactorTask` has the two rings of a task as arrays with head and tail, slot by
slot, `qdepth + 1` slots for `qdepth` requests. `SyncIo` composes it with
threads, the pools of tasks and requests, the event queue of the reactor core,
its loop over the submission ring, the device, which completes in any order,
and the callbacks. A task is returned to its pool and allocated again while
events and completions of other tasks are under way.

| Run | What it shows |
|---|---|
| `sync_io` | Two threads, two tasks, three requests, up to two per call: requests are conserved, the submission ring is never full, nobody remembers a task that is back in its pool, a caller gets back its own requests once, the whole implements `IoService`, and every call returns. |

`Fairness`: threads keep running, the core polls (so an event is taken, and a
callback that is ready again and again runs: strong fairness, because the core
alternates between events and completions), the device completes. No fairness
on starting a call, nor on `Wakeup`: `pthread_cond_wait` need not return
without a signal.

## AioQueue

One queue of one application thread, as the regression test, `perf` and the fio
plugin use it: a list of requests is submitted, each is split into one job per
extent, and `nvfuse_io_getevents(1, nr)` waits for jobs and returns the
requests whose jobs are all done. One long-lived task, whose rings wrap.
Preparation may fail (`Reject`), the block lookup may fail and leak its jobs
(`GenFails`), the ring may be full half way through a request (`PutFails`), and the
job pool may run dry (`NoJobs`). An application that sees an error stops.

| Run | What it shows |
|---|---|
| `aio_queue` | Two requests of two or five extents, rings of four: `total_bio_job_count` counts the jobs on their way, a request the application has back has none and its count is 0, unless the requests going have had more extents than the rings have slots (`crowded`); and none is left in the completion list while the application waits. |

The rings are sized for two extents per request (a `FIXME` at `nvfuse_aio.c:54` asks
about more). The run goes beyond: `crowded` only records that it did, and three
things then happen in it. Completions that find the completion ring full are
dropped, and their request never returns. A submission that finds the submission
ring full half way leaves its jobs there, uncounted. And the request stays first
in the submission list, so the next submission repeats it: it has two sets of jobs,
is returned after the first, and `assert(areq->bio_job_count == 0)`
(`nvfuse_aio.c:437`) fails when the others come in. `JobsCounted` and
`ReapedComplete` say that nothing but overfilled rings leads there; rings filled
to the last slot do not.

Bounds: `MaxPending` caps the events the core has not taken (an event that
finds the ring already emptied does nothing, so more of them add nothing). The
list that overfills the rings is the last the application submits. A job is known
by the request it belongs to, which is all the code tells jobs apart by. `Jobs = 15`
lets a request of five extents be repeated and another follow.

## InodeCache

`ictx[c]` is `struct nvfuse_inode_ctx`, with the two pointers of its hash node;
`lists` are the LRU lists in their order; `ibitmap`, `itable` and `named` are
what is on disk: the inode bitmap, the inodes with `i_ino` set, and the numbers
that directory entries name. A get is `Get` (lookup, or the start of the
replacement, which takes `ictxc_lock`), `Scan` for each candidate of the
replacement, `LockIctx` and `ReadInode`; a creation is `Create`, `Scan`,
`AllocNewInode` and, without `ictxc_lock`, `Insert` and `Inserted`; a release is
`Release` or `Delete`, `ReleaseMove`, `ReleaseUnlock` and, for a delete,
`ReleaseIbitmap`.

The context of a deleted inode stays in the hash. When the number is allocated
again two contexts carry it, and `InodeExclusive` rests on the new one being in
front of the old: it is inserted and moved at the head, and the number becomes
free only after the old context was moved.

Callers are assumed to get a number that a directory entry names at that
moment. Callers that keep a number longer (open files) belong to the layer
above.

| Run | What it shows |
|---|---|
| `inode_cache` | Two threads, four contexts, three inodes, two held at a time: an inode has one user, a get finds the context its user has locked, the lists lose no context (what `nvfuse_deinit_ictx_cache` asserts when it counts them), a context in use keeps its inode. Three numbers and deletion, so numbers are reused; four contexts for up to four in use, so replacement happens. |
| `inode_deadlock` | `nvfuse_get_ictx` waits for the lock of an inode while it owns `ictxc_lock`; the release of that inode needs `ictxc_lock`. The two threads stop for ever, as soon as a thread gets an inode that another has. |

Both runs restrict the schedule (`MCInodeCache!Quiet`) so that no thread runs
inside the unlocked insertion. Under `Spec` alone the insertion of a new inode
races with a release of another: a context in use leaves the hash, and a second
thread locks its inode through another context (`InodeExclusive` fails).
`inode_cache` does not check for deadlock, because of the second run. Fairness in
`inode_deadlock`: a thread inside a call keeps running.

This module supports `MayUse` of `BufferCache`: outside the insertion race, the
lock of an inode keeps two threads from the blocks of one inode.

## BpTree and DirIndex

`BpTree` is the algorithm of `nvfuse_bp_tree.c` as operators on a record: the
nodes with their keys, values, flags and sibling links, the root, the height
and the node bitmap of the master block. `FindKey` is the descent with the stack
of the path; `InsertKey` splits upwards along the stack; `RemoveKey` merges or
redistributes with the sibling the code picks. `DirIndex` is one directory's
index over it (`nvfuse_set_dir_indexing`, `nvfuse_get_dir_indexing`,
`nvfuse_del_dir_indexing`): names that share a hash share one key, whose item
counts the others in its top bits. The caller holds the lock of the directory,
so an operation is one step. `entry` is what the directory really holds.

| Run | What it shows |
|---|---|
| `dir_index` | Fanout 3, so that six names reach height 3 and every split, merge and redistribution happens; a second scope has names of one hash and entries that move. The index finds exactly the names of the directory (`IndexFinds`), the leaves are linked in key order and all at one depth, and no node of the file is lost or used twice. |

`FewCollisions` assumes that no more names share a hash than the counter counts
(two bits in the code). One master node: a second one is needed beyond 32449 nodes,
and the code for it dereferences a pointer it has not set. The mempools are not
modelled, nor `rsearch_data_node`, which nothing calls. `bp_merge_key_tree` reads
the leaf flag of a node after its release; by then `B_iALLOC`
(`nvfuse_bp_tree.c:1223`) has taken that node back from the pool for an inner node
of the path, so the flag it reads is that of an inner node, and the loop goes on
as the model does.

## Directory and Namespace

`fs` has the inodes (type, `i_links_count`, `i_ptr`, blocks, index), the entries
of each directory slot by slot, the bytes of the first block of every other inode
as far as they look like entries, the index as a map, the inodes left locked by an
error return (`held`) and why the program stopped, if it did (`halt`). Each call
of the POSIX layer is one action: path resolution, lookup, the entry, the link
counts, the index, the move of the last entry into a hole
(`nvfuse_shrink_dentry`) and the release of an empty last block. `Namespace` is
the promise: a tree of names, changed by one name at a time.

The index is a map without collisions here; `DirIndex` shows that the B+tree is
one. `EntryNum = 4` entries make a block, so three names and the two dot entries
cross a boundary. Allocation takes any free inode. Paths have at most one
directory, and `Calls` bounds the names: three in the root, two below it.
`Bounded` keeps three things apart that do not act on each other: inodes that an
error return left locked (by one call of a behaviour), file data that looks like
entries (of one file at a time), and a listing of the root, whose first block
never was a file's.

| Run | What it shows |
|---|---|
| `directory` | One thread creates and removes, another lists the root entry by entry: the used entries stay at the front, index and entries agree, every inode in use has exactly one name, the assertions hold but for the case below, a listing reports nothing twice and misses nothing that stayed, and the whole implements `Namespace`. |
| `dir_rename` | With `nvfuse_rename` and `nvfuse_hardlink` (`SpecLinks`) an assertion of `nvfuse_shrink_dentry` fails: a rename leaves a deleted entry among those in use. `nvfuse_link` also writes its entry at `i_ptr`, over the last entry in use. |

A new directory takes its first block with `WRITE`, neither read nor cleared
(`nvfuse_api.c:1666`), and the buffer of a freed block stays in the hash: a
directory that gets the inode number of a removed one shows its bytes. Where that
was a directory, its entries are deleted ones. Where it was a file or a symbolic
link, the data looks like entries in use (a partial first write also keeps what
the device had in the block), the search for an empty entry passes over them, and
`assert(dir_inode->i_links_count == dir_inode->i_ptr + 1)` fails in
`nvfuse_createfile` or `nvfuse_mkdir`. The run reaches this; `AssertionsHold` says
that nothing else makes the assertion fail, and `Dense` that such data only ever
lies behind the entries of a directory that still works. An index does no harm:
its first block is cleared when it is made (`nvfuse_bp_tree.c:345`), and the header
and the bitmap written to it end before the third entry up to 1760 nodes.

What the model keeps of the error returns: `nvfuse_rmfile` of a directory,
`nvfuse_rmdir` of a file or of a directory with entries, and an open of a
directory return with inodes locked; a lookup of "." leaves the index locked; the
next call that needs them hangs. Removing a name that does not exist stops with
an assertion, because the result of the search is unsigned. Running out of inodes stops with an
assertion and is not counted by `AssertionsHold`. Two threads that change the
name space at once are not modelled: `nvfuse_lock` is an empty macro, and nothing
states what they should see.

## BlockGroups, FileMap and BlockMap

`BlockGroups` has the bitmaps, the descriptors and the counters of free blocks
with the scan for free bits; `FileMap` has the tree of direct, indirect, double
and triple indirect pointers (`BlockToPath`, `GetBranch`, `AllocBranch`,
`FindShared`, `FreeBranches`), the open file table, and the calls that change a
file: open, close, buffered and direct read and write, `truncate`, `ftruncate`,
`fallocate`. One thread, and a call runs to its end. `BlockMap` is the promise: a
file is a sequence of blocks that grows and shrinks at the end, and a block that
stays never moves. `extent` is an auxiliary variable that carries the sequence.

The instance has two direct blocks and two pointers per indirect block, so that
18 units reach the triple indirect tree, and two groups of ten blocks. A unit is
half a cluster: sizes of one and a half clusters occur, and files are cut to and
preallocated from the middle of a cluster. `Calls = 4` bounds the calls that change
a file, `Starts` and `Lengths` the preallocations.

| Run | What it shows |
|---|---|
| `file_map` | No block is lost, shared or freed twice (`BlocksAccounted`), the counters agree with the bitmaps, exactly the clusters below the size are mapped, no indirect block is left empty, the assertions hold, and the tree implements `BlockMap`. |

The run keeps to plain use (`Plain`). Beyond it the code does not keep these
properties; a value of `Habits` adds each use:

* `"stale"`: `nvfuse_truncate` and `nvfuse_ftruncate` leave the size in the open
  file table, and the next write stores it into the inode (`nvfuse_api.c:1057`).
  Write a cluster and a half, cut to 0, write it again through the same
  descriptor: the second cluster is below the size that came back, is not
  allocated, and `assert(new_pno)` (`nvfuse_buffer_cache.c:320`) fails.
* `"shared"`: with two descriptors the size shrinks below data the other wrote.
* `"gap"`: a write beyond the end fails `assert(new_pno)`; a preallocation that
  starts beyond it sets a size over clusters that are not mapped.
* `"extend"`: a truncation to a larger size sets a size no block is mapped for.
* `"direct"`: a direct write of several clusters over the end of a pointer block
  adds all of them to the size and maps the first ones only.

A preallocation that starts inside a cluster may end short of what was asked: it
counts `CEIL(length)` clusters from the cluster of `start`, and the size follows
what was mapped (`nvfuse_api.c:2693-2774`), so the map stays right. A cut inside a
cluster keeps the cluster, but throws away its buffer (`nvfuse_core.c:222`, `239`)
with what had not been written; contents are not modelled, and no property covers
this.

Running out of blocks is `assert(0)` (`"no_space"`) and is not counted by
`AssertionsHold`. The contents of blocks and the offset of `lseek`, which no
transfer reads, are left out; so is `fsync` of one file, which is `assert(0)` when
the file has dirty data. The buffer of a freed indirect block is taken as
forgotten (`nvfuse_forget_bh` is commented out, and its late write is listed as a
hazard).

## ControlPlane and DataPlane

`ControlPlane` has the tables of the control plane as operators on a record: the
applications by channel, the owner of each container, the reservations, the
buffers handed out, and the log of owners that is written to files and read back
at the next start. `DataPlane` composes it with the processes: the primary
process that runs it, secondary processes that mount, ask for containers and
buffers, reserve, umount and crash, the ring of requests, a ring of completions
per channel, the ring of channel numbers, the pool of messages, and the state of
the superblock on the device from `mkfs` through mounts and crashes. A process
waits for each answer; `pc` names the answer it waits for.

| Run | What it shows |
|---|---|
| `control_plane` | Two processes, one that preallocates, four containers, five channels, three buffers: containers, reservations, buffers and messages are accounted for through umounts and crashes, a free container holds no files, nobody takes another's answer, the log is ahead of what processes know, a crash of the primary is detected at the next mount, and every mount ends. |
| `remount` | The mount asserts `FS_STATE_INITIALIZED`, which only the first mount after `mkfs` has: the mount after a clean umount fails. |

This assertion (`nvfuse_core.c:1736`) stops every second mount and every secondary
process, which copies the state `MOUNTED`; it is compiled into the default build
as well. `control_plane` therefore sets `StateAssert = FALSE`, a build with
`NDEBUG`, to see what lies behind it.

Bounds: `Mounts`, `Asks` and `Boots` count since the last `mkfs`, which resets
them, so behaviours are infinite. `Channels` exceeds `Mounts` because a mount that
fails for want of buffers loses its channel number. Each refused container
request leaks a message, at most one per mount; `PoolSize` leaves room for them
(the code has 1024). Running out of containers stops the program
(`"assert_root"`, `"assert_space"`) and is not counted by `AssertionsHold`. A
crash of the primary ends the processes, which would wait for ever.

Fairness: the control plane polls, and a process that waits for an answer polls
its ring; both are loops that never block. Nobody has to mount or ask. `MountEnds`
is about `nvfuse_mount`; taking a channel number before it may wait for ever when
lost numbers have emptied the ring.

The run keeps to plain use; a value of `Habits` adds each of these:

* `"overlap"`: two processes that start or end at once may get one channel, because
  the number is taken twice and one of the two is returned twice; `OwnAnswers`
  fails.
* `"crash_start"`: a crash during the start or the end. The invariants hold, on
  782,000 states; it is left out because of the cost of the liveness check.
* `"reserve_any"`: a reservation of a container that is not owned makes the control
  plane search for ever.
* `"restart"` with `StateAssert = FALSE`: a log numbered 0 is taken for no log, and
  a container with files becomes free.

The data plane model is a build option, whose examples the repository's README
lists as not working. `nvfuse_create_handle` copies the IPC context before it is
initialised and `nvfuse_destroy_handle` uses the handle after it is freed; the
model takes the rings as set up. `destroy_containers`, which no caller asks for,
and the rings of statistics are not modelled.
## What is proved

The theorems hold for every value of the constants, from the assumptions on
constants that TLC evaluates in the runs (`ConstantsAssumption`,
`ControlAssumption`, `DataAssumption`, ...) and from the assumptions named
below, which are hypotheses of the theorems. `PROJECT.json` lists them with the
property each one is about. Every invariant below was checked with TLC on the
instance of the run before it was proved.

**Buffer cache, any use** (`BufferCacheProofs`; no further assumption):
`TypeCorrect`, `KeysUnique`. `IInv` adds to the type invariant that a thread
between `bm_lock` and its unlock owns it (so that at most one thread is there),
that `cur` names a buffer where the step needs one, and that keys are unique.
Uniqueness is inductive only with the first: the lookup and the insertion of a
miss are one critical section.

**Buffer cache, blocks one thread uses at a time** (also in
`BufferCacheProofs`):
`HoldersExclusive`, `AssertsHold`, `CleanListsClean`, `HeldKeys`, under
`NoSharing`: every block is under an inode lock, or there is one thread. `HInv`
relates `held`, the program counters, `bc_lock`, `bc_ref`, the list and the
flags of every buffer. Its heart is that two threads never use one block, so
that the windows of a release are private to the releasing thread. Without the
assumption the theorems are false: see the races under BufferCache.

**Buffer cache as a store** (`BufferCacheStoreProofs`). `FlushComplete`, under
`NoSharing`, for any number of flushing threads: when a flush leaves its loop,
what is still dirty is in use, or on the flushing list while another thread is in
a pass. `RInv` adds that a buffer on the ref list has a user, and that some thread
is in a pass while there is anything on the flushing list; every pass cleans all
of that list, its own buffers or not, and ends when it is empty. `CacheCoherent`
and `StoreImplemented`, under `OneThread` (the setting of
`cache_store`): `DInv` says for every block where its last contents are, in a
buffer or on the device, which jobs of a flush are filled and with which
buffers, so that a write of the flush is a step of `BlockStore`. With a second
thread neither holds, inode locks or not: the flush drops `bm_lock`
between collecting buffers and filling jobs, and a get in between takes a buffer
away, so that a job that was not filled is submitted, or an assertion of the
flush fails. For the same reason `FlushAssert` is checked for one thread only, and
is not among the theorems.

**Synchronous block I/O** (`SyncIoProofs`, `SyncIoTheorems`; no further
assumption): `RequestsAccountedFor`, `PoolIsForgotten` and the refinement
`ServiceImplemented`. `IInv` says, for each call under way, which of its
requests are still in its hands, in the submission ring, at the device, in the
completion ring and back (`CallRings`, `CallOut`), by the indices of the two
rings of its task; and that the events and the loop of the core are about tasks
of calls under way, one of them at most for each. `SyncIoProofs` has the
invariant, the facts about rings and the steps of the threads, the core and the
device, `SyncIoTheorems` what follows. That each request is in one place needs
the cardinalities of sets, from the theorems about finite sets; the spare slot
of the rings is what keeps them from being full.

**Processes and control plane** (`DataPlaneProofs`, `DataPlaneControlProofs`,
`DataPlaneMountProofs`, `DataPlaneLeaseProofs`). The assumptions are the habits
of the run, one by one, and each theorem names only those it needs:

| Theorem | Assumes | Says |
|---|---|---|
| `CrashesDetected` | nothing | a crash of the primary is detected at the next mount |
| `AnswersAreOwn` | no `"overlap"`, no `"crash_start"` | a process takes the answer to its own request, and no live process has its channel |
| `OwnersAreLogged` | nothing | the log read or written last has the owners of the table, through restarts and crashes |
| `LeasesAreSound` | none of the four habits | containers, their files and the reservations are what the table says |

`AnswersAreOwn` rests on `ProtocolInv`. A start takes two channel numbers and an
end returns the first one twice, so `id_gen` comes to hold a number twice and the
number of a live process once more; the invariant says where in the ring such
numbers can be, and that on the channel of a process there is nothing but the
request it waits for or the answer to it. `OwnersAreLogged` rests on `LogInv`:
every handler that changes an owner writes the log before it answers, and the
files of a process that has ended have tables that the next start can read, after
which the next log goes to the other file. It does not say that a start reads the
log written last: with log 0 the latest it reads none (the habit `"restart"`). `LeasesAreSound` rests on `ProtocolInv` and
`ControlInv`, which says what the messages under way mean for the table: a
container in a release request is still acquired by its sender, empty and out of
its list; a container in an answer is acquired already; a reservation counts from
the moment it is granted until its release is looked at, and the reference count
covers those that count. The proof has one lemma per request of the control plane
(what it does to one entry of the table, `DataPlaneControlProofs`) and one per
step of a process (`DataPlaneMountProofs`, `DataPlaneLeaseProofs`).

### What stays with TLC

* Liveness (`FlushTerminates`, `CallsReturn`, `MountEnds`): out of the prover's reach
  under fairness.
* `BpTree`, `DirIndex`, `FileMap`, `BlockGroups`: the descent, the splits and the
  trees of pointers are recursive, and what a recursive definition computes for
  every input cannot be proved here.
* `Accounted` (buffers and messages of the control plane): sums folded over the
  rings and the processes, which need induction over data. `AssertionsHold` of
  the control plane depends on the bounds of the instance.
* `InodeCache`, `Directory` and `AioQueue`: invariants about LRU and hash lists in their order and about
  entries slot by slot; they are checked on the instances only.

## What the passing runs leave out

Each of these is in the model, behind a constant; there the properties named fail,
for the reason given with the component.

| Case | Left out by | What fails with it |
|---|---|---|
| two threads on a block without an inode lock | `SharedKeys = {}` in `cache_private` | `RefsHold`, `HolderExclusive`, `CleanListIsClean`, `HeldKeepsKey`, `FlushLeavesNoDirty` |
| a second thread beside a flush | one thread in `cache_store` | `FlushAssert`, `Coherent`, `ImplementsBlockStore` |
| a thread that runs inside the unlocked insertion of a context | `Quiet` in `inode_cache` | `OneContext` |
| a size changed behind an open descriptor | no `"stale"`, `"shared"` in `file_map` | `AssertionsHold`, `MapExact` |
| direct writes of several clusters | no `"direct"` in `file_map` | `MapExact` |
| writes, growth and preallocation beyond the end | no `"gap"`, `"extend"` in `file_map` | `AssertionsHold`, `MapExact` |
| processes that start or end at once | no `"overlap"` in `control_plane` | `OwnAnswers` |
| reservations of containers nobody owns | no `"reserve_any"` in `control_plane` | `AssertionsHold` |
| a restart on the files of the last one | no `"restart"` in `control_plane` | `LeasesSound` |

## What is not modelled

Statistics, printing and parameter parsing; the start-up of SPDK; the string
hash of directory names; the allocator wrappers; a red-black tree taken from
Linux. Extended attributes: a list inside one block of an inode, changed by one
call at a time. The flush worker: the thread is compiled, but the calls that
start and stop it are under `#if 0`. The attributes of a file (`chmod`, `chown`,
`utimens`, `stat`). I/O errors: `reactor_bio_cb` calls `abort()` on one. The
Ceph variants of the build and code under undefined macros
(`NVFUSE_KEEP_DIRTY_BH_IN_ICTX`). `nvfuse_aio_queue_completion` and
`nvfuse_aio_queue_move`, which nothing calls.
