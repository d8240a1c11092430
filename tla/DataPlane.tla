------------------------------ MODULE DataPlane ------------------------------
(***************************************************************************)
(* The data plane model of processes (NVFUSE_PROCESS_DATAPLANE): one       *)
(* primary process runs the control plane and answers requests; secondary  *)
(* processes mount a part of the file system, ask for containers and       *)
(* buffers, and umount.  They talk through rings in shared memory: one     *)
(* ring of requests that the processes share, and one ring of completions  *)
(* per channel.  A channel number is taken from the ring id_gen, and every *)
(* message, channel numbers included, from one pool.                       *)
(*                                                                         *)
(* The module also follows the state of the superblock on the device from  *)
(* mkfs through mounts, umounts and crashes of the primary process.        *)
(*                                                                         *)
(* A process waits for each answer before it goes on: pc names the answer  *)
(* it waits for.  The rings have more entries (16384) than the pool has    *)
(* messages (1024) and never fill.                                         *)
(***************************************************************************)
EXTENDS ControlPlane

CONSTANTS
    Procs,        \* the secondary processes; a process stands for its appname
    Preallocate,  \* those that start with preallocation
    PreSize,      \* NVFUSE_CONTAINER_PERALLOCATION_SIZE
    InitBuffers,  \* NVFUSE_INITIAL_BUFFER_SIZE_DATA in pages
    MaxBuffers,   \* NVFUSE_MAX_BUFFER_SIZE_DATA in pages
    PoolSize,     \* messages of the pool
    StateAssert,  \* whether the assertion on sb_state in nvfuse_mount is compiled in
    Habits,       \* uses beyond the plain one, see Plain
    Mounts,       \* bound: mounts of the processes after one mkfs
    Asks,         \* bound: requests of processes in service, likewise
    Boots         \* bound: mounts of the primary process, likewise

ASSUME DataAssumption ==
    /\ Preallocate \subseteq Procs
    /\ StateAssert \in BOOLEAN
    /\ {PreSize, InitBuffers, MaxBuffers, PoolSize, Mounts, Asks, Boots} \subseteq Nat
    /\ 0 < InitBuffers /\ InitBuffers <= MaxBuffers
    /\ Channels <= PoolSize

VARIABLES
    cp,       \* the control plane, see ControlPlane
    ondisk,   \* sb_state of the superblock on the device
    primary,  \* "off", "running" or "stopped" (by an assertion or an endless loop)
    proc,     \* the secondary processes
    data,     \* container -> the names of the applications that have files in it
    recv,     \* the shared ring of requests
    send,     \* channel -> its ring of completions
    ids,      \* the ring id_gen
    pool,     \* free messages
    leaked,   \* history: messages that were never put back
    lost,     \* history: buffers of processes that crashed
    crashed,  \* history: the primary process crashed after the last mkfs
    mounts,   \* mounts of the processes since mkfs
    asks,     \* requests of processes in service since mkfs
    boots     \* mounts of the primary process since mkfs

vars == <<cp, ondisk, primary, proc, data, recv, send, ids, pool, leaked, lost, crashed, mounts, asks, boots>>

\* Plain use: starts and ends of processes do not overlap ("overlap"), a
\* process crashes only while it is in service ("crash_start"), only
\* containers that are never released are reserved ("reserve_any"), and the primary process mounts
\* only what mkfs has left ("restart").
Plain(habit) == habit \notin Habits

NoProc == [pc |-> "off", chan |-> 0, root |-> 0, state |-> "NONE", bgs |-> {}, buf |-> 0,
           count |-> 0, held |-> {}]

Starting == {"buffer", "register", "copy", "fetch", "prealloc", "health", "attach"}

Serving == {"idle", "need", "more", "give", "reserve", "unreserve"}

Stopping == {"free", "unregister", "detach"}

\* What ends a process other than its umount.
Panics == {"assert_root", "assert_state", "assert_space", "panic_pool", "panic_free", "panic_release"}

Gone(p) == proc[p].pc \in {"off"} \cup Panics

Undisturbed(p) ==
    Plain("overlap") => \A q \in Procs \ {p} : proc[q].pc \notin Starting \cup Stopping

Init ==
    /\ cp = Formatted
    /\ ondisk = "FORMATTED"
    /\ primary = "off"
    /\ proc = [p \in Procs |-> NoProc]
    /\ data = [c \in Containers |-> {}]
    /\ recv = <<>>
    /\ send = [ch \in ChannelIds |-> <<>>]
    /\ ids = <<>>
    /\ pool = 0
    /\ leaked = 0
    /\ lost = 0
    /\ crashed = FALSE
    /\ mounts = 0
    /\ asks = 0
    /\ boots = 0

-----------------------------------------------------------------------------
(* The primary process. *)

\* What is left of the control plane when its process is gone: its files.
Unloaded(s) == [Formatted EXCEPT !.clog = s.clog, !.alog = s.alog, !.dirs = s.dirs]

NvfuseFormat ==
    /\ primary = "off"
    /\ ondisk # "FORMATTED"
    /\ cp' = Formatted
    /\ ondisk' = "FORMATTED"
    /\ data' = [c \in Containers |-> {}]
    /\ crashed' = FALSE
    /\ mounts' = 0
    /\ asks' = 0
    /\ boots' = 0
    /\ UNCHANGED <<primary, proc, recv, send, ids, pool, leaked, lost>>

\* The first mount after mkfs creates the index of the root directory.
MountedState(state) == IF state = "FORMATTED" THEN "INITIALIZED" ELSE state

\* A superblock that is still mounted was not umounted: the mount fails and
\* leaves it marked.
MountRefused ==
    /\ primary = "off"
    /\ ondisk \in {"MOUNTED", "CRASHED"}
    /\ ondisk' = "CRASHED"
    /\ UNCHANGED <<cp, primary, proc, data, recv, send, ids, pool, leaked, lost, crashed, mounts, asks, boots>>

\* Variant: the mount goes on whatever the state of the superblock is.
PrimaryMountAnyway(state) == TRUE

PrimaryMount(state) == state \notin {"MOUNTED", "CRASHED"}

\* nvfuse_ipc_init: empty rings, all the channel numbers in id_gen.
NvfuseIpcInit ==
    /\ recv' = <<>>
    /\ send' = [ch \in ChannelIds |-> <<>>]
    /\ ids' = [i \in 1..(Channels - 1) |-> i]
    /\ pool' = PoolSize - (Channels - 1)
    /\ leaked' = 0
    /\ lost' = 0

\* The superblock is written as mounted at the end of the mount; a crash before
\* that leaves the device as it was, and is no step here.
PrimaryStart ==
    /\ primary = "off"
    /\ boots < Boots
    /\ PrimaryMount(ondisk)
    /\ Plain("restart") => ondisk # "UMOUNTED"
    /\ boots' = boots + 1
    /\ IF StateAssert /\ MountedState(ondisk) # "INITIALIZED"
       THEN /\ primary' = "stopped"
            /\ cp' = Stopped(cp, "assert_state")
            /\ UNCHANGED <<ondisk, recv, send, ids, pool, leaked, lost>>
       ELSE /\ primary' = "running"
            /\ ondisk' = "MOUNTED"
            /\ cp' = ControlPlaneInit([cp EXCEPT !.state = "MOUNTED"])
            /\ NvfuseIpcInit
    /\ UNCHANGED <<proc, data, crashed, mounts, asks>>

\* The rings are gone with the primary process.
RingsGone ==
    /\ recv' = <<>>
    /\ send' = [ch \in ChannelIds |-> <<>>]
    /\ ids' = <<>>
    /\ pool' = 0
    /\ leaked' = 0
    /\ lost' = 0

\* The end of primary_poll after a signal, and the umount.
PrimaryStop ==
    /\ primary = "running" /\ \A p \in Procs : Gone(p)
    /\ primary' = "off"
    /\ ondisk' = "UMOUNTED"
    /\ cp' = Unloaded(ControlPlaneExit(cp))
    /\ proc' = [p \in Procs |-> NoProc]
    /\ RingsGone
    /\ UNCHANGED <<data, crashed, mounts, asks, boots>>

\* The processes wait for ever then, until somebody ends them.  The log files are
\* kept whole, though their flush may be delayed: nobody reads them, for the
\* file system is refused until mkfs.
PrimaryCrash ==
    /\ primary = "running"
    /\ primary' = "off"
    /\ crashed' = TRUE
    /\ cp' = Unloaded(cp)
    /\ proc' = [p \in Procs |-> NoProc]
    /\ RingsGone
    /\ UNCHANGED <<ondisk, data, mounts, asks, boots>>

\* One turn of primary_poll.
PrimaryPoll ==
    /\ primary = "running" /\ recv # <<>>
    /\ \E r \in {PrimaryPollCore(cp, Head(recv))} :
       /\ cp' = r.s
       /\ recv' = Tail(recv)
       /\ IF r.s.stop # "none"
          THEN primary' = "stopped" /\ UNCHANGED send
          ELSE send' = [send EXCEPT ![r.cpl.chan] = Append(@, r.cpl)] /\ UNCHANGED primary
    /\ UNCHANGED <<ondisk, proc, data, ids, pool, leaked, lost, crashed, mounts, asks, boots>>

-----------------------------------------------------------------------------
(* Messages of the secondary processes. *)

world == <<cp, ondisk, primary, crashed, boots>>

Name(p) == <<p, proc[p].chan>>

\* The process goes on to q and sends a request with a message of the pool,
\* which has free of them.
Request(p, q, free, op, arg) ==
    IF free = 0
    THEN proc' = [proc EXCEPT ![p] = [q EXCEPT !.pc = "panic_pool"]] /\ pool' = 0 /\ UNCHANGED recv
    ELSE /\ proc' = [proc EXCEPT ![p] = q]
         /\ recv' = Append(recv, [op |-> op, chan |-> q.chan, arg |-> arg])
         /\ pool' = free - 1

NoRequest(p, q, free) ==
    /\ proc' = [proc EXCEPT ![p] = q]
    /\ pool' = free
    /\ UNCHANGED recv

Answer(p) == Head(send[proc[p].chan])

\* nvfuse_try_ring_dequeue: no time limit.
Dequeue(p, pc) ==
    /\ proc[p].pc = pc
    /\ send[proc[p].chan] # <<>>
    /\ send' = [send EXCEPT ![proc[p].chan] = Tail(@)]

\* Variant: the number is read and stays in the ring.
GetChannelIdPeek == ids # <<>> /\ UNCHANGED ids

\* Spins while there is none; the message of the number goes back to the pool.
GetChannelId == ids # <<>> /\ ids' = Tail(ids)

PutChannelId(ch) == ids' = Append(ids, ch)

-----------------------------------------------------------------------------
(* nvfuse_mount in a secondary process. *)

\* A channel number, and the request for the buffers of the cache.
Mount(p) ==
    LET q == [NoProc EXCEPT !.pc = "buffer", !.chan = Head(ids)]
    IN  /\ primary = "running"
        /\ Gone(p) /\ Undisturbed(p)
        /\ mounts < Mounts
        /\ mounts' = mounts + 1
        /\ GetChannelId
        /\ Request(p, q, pool + 1, "BUFFER_ALLOC", IF p \in Preallocate THEN MaxBuffers ELSE InitBuffers)
        /\ lost' = lost + proc[p].buf
        /\ UNCHANGED <<world, data, send, leaked, asks>>

\* A mount that fails keeps its channel number.
MountBuffers(p) ==
    LET q == [proc[p] EXCEPT !.pc = "register", !.buf = Answer(p).ret]
    IN  /\ Dequeue(p, "buffer")
        /\ IF Answer(p).ret = 0
           THEN NoRequest(p, NoProc, pool + 1)
           ELSE Request(p, q, pool + 1, "APP_REGISTER", Name(p))
        /\ UNCHANGED <<world, data, ids, leaked, lost, mounts, asks>>

\* The same message carries the next request.  The returns on an error are not
\* taken here and in MountCopied: the channel number is valid, and a process
\* that is registered has the directory whose superblock it asks for.
MountRegistered(p) ==
    /\ Dequeue(p, "register")
    /\ Request(p, [proc[p] EXCEPT !.pc = "copy"], pool + 1, "SUPERBLOCK_COPY", Name(p))
    /\ UNCHANGED <<world, data, ids, leaked, lost, mounts, asks>>

MountCopied(p) ==
    LET q == [proc[p] EXCEPT !.pc = "fetch", !.root = Answer(p).copy.root, !.state = Answer(p).copy.state]
    IN  /\ Dequeue(p, "copy")
        /\ IF q.root = 0 THEN NoRequest(p, [q EXCEPT !.pc = "assert_root"], pool + 1)
           ELSE Request(p, q, pool + 1, "CONTAINER_ALLOC", "ALLOCATED")
        /\ UNCHANGED <<world, data, ids, leaked, lost, mounts, asks>>

\* Messages of a request for a container that is refused are not put back.
PutBack(p) == IF Answer(p).ret = 0 THEN 0 ELSE 1

AddBg(q, c) == IF c = 0 THEN q ELSE [q EXCEPT !.bgs = @ \cup {c}]

\* Asks for the next container it wants, or goes on to the health check.
MountNext(p, q) ==
    IF p \in Preallocate /\ q.count < PreSize
    THEN Request(p, [q EXCEPT !.pc = "prealloc"], pool + PutBack(p), "CONTAINER_ALLOC", "NEW")
    ELSE Request(p, [q EXCEPT !.pc = "health"], pool + PutBack(p), "HEALTH_CHECK", 0)

\* Variant: the loop goes on while there is no container.
MountFetchedInsists(p) ==
    LET q == AddBg(proc[p], Answer(p).ret)
    IN  /\ Dequeue(p, "fetch")
        /\ IF Answer(p).ret = 0 THEN Request(p, q, pool + 1, "CONTAINER_ALLOC", "ALLOCATED")
           ELSE MountNext(p, q)
        /\ UNCHANGED <<world, data, ids, leaked, lost, mounts, asks>>

\* Containers of an earlier run on this channel, until there is none left.
MountFetched(p) ==
    LET q == [AddBg(proc[p], Answer(p).ret) EXCEPT !.count = @ + 1]
    IN  /\ Dequeue(p, "fetch")
        /\ IF Answer(p).ret # 0 THEN Request(p, q, pool + 1, "CONTAINER_ALLOC", "ALLOCATED")
           ELSE MountNext(p, q)
        /\ leaked' = leaked + 1 - PutBack(p)
        /\ UNCHANGED <<world, data, ids, lost, mounts, asks>>

MountPreallocated(p) ==
    LET q == [AddBg(proc[p], Answer(p).ret) EXCEPT !.count = @ + 1]
    IN  /\ Dequeue(p, "prealloc")
        /\ MountNext(p, q)
        /\ leaked' = leaked + 1 - PutBack(p)
        /\ UNCHANGED <<world, data, ids, lost, mounts, asks>>

MountChecked(p) ==
    LET ok == StateAssert => proc[p].state = "INITIALIZED"
        q == [proc[p] EXCEPT !.pc = IF ok THEN "attach" ELSE "assert_state", !.state = "MOUNTED", !.count = 0]
    IN  /\ Dequeue(p, "health")
        /\ NoRequest(p, q, pool + 1)
        /\ UNCHANGED <<world, data, ids, leaked, lost, mounts, asks>>

\* nvfuse_ipc_init in nvfuse_create_handle takes another channel number, which
\* nothing uses.
IpcInit(p) ==
    /\ proc[p].pc = "attach"
    /\ GetChannelId
    /\ NoRequest(p, [proc[p] EXCEPT !.pc = "idle"], pool + 1)
    /\ UNCHANGED <<world, data, send, leaked, lost, mounts, asks>>

-----------------------------------------------------------------------------
(* A mounted process. *)

InService(p) == proc[p].pc = "idle"

Ask(p) ==
    /\ InService(p)
    /\ asks < Asks
    /\ asks' = asks + 1

\* The containers of the process have no free inode or block left.
NeedContainer(p) ==
    /\ Ask(p)
    /\ Request(p, [proc[p] EXCEPT !.pc = "need"], pool, "CONTAINER_ALLOC", "NEW")
    /\ UNCHANGED <<world, data, ids, send, leaked, lost, mounts>>

GotContainer(p) ==
    LET c == Answer(p).ret
        q == AddBg([proc[p] EXCEPT !.pc = IF c = 0 THEN "assert_space" ELSE "idle"], c)
    IN  /\ Dequeue(p, "need")
        /\ NoRequest(p, q, pool + PutBack(p))
        /\ leaked' = leaked + 1 - PutBack(p)
        /\ data' = [d \in Containers |-> IF d = c /\ c # 0 THEN data[d] \cup {Name(p)} ELSE data[d]]
        /\ UNCHANGED <<world, ids, lost, mounts, asks>>

\* The cache has no unused buffer left.
NeedBuffer(p) ==
    /\ Ask(p)
    /\ proc[p].buf < MaxBuffers
    /\ Request(p, [proc[p] EXCEPT !.pc = "more"], pool, "BUFFER_ALLOC", 1)
    /\ UNCHANGED <<world, data, ids, send, leaked, lost, mounts>>

GotBuffer(p) ==
    /\ Dequeue(p, "more")
    /\ NoRequest(p, [proc[p] EXCEPT !.pc = "idle", !.buf = @ + Answer(p).ret], pool + 1)
    /\ UNCHANGED <<world, data, ids, leaked, lost, mounts, asks>>

\* The containers of the directories of the applications.
Roots == {cp.dirs[n] : n \in DOMAIN cp.dirs}

\* The last file of the process in container c is deleted, and nothing else is
\* in it; the directory of an application is the work of the control plane.
Removable(p, c) ==
    /\ c \in proc[p].bgs
    /\ c # proc[p].root
    /\ p \notin Preallocate
    /\ data[c] \subseteq {Name(p)}
    /\ c \notin Roots

RemoveBg(p, c) ==
    /\ Ask(p)
    /\ Removable(p, c)
    /\ data' = [data EXCEPT ![c] = {}]
    /\ Request(p, [proc[p] EXCEPT !.pc = "give", !.bgs = @ \ {c}], pool, "CONTAINER_RELEASE", c)
    /\ UNCHANGED <<world, ids, send, leaked, lost, mounts>>

RemovedBg(p) ==
    /\ Dequeue(p, "give")
    /\ IF Answer(p).ret < 0 THEN NoRequest(p, [proc[p] EXCEPT !.pc = "panic_release"], pool)
       ELSE NoRequest(p, [proc[p] EXCEPT !.pc = "idle"], pool + 1)
    /\ UNCHANGED <<world, data, ids, leaked, lost, mounts, asks>>

\* No caller in the library; a process may send it as any other request.
Reserve(p, c, type) ==
    /\ Ask(p)
    /\ proc[p].held = {}
    /\ Plain("reserve_any") => c \in Roots
    /\ Request(p, [proc[p] EXCEPT !.pc = "reserve", !.held = {c}], pool, "RESERVATION_ACQUIRE", <<c, type>>)
    /\ UNCHANGED <<world, data, ids, send, leaked, lost, mounts>>

Reserved(p) ==
    LET got == Answer(p).ret = 0
    IN  /\ Dequeue(p, "reserve")
        /\ NoRequest(p, [proc[p] EXCEPT !.pc = "idle", !.held = IF got THEN @ ELSE {}], pool + 1)
        /\ UNCHANGED <<world, data, ids, leaked, lost, mounts, asks>>

Unreserve(p, c) ==
    /\ InService(p)
    /\ c \in proc[p].held
    /\ Request(p, [proc[p] EXCEPT !.pc = "unreserve", !.held = {}], pool, "RESERVATION_RELEASE", c)
    /\ UNCHANGED <<world, data, ids, send, leaked, lost, mounts, asks>>

Unreserved(p) ==
    /\ Dequeue(p, "unreserve")
    /\ NoRequest(p, [proc[p] EXCEPT !.pc = "idle"], pool + 1)
    /\ UNCHANGED <<world, data, ids, leaked, lost, mounts, asks>>

-----------------------------------------------------------------------------
(* nvfuse_destroy_handle: umount, then nvfuse_ipc_exit. *)

Umount(p) ==
    /\ InService(p)
    /\ proc[p].held = {} /\ Undisturbed(p)
    /\ Request(p, [proc[p] EXCEPT !.pc = "free", !.state = "UMOUNTED", !.bgs = {}, !.buf = 0],
               pool, "BUFFER_FREE", proc[p].buf)
    /\ UNCHANGED <<world, data, ids, send, leaked, lost, mounts, asks>>

UmountFreed(p) ==
    /\ Dequeue(p, "free")
    /\ IF Answer(p).ret < 0 THEN NoRequest(p, [proc[p] EXCEPT !.pc = "panic_free"], pool)
       ELSE Request(p, [proc[p] EXCEPT !.pc = "unregister"], pool + 1, "APP_UNREGISTER", 0)
    /\ UNCHANGED <<world, data, ids, leaked, lost, mounts, asks>>

\* nvfuse_put_channel_id, with the message that has just come back.
UmountDone(p) ==
    /\ Dequeue(p, "unregister")
    /\ NoRequest(p, [proc[p] EXCEPT !.pc = "detach"], pool)
    /\ PutChannelId(proc[p].chan)
    /\ UNCHANGED <<world, data, leaked, lost, mounts, asks>>

\* The same channel number once more.
IpcExit(p) ==
    /\ proc[p].pc = "detach"
    /\ IF pool = 0
       THEN NoRequest(p, [proc[p] EXCEPT !.pc = "panic_pool"], 0) /\ UNCHANGED ids
       ELSE /\ NoRequest(p, NoProc, pool - 1)
            /\ PutChannelId(proc[p].chan)
    /\ UNCHANGED <<world, data, send, leaked, lost, mounts, asks>>

\* A process that ends with its files: its containers and buffers stay as they
\* are, and so does its channel.
Crash(p) ==
    /\ ~Gone(p)
    /\ Plain("crash_start") => proc[p].pc \in Serving
    /\ proc' = [proc EXCEPT ![p] = NoProc]
    /\ lost' = lost + proc[p].buf
    /\ UNCHANGED <<world, data, recv, send, ids, pool, leaked, mounts, asks>>

-----------------------------------------------------------------------------

Receive(p) ==
    \/ MountBuffers(p) \/ MountRegistered(p) \/ MountCopied(p) \/ MountFetched(p)
    \/ MountPreallocated(p) \/ MountChecked(p)
    \/ GotContainer(p) \/ GotBuffer(p) \/ RemovedBg(p) \/ Reserved(p) \/ Unreserved(p)
    \/ UmountFreed(p) \/ UmountDone(p)

Process(p) ==
    \/ Mount(p) \/ IpcInit(p)
    \/ NeedContainer(p) \/ NeedBuffer(p)
    \/ \E c \in Containers : RemoveBg(p, c) \/ Unreserve(p, c)
    \/ \E c \in Containers, type \in {"READ", "WRITE"} : Reserve(p, c, type)
    \/ Umount(p) \/ IpcExit(p)
    \/ Crash(p)
    \/ Receive(p)

Next ==
    \/ NvfuseFormat \/ MountRefused \/ PrimaryStart \/ PrimaryStop \/ PrimaryCrash \/ PrimaryPoll
    \/ \E p \in Procs : Process(p)

\* primary_poll and a process that waits for an answer spin on their rings.
Fairness == WF_vars(PrimaryPoll) /\ \A p \in Procs : WF_vars(Receive(p))

Spec == Init /\ [][Next]_vars /\ Fairness

-----------------------------------------------------------------------------
(* Properties. *)

TypeOK ==
    /\ cp.stop \in {"none", "assert_state", "assert_container", "assert_write_lock", "endless_search"}
    /\ cp.free \in 0..NrContainers /\ cp.buf \in 0..TotalBuffers
    /\ ondisk \in {"FORMATTED", "MOUNTED", "UMOUNTED", "CRASHED"}
    /\ primary \in {"off", "running", "stopped"}
    /\ \A p \in Procs : /\ proc[p].pc \in {"off"} \cup Starting \cup Serving \cup Stopping \cup Panics
                        /\ proc[p].chan \in 0..(Channels - 1)
                        /\ proc[p].bgs \subseteq Containers \ {0}
                        /\ proc[p].buf \in 0..MaxBuffers
    /\ Range(ids) \subseteq ChannelIds
    /\ pool \in 0..PoolSize
    /\ mounts \in 0..Mounts /\ asks \in 0..Asks /\ boots \in 0..Boots

\* No assertion, rte_panic or endless search of the control plane and of the
\* processes is reached, but for the two that stand for a file system without
\* a free container (nvfuse_mount, nvfuse_alloc_new_inode).
AssertionsHold ==
    /\ primary # "stopped"
    /\ \A p \in Procs : proc[p].pc \notin Panics \ {"assert_root", "assert_space"}

\* free_containers is the number of containers without an owner; the search
\* for a new container ends only because of this.
ContainersCounted ==
    primary = "running" => cp.free = Cardinality({c \in Containers : cp.tab[c].owner = 0})

\* A container is in the list of at most one process, and the control plane
\* knows it as acquired by the channel of this process.
ContainersLeased ==
    primary = "running" =>
        /\ \A p \in Procs : ~Gone(p) =>
              \A c \in proc[p].bgs : cp.tab[c].owner = proc[p].chan /\ cp.tab[c].status = "ACQUIRED"
        /\ \A p, q \in Procs : ~Gone(p) /\ ~Gone(q) /\ p # q => proc[p].bgs \cap proc[q].bgs = {}

\* A container that the control plane may hand out to anybody holds no file
\* and no directory of an application.
FreeContainersEmpty ==
    primary = "running" =>
        \A c \in Containers : cp.tab[c].owner = 0 => data[c] = {} /\ c \notin Roots

Holders(c) == {p \in Procs : ~Gone(p) /\ c \in proc[p].held /\ proc[p].pc # "reserve"}

\* A reservation lasts until its holder gives it back: the reference count
\* covers all the holders, and a writer is alone.
ReservationsCounted ==
    primary = "running" =>
        \A c \in Containers :
            /\ Cardinality(Holders(c)) <= cp.tab[c].ref
            /\ cp.tab[c].status = "WRITE_LOCKED" => cp.tab[c].ref = 1
            /\ cp.tab[c].ref > 0 => cp.tab[c].status \in {"READ_LOCKED", "WRITE_LOCKED"}

\* A container belongs to one process, one that may be handed out to the next
\* holds nothing of the last, and the free ones and the reservations are
\* counted right, through every mount, umount, refusal and crash.
LeasesSound ==
    /\ ContainersLeased
    /\ FreeContainersEmpty
    /\ ContainersCounted
    /\ ReservationsCounted

Sum(f) == FoldFunction(+, 0, f)

\* Buffers in a completion that grants them or in a request that gives them back.
BuffersInFlight ==
    Sum([i \in 1..Len(recv) |-> IF recv[i].op = "BUFFER_FREE" THEN recv[i].arg ELSE 0])
    + Sum([ch \in ChannelIds |->
             Sum([i \in 1..Len(send[ch]) |-> IF send[ch][i].op = "BUFFER_ALLOC" THEN send[ch][i].ret ELSE 0])])

\* Every buffer is in the pool of the control plane, with a process, with a
\* crashed process or on its way.
BuffersAccounted ==
    primary = "running" =>
        cp.buf + Sum([p \in Procs |-> proc[p].buf]) + lost + BuffersInFlight = TotalBuffers

\* Every message of the pool is free, holds a channel number, is in a ring, or
\* is the leftover of a refused request for a container.
MessagesAccounted ==
    primary = "running" =>
        pool + Len(ids) + Len(recv) + Sum([ch \in ChannelIds |-> Len(send[ch])]) + leaked = PoolSize

\* Buffers and messages are accounted for, through every mount, umount,
\* refusal and crash.
Accounted ==
    /\ TypeOK
    /\ BuffersAccounted
    /\ MessagesAccounted

Awaited ==
    [buffer |-> "BUFFER_ALLOC", register |-> "APP_REGISTER", copy |-> "SUPERBLOCK_COPY",
     fetch |-> "CONTAINER_ALLOC", prealloc |-> "CONTAINER_ALLOC", health |-> "HEALTH_CHECK",
     need |-> "CONTAINER_ALLOC", more |-> "BUFFER_ALLOC", give |-> "CONTAINER_RELEASE",
     reserve |-> "RESERVATION_ACQUIRE", unreserve |-> "RESERVATION_ACQUIRE",
     free |-> "BUFFER_FREE", unregister |-> "APP_UNREGISTER"]

\* A process that waits takes the answer to its own request off the ring: no
\* other answer is in the ring of its channel, and nobody shares the channel.
OwnAnswers ==
    \A p \in Procs : ~Gone(p) =>
        /\ \A q \in Procs \ {p} : ~Gone(q) => proc[p].chan # proc[q].chan
        /\ LET ring == send[proc[p].chan] IN
           \/ ring = <<>>
           \/ Len(ring) = 1 /\ proc[p].pc \in DOMAIN Awaited /\ ring[1].op = Awaited[proc[p].pc]

\* A container that has been handed out or taken back is so in the log file
\* that was written last, or read at the start, before anybody learns of it;
\* restarts included, though a start whose latest log is numbered 0 reads none.
LogHoldsOwners ==
    primary = "running" /\ cp.cgen > 1 =>
        LET log == cp.clog[1 - cp.ccur] IN
        /\ log.gen = cp.cgen - 1
        /\ \A c \in Containers : log.table[c].owner = cp.tab[c].owner

\* After a crash of the primary process nothing is mounted before mkfs.
CrashDetected == crashed => primary # "running"

\* nvfuse_mount comes to its end, one way or the other, whatever the other
\* processes ask for meanwhile: its two loops over containers terminate.
MountEnds ==
    \A p \in Procs :
        proc[p].pc \in Starting \ {"attach"} ~> proc[p].pc \notin Starting \ {"attach"} \/ primary # "running"

=============================================================================
