---------------------------- MODULE ControlPlane ----------------------------
(***************************************************************************)
(* The tables of the control plane (nvfuse_control_plane.c): which channel *)
(* owns which container (a block group handed to a process), the           *)
(* registered applications, the pool of buffers, and the two log files in  *)
(* which each table is kept.                                               *)
(*                                                                         *)
(* Everything is an operator from a state to a state and a result: the     *)
(* control plane is one thread, and a handler runs to its end between two  *)
(* messages.  DataPlane composes it with the processes.                    *)
(*                                                                         *)
(* A state has the fields                                                  *)
(*   app     channel -> its node of app_manage_table                       *)
(*   tab     container -> its entry of reservation_table                   *)
(*   free, last, buf   free_containers, last_alloc_container_id,           *)
(*                     curr_buffer_size                                    *)
(*   cgen, ccur, agen, acur   generation and next log file of both tables  *)
(*   clog, alog   the log files: log number -> [gen, table], or NoLog      *)
(*   dirs    name of a container directory -> container of its inode       *)
(*   state   sb_state of the superblock in memory                          *)
(*   stop    the assertion or endless loop that ended the control plane    *)
(* Of these, clog, alog and dirs are in files of the file system.          *)
(***************************************************************************)
EXTENDS Integers, FiniteSets, Sequences, FiniteSetsExt

CONSTANTS
    NrContainers,   \* block groups of the device, sb_bg_num
    Channels,       \* SPDK_NUM_CORES: the channels are 1..(Channels - 1)
    TotalBuffers    \* sb_control_plane_buffer_size

ASSUME ControlAssumption ==
    /\ NrContainers \in Nat \ {0}
    /\ Channels \in Nat \ {0}
    /\ TotalBuffers \in Nat \ {0}

Containers == 0..(NrContainers - 1)

ChannelIds == 1..(Channels - 1)

ControlOwner == -1

NoLog == [gen |-> 0]

FreeEntry == [owner |-> 0, status |-> "UNLOCKED", ref |-> 0]

Stopped(s, why) == [s EXCEPT !.stop = why]

-----------------------------------------------------------------------------
(* The log files. *)

Logs == 0..1

StoreContainerTable(s) ==
    [s EXCEPT !.clog[s.ccur] = [gen |-> s.cgen, table |-> s.tab],
              !.cgen = @ + 1,
              !.ccur = (@ + 1) % 2]

StoreAppTable(s) ==
    [s EXCEPT !.alog[s.acur] = [gen |-> s.agen, table |-> s.app],
              !.agen = @ + 1,
              !.acur = (@ + 1) % 2]

\* The first log with the greatest generation, 0 when there is none.
LatestLogFile(log) ==
    IF \A l \in Logs : log[l].gen = 0 THEN 0
    ELSE CHOOSE l \in Logs : /\ \A k \in Logs : log[k].gen <= log[l].gen
                             /\ \A k \in Logs : k < l => log[k].gen < log[l].gen

\* A latest log numbered 0 is taken for no log.
LoadAppTable(s) ==
    LET l == LatestLogFile(s.alog) IN
    IF l = 0 THEN s
    ELSE [s EXCEPT !.app = s.alog[l].table, !.agen = s.alog[l].gen + 1]

LoadContainerTable(s) ==
    LET l == LatestLogFile(s.clog) IN
    IF l = 0 THEN s
    ELSE [s EXCEPT !.tab = s.clog[l].table, !.cgen = s.clog[l].gen + 1]

-----------------------------------------------------------------------------
(* Start and end. *)

NoApp == [chan |-> -1, name |-> <<>>, root |-> 0]

AppManageTableInit(s) ==
    [s EXCEPT !.app = [ch \in ChannelIds |-> NoApp], !.agen = 1, !.acur = 0]

BufferInit(s) == [s EXCEPT !.buf = TotalBuffers]

\* Container 0 belongs to the control plane.
ContainerTableInit(s) ==
    [s EXCEPT !.tab = [c \in Containers |->
                         IF c = 0 THEN [FreeEntry EXCEPT !.owner = ControlOwner] ELSE FreeEntry],
              !.free = NrContainers - 1,
              !.last = 0,
              !.cgen = 1,
              !.ccur = 0]

ControlPlaneInit(s) ==
    LoadContainerTable(LoadAppTable(ContainerTableInit(BufferInit(AppManageTableInit(s)))))

ControlPlaneExit(s) == StoreAppTable(StoreContainerTable(s))

\* A file system after mkfs: no directory and no log.
Formatted ==
    [app |-> [ch \in ChannelIds |-> NoApp], tab |-> [c \in Containers |-> FreeEntry],
     free |-> 0, last |-> 0, buf |-> 0, cgen |-> 0, ccur |-> 0, agen |-> 0, acur |-> 0,
     clog |-> [l \in Logs |-> NoLog], alog |-> [l \in Logs |-> NoLog],
     dirs |-> <<>>, state |-> "NONE", stop |-> "none"]

-----------------------------------------------------------------------------
(* Containers. *)

\* The containers in the order of the search, which starts behind the last
\* one handed out and goes round.
SearchOrder(s) == [i \in 1..NrContainers |-> (s.last + i) % NrContainers]

FirstFit(s, owner) ==
    LET at == {i \in 1..NrContainers : /\ s.tab[SearchOrder(s)[i]].owner = owner
                                       /\ s.tab[SearchOrder(s)[i]].status = "UNLOCKED"}
    IN  IF at = {} THEN 0 ELSE Min(at)

\* Variant: the search for a free container takes the next one that the channel
\* does not own yet.
AllocNewIgnoresOwner(s, ch, status) ==
    LET at == {k \in 1..NrContainers : SearchOrder(s)[k] # 0 /\ s.tab[SearchOrder(s)[k]].owner # ch}
        i == IF at = {} THEN 0 ELSE Min(at)
        c == SearchOrder(s)[i]
    IN  IF s.free = 0 THEN [s |-> s, ret |-> 0]
        ELSE IF i = 0 THEN [s |-> Stopped(s, "endless_search"), ret |-> 0]
        ELSE [s |-> StoreContainerTable(
                      [s EXCEPT !.tab[c] = [owner |-> ch, status |-> status, ref |-> 0],
                                !.free = @ - 1, !.last = c]),
              ret |-> c]

\* Variant: the count of the free containers is left as it was.
AllocNewUncounted(s, ch, status) ==
    LET i == FirstFit(s, 0)
        c == SearchOrder(s)[i]
    IN  IF s.free = 0 THEN [s |-> s, ret |-> 0]
        ELSE IF i = 0 THEN [s |-> Stopped(s, "endless_search"), ret |-> 0]
        ELSE [s |-> StoreContainerTable(
                      [s EXCEPT !.tab[c] = [owner |-> ch, status |-> status, ref |-> 0], !.last = c]),
              ret |-> c]

\* Variant: the search ends without the store of the table.
AllocNewUnlogged(s, ch, status) ==
    LET i == FirstFit(s, 0)
        c == SearchOrder(s)[i]
    IN  IF s.free = 0 THEN [s |-> s, ret |-> 0]
        ELSE IF i = 0 THEN [s |-> Stopped(s, "endless_search"), ret |-> 0]
        ELSE [s |-> [s EXCEPT !.tab[c] = [owner |-> ch, status |-> status, ref |-> 0],
                              !.free = @ - 1, !.last = c],
              ret |-> c]

\* The loop has no bound: when free_containers promises a container that the
\* table does not have, it never ends.
AllocNew(s, ch, status) ==
    LET i == FirstFit(s, 0)
        c == SearchOrder(s)[i]
    IN  IF s.free = 0 THEN [s |-> s, ret |-> 0]
        ELSE IF i = 0 THEN [s |-> Stopped(s, "endless_search"), ret |-> 0]
        ELSE [s |-> StoreContainerTable(
                      [s EXCEPT !.tab[c] = [owner |-> ch, status |-> status, ref |-> 0],
                                !.free = @ - 1, !.last = c]),
              ret |-> c]

AllocAllocated(s, ch, status) ==
    LET i == FirstFit(s, ch)
        c == SearchOrder(s)[i]
    IN  IF i = 0 THEN [s |-> s, ret |-> 0]
        ELSE IF c = 0 THEN [s |-> Stopped(s, "assert_container"), ret |-> 0]
        ELSE [s |-> StoreContainerTable(
                      [s EXCEPT !.tab[c].status = status, !.tab[c].ref = 0, !.last = c]),
              ret |-> c]

ContainerAlloc(s, ch, type, status) ==
    IF type = "NEW" THEN AllocNew(s, ch, status) ELSE AllocAllocated(s, ch, status)

ContainerRelease(s, ch, c) ==
    IF s.tab[c].owner # ch \/ s.tab[c].ref # 0 THEN [s |-> s, ret |-> -1]
    ELSE [s |-> StoreContainerTable([s EXCEPT !.tab[c] = FreeEntry, !.free = @ + 1]), ret |-> 0]

\* Unlocks the containers of a channel and leaves them to it.  The loop ends at
\* the first one that is reserved; what follows stays as it was.
ReleaseByCoreid(s, ch) ==
    LET Mine == {c \in Containers \ {0} : s.tab[c].owner = ch}
        Done == {c \in Mine : \A d \in Mine : d <= c => s.tab[d].ref = 0}
    IN  [s EXCEPT !.tab = [c \in Containers |->
                             IF c \in Done THEN [s.tab[c] EXCEPT !.status = "UNLOCKED"] ELSE s.tab[c]]]

ReservationAcquire(s, c, type) ==
    CASE type = "WRITE" /\ s.tab[c].status = "UNLOCKED" ->
           [s |-> [s EXCEPT !.tab[c].status = "WRITE_LOCKED", !.tab[c].ref = @ + 1], ret |-> 0]
      [] type = "READ" /\ s.tab[c].status \in {"UNLOCKED", "READ_LOCKED"} ->
           [s |-> [s EXCEPT !.tab[c].status = "READ_LOCKED", !.tab[c].ref = @ + 1], ret |-> 0]
      [] OTHER -> [s |-> s, ret |-> -1]

\* Nobody asks whose reservation it is.
ReservationRelease(s, c) ==
    LET e == s.tab[c] IN
    CASE e.status = "WRITE_LOCKED" ->
           [s |-> IF e.ref = 1 THEN [s EXCEPT !.tab[c].status = "UNLOCKED", !.tab[c].ref = 0]
                  ELSE Stopped(s, "assert_write_lock"),
            ret |-> 0]
      [] e.status = "READ_LOCKED" ->
           [s |-> [s EXCEPT !.tab[c].status = IF e.ref = 1 THEN "UNLOCKED" ELSE @, !.tab[c].ref = @ - 1],
            ret |-> 0]
      [] OTHER -> [s |-> s, ret |-> -1]

-----------------------------------------------------------------------------
(* Applications, the copy of the superblock, buffers. *)

\* The directory of a new application is made in a container of its own; with
\* no container left root is 0, and the directory lands in container 0.
AppManageTableAdd(s, ch, name) ==
    LET node == [s EXCEPT !.app[ch].chan = ch, !.app[ch].name = name]
        r == ContainerAlloc(node, ch, "NEW", "UNLOCKED")
    IN  IF ch \notin ChannelIds THEN [s |-> s, ret |-> -1]
        ELSE IF name \in DOMAIN s.dirs THEN [s |-> node, ret |-> 0]
        ELSE [s |-> [r.s EXCEPT !.app[ch].root = r.ret,
                                !.dirs = [n \in DOMAIN @ \cup {name} |-> IF n = name THEN r.ret ELSE @[n]]],
              ret |-> 0]

\* Unregistration that keeps the containers, the one nvfuse_umount asks for.
AppManageTableRemove(s, ch) ==
    IF ch \notin ChannelIds \/ s.app[ch].chan # ch THEN [s |-> s, ret |-> -1]
    ELSE [s |-> StoreAppTable(StoreContainerTable(ReleaseByCoreid(s, ch))), ret |-> 0]

NoCopy == [root |-> 0, state |-> "NONE"]

SuperblockCopy(s, name) ==
    IF name \in DOMAIN s.dirs THEN [root |-> s.dirs[name], state |-> s.state] ELSE NoCopy

BufferAlloc(s, size) ==
    IF s.buf < size THEN [s |-> s, ret |-> 0]
    ELSE [s |-> [s EXCEPT !.buf = @ - size], ret |-> size]

\* Variant: buffers that come back are not added to the pool.
BufferFreeUncounted(s, size) ==
    [s |-> s, ret |-> IF size = 0 \/ s.buf + size > TotalBuffers THEN -1 ELSE 0]

BufferFree(s, size) ==
    IF size = 0 \/ s.buf + size > TotalBuffers THEN [s |-> s, ret |-> -1]
    ELSE [s |-> [s EXCEPT !.buf = @ + size], ret |-> 0]

-----------------------------------------------------------------------------
(* A completion carries the channel, the result and, for a copy of the     *)
(* superblock, the container of the root directory and the state.  Its     *)
(* opcode is that of the request, but for the release of a reservation,    *)
(* whose completion is built with the opcode of an acquisition.            *)

Completion(m, ret, copy) ==
    [op |-> IF m.op = "RESERVATION_RELEASE" THEN "RESERVATION_ACQUIRE" ELSE m.op,
     chan |-> m.chan, ret |-> ret, copy |-> copy]

Answered(m, r) == [s |-> r.s, cpl |-> Completion(m, r.ret, NoCopy)]

PrimaryPollCore(s, m) ==
    CASE m.op = "APP_REGISTER" -> Answered(m, AppManageTableAdd(s, m.chan, m.arg))
      [] m.op = "APP_UNREGISTER" -> Answered(m, AppManageTableRemove(s, m.chan))
      [] m.op = "SUPERBLOCK_COPY" ->
           LET copy == SuperblockCopy(s, m.arg)
           IN  [s |-> s, cpl |-> Completion(m, IF copy = NoCopy THEN -1 ELSE 0, copy)]
      [] m.op = "BUFFER_ALLOC" -> Answered(m, BufferAlloc(s, m.arg))
      [] m.op = "BUFFER_FREE" -> Answered(m, BufferFree(s, m.arg))
      [] m.op = "CONTAINER_ALLOC" -> Answered(m, ContainerAlloc(s, m.chan, m.arg, "ACQUIRED"))
      [] m.op = "CONTAINER_RELEASE" -> Answered(m, ContainerRelease(s, m.chan, m.arg))
      [] m.op = "RESERVATION_ACQUIRE" -> Answered(m, ReservationAcquire(s, m.arg[1], m.arg[2]))
      [] m.op = "RESERVATION_RELEASE" -> Answered(m, ReservationRelease(s, m.arg))
      [] m.op = "HEALTH_CHECK" -> Answered(m, [s |-> s, ret |-> 0])

=============================================================================
