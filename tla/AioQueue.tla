------------------------------ MODULE AioQueue ------------------------------
(***************************************************************************)
(* Asynchronous direct I/O (nvfuse_aio.c): nvfuse_io_submit and            *)
(* nvfuse_io_getevents on one queue of one application thread.  A request  *)
(* is split into one job per extent of the file; the jobs share one        *)
(* long-lived reactor task, whose rings wrap around, with the reactor core *)
(* and the device.  The queue's lists and counters belong to the thread.   *)
(*                                                                         *)
(* A job is known by its request (job->tag1): what the rings hold, Reqs,   *)
(* are here the requests of the jobs, struct nvfuse_aio_req.               *)
(***************************************************************************)
EXTENDS ReactorTask, SequencesExt, FiniteSets

CONSTANTS
  Jobs,       \* the size of sb->io_job_mempool
  Depth,      \* max_depth of nvfuse_aio_queue_init
  IoBlocks,   \* the blocks of a request
  Pieces,     \* the numbers of extents a request may have
  MaxEvents,  \* the nr of nvfuse_io_getevents; min_nr is 1
  MaxPending  \* a bound on the events the reactor core has not taken

ASSUME AioQueueAssumption ==
  /\ Jobs \in Nat
  /\ Depth \in Nat \ {0}
  /\ IoBlocks \in Nat \ {0}
  /\ Pieces \subseteq 1 .. IoBlocks
  /\ 2 * Depth + 1 <= MaxRequest
  /\ MaxEvents \in 1 .. 2 * Depth + 1
  /\ MaxPending \in Nat \ {0}

VARIABLES
  task,       \* aioq->task
  asq, acq,   \* the submission and the completion list of the queue
  total,      \* total_bio_job_count
  bio_count,  \* areq->bio_job_count
  extents,    \* the contiguous pieces of the request on the device
  job_pool,   \* how many jobs sb->io_job_mempool has left
  events,     \* events of the task that the reactor core has not taken
  core,       \* the core is emptying the submission ring
  device,     \* how many jobs of each request the device has
  pc, todo, ret, jobs,
              \* the thread: the rest of the list it submits, the result so
              \* far, how many jobs of a request it has still to put
  given,      \* the requests the application has submitted and not got back
  crowded     \* history: the requests going have had more extents than a ring
              \* of the task has room for

coreVars == <<events, core, device>>
callVars == <<todo, ret, jobs>>
vars == <<task, asq, acq, total, bio_count, extents, job_pool, coreVars,
          pc, callVars, given, crowded>>

TypeOK ==
  /\ task \in TaskType
  /\ asq \in Seq(Reqs) /\ Len(asq) <= Depth
  /\ acq \in Seq(Reqs) /\ Len(acq) <= Depth
  /\ total \in Int
  /\ bio_count \in [Reqs -> Int]
  /\ extents \in [Reqs -> 0 .. IoBlocks]
  /\ job_pool \in 0 .. Jobs
  /\ events \in 0 .. MaxPending
  /\ core \in BOOLEAN
  /\ device \in [Reqs -> 0 .. Jobs]
  /\ pc \in {"idle", "enqueue", "gen", "put", "get", "wait", "stopped",
             "no_jobs", "assert_count"}
  /\ todo \in Seq(Reqs)
  /\ ret \in {0, -1}
  /\ jobs \in 0 .. IoBlocks
  /\ given \in SUBSET Reqs
  /\ crowded \in BOOLEAN

\* The empty queue, with a task for qdepth jobs.
QueueOf(qdepth) ==
  /\ task = AllocTask(FreshTask, qdepth)
  /\ asq = <<>>
  /\ acq = <<>>
  /\ total = 0
  /\ bio_count = [a \in Reqs |-> 0]
  /\ extents = [a \in Reqs |-> 0]
  /\ job_pool = Jobs
  /\ events = 0
  /\ core = FALSE
  /\ device = [a \in Reqs |-> 0]
  /\ pc = "idle"
  /\ todo = <<>>
  /\ ret = 0
  /\ jobs = 0
  /\ given = {}
  /\ crowded = FALSE

\* Variant: a task for as many jobs as requests.
InitShallow == QueueOf(Depth)

\* nvfuse_aio_queue_init: a task for twice as many jobs as requests.
Init == QueueOf(2 * Depth)

-----------------------------------------------------------------------------
(* nvfuse_io_submit                                                        *)

\* The application keeps at most Depth requests going.  A bound: the list that
\* overfills the rings is its last.
IoSubmit(list) ==
  /\ pc = "idle"
  /\ ~crowded
  /\ ToSet(list) \cap given = {}
  /\ Cardinality(given) + Len(list) <= Depth
  /\ todo' = list
  /\ given' = given \cup ToSet(list)
  /\ ret' = 0
  /\ pc' = "enqueue"
  /\ UNCHANGED <<task, asq, acq, total, bio_count, extents, job_pool,
                 coreVars, jobs, crowded>>

Sum(f) == FoldFunction(+, 0, f)

\* nvfuse_aio_queue_submission up to its loop: the file system prepares the
\* request, of n extents, and nvfuse_aio_queue_enqueue appends it.
Enqueue(n) ==
  /\ pc = "enqueue"
  /\ todo # <<>>
  /\ extents' = [extents EXCEPT ![Head(todo)] = n]
  /\ crowded' = (crowded \/ Sum(extents') > 2 * Depth)
  /\ asq' = IF Len(asq) = Depth THEN asq ELSE Append(asq, Head(todo))
  /\ todo' = Tail(todo)
  /\ pc' = "gen"
  /\ UNCHANGED <<task, acq, total, bio_count, job_pool, coreVars, ret, jobs,
                 given>>

\* The preparation fails: the request is not queued.
Reject ==
  /\ pc = "enqueue"
  /\ todo # <<>>
  /\ todo' = Tail(todo)
  /\ ret' = -1
  /\ UNCHANGED <<task, asq, acq, total, bio_count, extents, job_pool,
                 coreVars, pc, jobs, given, crowded>>

\* The end of nvfuse_io_submit: its result is that of the last request, and
\* an application that sees an error gives up.
Submitted ==
  /\ pc = "enqueue"
  /\ todo = <<>>
  /\ pc' = IF ret = 0 THEN "idle" ELSE "stopped"
  /\ UNCHANGED <<task, asq, acq, total, bio_count, extents, job_pool,
                 coreVars, callVars, given, crowded>>

\* nvfuse_make_jobs, one job per block: it stops the program when there are
\* too few.
NoJobs ==
  /\ pc = "gen"
  /\ asq # <<>>
  /\ job_pool < IoBlocks
  /\ pc' = "no_jobs"
  /\ UNCHANGED <<task, asq, acq, total, bio_count, extents, job_pool,
                 coreVars, callVars, given, crowded>>

\* nvfuse_aio_gen_dev_reqs for the first request of the submission list: a job
\* for every extent; nvfuse_release_jobs takes back the others.
GenDevReqs ==
  /\ pc = "gen"
  /\ asq # <<>>
  /\ job_pool >= IoBlocks
  /\ job_pool' = job_pool - extents[Head(asq)]
  /\ bio_count' = [bio_count EXCEPT ![Head(asq)] = IoBlocks]
  /\ jobs' = extents[Head(asq)]
  /\ pc' = "put"
  /\ UNCHANGED <<task, asq, acq, total, extents, coreVars, todo, ret, given,
                 crowded>>

\* nvfuse_fgetblk fails: the jobs are not given back and the request stays
\* first in the list.
GenFails ==
  /\ pc = "gen"
  /\ asq # <<>>
  /\ job_pool >= IoBlocks
  /\ job_pool' = job_pool - IoBlocks
  /\ bio_count' = [bio_count EXCEPT ![Head(asq)] = IoBlocks]
  /\ ret' = -1
  /\ pc' = "enqueue"
  /\ UNCHANGED <<task, asq, acq, total, extents, coreVars, todo, jobs, given,
                 crowded>>

\* The submission list is empty: nvfuse_aio_queue_submission returns.
Generated ==
  /\ pc = "gen"
  /\ asq = <<>>
  /\ ret' = 0
  /\ pc' = "enqueue"
  /\ UNCHANGED <<task, asq, acq, total, bio_count, extents, job_pool,
                 coreVars, todo, jobs, given, crowded>>

\* reactor_submit_reqs: one job.
Put ==
  /\ pc = "put"
  /\ jobs > 0
  /\ ~SqIsFull(task)
  /\ task' = SqPut(task, Head(asq))
  /\ jobs' = jobs - 1
  /\ UNCHANGED <<asq, acq, total, bio_count, extents, job_pool, coreVars, pc,
                 todo, ret, given, crowded>>

\* When the ring is full the jobs put so far stay in it without an event, the
\* others are not given back, and the request stays first in the list.
PutFails ==
  /\ pc = "put"
  /\ jobs > 0
  /\ SqIsFull(task)
  /\ jobs' = 0
  /\ ret' = -1
  /\ pc' = "enqueue"
  /\ UNCHANGED <<task, asq, acq, total, bio_count, extents, job_pool, coreVars,
                 todo, given, crowded>>

\* The event of reactor_submit_reqs, the counts of nvfuse_aio_gen_dev_reqs, and
\* nvfuse_aio_queue_dequeue.
SubmitEvent ==
  /\ pc = "put"
  /\ jobs = 0
  /\ events < MaxPending
  /\ events' = events + 1
  /\ total' = total + extents[Head(asq)]
  /\ bio_count' = [bio_count EXCEPT ![Head(asq)] = extents[Head(asq)]]
  /\ asq' = Tail(asq)
  /\ pc' = "gen"
  /\ UNCHANGED <<task, acq, extents, job_pool, core, device, callVars, given,
                 crowded>>

-----------------------------------------------------------------------------
(* nvfuse_io_getevents                                                     *)

IoGetevents ==
  /\ pc = "idle"
  /\ given # {}
  /\ pc' = "get"
  /\ UNCHANGED <<task, asq, acq, total, bio_count, extents, job_pool,
                 coreVars, callVars, given, crowded>>

\* Variant: any job completes its request.
FinishFirst(q, a) ==
  LET n == q.count[a] - 1
  IN [count |-> [q.count EXCEPT ![a] = n],
      list |-> IF Len(q.list) < Depth THEN Append(q.list, a) ELSE q.list]

\* nvfuse_aio_wait_dev_cpls for one job: its request has one less to wait for,
\* and goes to the completion list when it has none.
Finish(q, a) ==
  LET n == q.count[a] - 1
  IN [count |-> [q.count EXCEPT ![a] = n],
      list |-> IF n = 0 /\ Len(q.list) < Depth THEN Append(q.list, a)
               ELSE q.list]

\* reactor_cq_get_reqs(task, jobs, 1, nr), the rest of
\* nvfuse_aio_wait_dev_cpls, and the loop over the completion list, which ends
\* after `limit` requests.
GetUpTo(limit) ==
  LET size == CqSize(task)
      n == IF size > MaxEvents THEN MaxEvents ELSE size
      q == FoldLeft(Finish, [count |-> bio_count, list |-> acq],
                    CqRead(task, n))
      k == IF Len(q.list) > limit THEN limit ELSE Len(q.list)
      reaped == SubSeq(q.list, 1, k)
  IN
  /\ pc = "get"
  /\ IF size < 1
     THEN /\ pc' = "wait"
          /\ UNCHANGED <<task, total, bio_count, extents, job_pool, acq, given>>
     ELSE /\ task' = CqTake(task, n)
          /\ total' = total - n
          /\ bio_count' = q.count
          /\ job_pool' = job_pool + n
          /\ extents' = [a \in Reqs |-> IF a \in ToSet(reaped) THEN 0
                                        ELSE extents[a]]
          /\ acq' = SubSeq(q.list, k + 1, Len(q.list))
          /\ given' = given \ ToSet(reaped)
          /\ pc' = IF \E a \in ToSet(reaped) : q.count[a] # 0
                   THEN "assert_count" ELSE "idle"
  /\ UNCHANGED <<asq, coreVars, callVars, crowded>>

\* Variant: the loop over the completion list stops after min_nr requests.
GetOneEvent == GetUpTo(1)

\* nvfuse_io_getevents.
Get == GetUpTo(MaxEvents)

-----------------------------------------------------------------------------
(* The reactor core and the device.                                        *)

TakeEvent ==
  /\ ~core
  /\ events > 0
  /\ core' = TRUE
  /\ events' = events - 1
  /\ UNCHANGED <<task, asq, acq, total, bio_count, extents, job_pool,
                 device, pc, callVars, given, crowded>>

\* reactor_submit_on_core: one turn of its loop.
SubmitOnCore ==
  /\ core
  /\ IF SqIsEmpty(task)
     THEN /\ core' = FALSE
          /\ UNCHANGED <<task, device>>
     ELSE /\ device' = [device EXCEPT ![SqFirst(task)] = @ + 1]
          /\ task' = SqGet(task)
          /\ UNCHANGED core
  /\ UNCHANGED <<asq, acq, total, bio_count, extents, job_pool, events,
                 pc, callVars, given, crowded>>

\* The device has performed a job: reactor_bio_cb.  A job that finds the
\* completion ring full is lost.
BioCb(a) ==
  /\ ~core
  /\ device[a] > 0
  /\ device' = [device EXCEPT ![a] = @ - 1]
  /\ IF CqIsFull(task)
     THEN UNCHANGED <<task, pc>>
     ELSE /\ task' = CqPut(task, a)
          /\ pc' = IF pc = "wait" THEN "get" ELSE pc
  /\ UNCHANGED <<asq, acq, total, bio_count, extents, job_pool, events,
                 core, callVars, given, crowded>>

-----------------------------------------------------------------------------
Lists == {l \in SeqOf(Reqs, Depth) : l # <<>> /\ IsInjective(l)}

Next ==
  \/ \E list \in Lists : IoSubmit(list)
  \/ \E n \in Pieces : Enqueue(n)
  \/ Reject \/ Submitted \/ NoJobs \/ GenDevReqs \/ GenFails \/ Generated
  \/ Put \/ PutFails \/ SubmitEvent \/ IoGetevents \/ Get
  \/ TakeEvent \/ SubmitOnCore
  \/ \E a \in Reqs : BioCb(a)

Spec == Init /\ [][Next]_vars

-----------------------------------------------------------------------------
(* Properties                                                              *)

\* The jobs of a request on their way from the submission ring to the thread.
JobsOf(a) ==
  Cardinality({i \in DOMAIN task.sq : task.sq[i] = a}) + device[a]
  + Cardinality({i \in DOMAIN task.cq : task.cq[i] = a})

\* total_bio_job_count counts the jobs on their way: no completion is lost in
\* a full completion ring, and no job is left in the submission ring by a
\* submission that failed half way.
TotalCounts ==
  pc \in {"idle", "enqueue", "gen", "get", "wait"} =>
    total = Sum([a \in Reqs |-> JobsOf(a)])

\* assert(areq->bio_job_count == 0) of nvfuse_io_getevents: a request in the
\* completion list has no job left.
CountAssert == pc # "assert_count"

\* The queue's and the requests' counts of jobs are right whenever the code
\* relies on them, through failed preparations and leaked jobs and with rings
\* that are filled to the last slot.  They are wrong only once the requests
\* going have had more extents than the 2 * Depth slots nvfuse_aio_queue_init
\* asks for: then completions are lost, and a submission that fails half way is
\* repeated on top of its own jobs, until the assertion fails.
JobsCounted == TypeOK /\ (~crowded => TotalCounts /\ CountAssert)

\* A request the application may use again, because it is not submitted or
\* has been returned, has no job on its way that would still write to its
\* buffer, as long as the rings were never overfilled.
ReapedComplete == ~crowded => \A a \in Reqs \ given : JobsOf(a) = 0

\* The application never waits in nvfuse_io_getevents while a completed
\* request sits in the completion list.
NothingLeftBehind == pc # "get" \/ acq = <<>>
=============================================================================
