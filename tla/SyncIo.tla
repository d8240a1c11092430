------------------------------- MODULE SyncIo -------------------------------
(***************************************************************************)
(* Block I/O through the reactor core (nvfuse_reactor.c, and the jobs of   *)
(* nvfuse_sync_dirty_data): reactor_sync_read_blk, reactor_sync_write_blk, *)
(* reactor_sync_flush and the dirty data flush all allocate a task, put    *)
(* their requests in its submission ring, send one event to the reactor    *)
(* core and wait at the completion ring.  Threads run concurrently with    *)
(* the core, which runs one event or one completion callback at a time,    *)
(* and with the device, which completes requests in any order.  Tasks and  *)
(* requests come from pools and are used again.                            *)
(***************************************************************************)
EXTENDS ReactorTask, Functions, FiniteSets

CONSTANTS
  Threads,
  Tasks,        \* target->task_pool
  MaxBatch,     \* AIO_MAX_QDEPTH, the largest number of requests of a call
  NoTask

ASSUME SyncIoAssumption ==
  /\ NoTask \notin Tasks
  /\ MaxBatch \in Nat \ {0}
  /\ MaxBatch < MaxRequest

VARIABLES
  task,        \* task[k]: the rings of task k
  task_pool,   \* the tasks that are not allocated
  req_pool,    \* the requests that are not allocated
  req_task,    \* req->task
  events,      \* the event ring of the reactor core: the tasks to submit
  core,        \* the task whose submission ring the core is emptying
  device,      \* the requests the device works on
  done,        \* the requests whose callback has not run yet
  pc, mine, reqs, nput, got
               \* a caller: its task, its requests, how many it has put in the
               \* submission ring, and those it has got back

devVars == <<device, done>>
callVars == <<mine, reqs, nput, got>>
vars == <<task, task_pool, req_pool, req_task, events, core, devVars, pc,
          callVars>>

Pcs == {"idle", "put", "sq_full", "get", "wait", "free"}

TypeOK ==
  /\ task \in [Tasks -> TaskType]
  /\ task_pool \in SUBSET Tasks
  /\ req_pool \in SUBSET Reqs
  /\ req_task \in [Reqs -> Tasks \cup {NoTask}]
  /\ events \in Seq(Tasks)
  /\ core \in Tasks \cup {NoTask}
  /\ device \in SUBSET Reqs
  /\ done \in SUBSET Reqs
  /\ pc \in [Threads -> Pcs]
  /\ mine \in [Threads -> Tasks \cup {NoTask}]
  /\ reqs \in [Threads -> Seq(Reqs)]
  /\ nput \in [Threads -> 0 .. MaxBatch]
  /\ got \in [Threads -> Seq(Reqs)]

Init ==
  /\ task = [k \in Tasks |-> FreshTask]
  /\ task_pool = Tasks
  /\ req_pool = Reqs
  /\ req_task = [r \in Reqs |-> NoTask]
  /\ events = <<>>
  /\ core = NoTask
  /\ device = {}
  /\ done = {}
  /\ pc = [t \in Threads |-> "idle"]
  /\ mine = [t \in Threads |-> NoTask]
  /\ reqs = [t \in Threads |-> <<>>]
  /\ nput = [t \in Threads |-> 0]
  /\ got = [t \in Threads |-> <<>>]

Goto(t, point) == pc' = [pc EXCEPT ![t] = point]

-----------------------------------------------------------------------------
(* A caller.                                                               *)

\* reactor_alloc_task, and reactor_make_single_req or nvfuse_make_jobs: a
\* task of as many entries as requests.  The program aborts when a pool is
\* empty.
Begin(t, batch) ==
  /\ pc[t] = "idle"
  /\ Len(batch) \in 1 .. MaxBatch
  /\ \E k \in task_pool :
       /\ task_pool' = task_pool \ {k}
       /\ task' = [task EXCEPT ![k] = AllocTask(@, Len(batch))]
       /\ mine' = [mine EXCEPT ![t] = k]
  /\ Range(batch) \subseteq req_pool
  /\ req_pool' = req_pool \ Range(batch)
  /\ reqs' = [reqs EXCEPT ![t] = batch]
  /\ nput' = [nput EXCEPT ![t] = 0]
  /\ got' = [got EXCEPT ![t] = <<>>]
  /\ Goto(t, "put")
  /\ UNCHANGED <<req_task, events, core, devVars>>

\* reactor_submit_reqs: one request; its callers ignore that the ring is full.
Put(t) ==
  LET k == mine[t]
      r == reqs[t][nput[t] + 1]
  IN
  /\ pc[t] = "put"
  /\ nput[t] < Len(reqs[t])
  /\ req_task' = [req_task EXCEPT ![r] = k]
  /\ IF SqIsFull(task[k])
     THEN /\ Goto(t, "sq_full")
          /\ UNCHANGED <<task, nput>>
     ELSE /\ task' = [task EXCEPT ![k] = SqPut(@, r)]
          /\ nput' = [nput EXCEPT ![t] = @ + 1]
          /\ UNCHANGED pc
  /\ UNCHANGED <<task_pool, req_pool, events, core, devVars, mine, reqs, got>>

\* The end of reactor_submit_reqs: the event for the reactor core.
Submit(t) ==
  /\ pc[t] = "put"
  /\ nput[t] = Len(reqs[t])
  /\ events' = Append(events, mine[t])
  /\ Goto(t, "get")
  /\ UNCHANGED <<task, task_pool, req_pool, req_task, core, devVars, callVars>>

\* Variant: the task is given back as soon as one request has come back.
GetOne(t) ==
  LET k == mine[t] IN
  /\ pc[t] = "get"
  /\ IF CqSize(task[k]) < 1
     THEN /\ Goto(t, "wait")
          /\ UNCHANGED <<task, got>>
     ELSE /\ task' = [task EXCEPT ![k] = CqTake(@, 1)]
          /\ got' = [got EXCEPT ![t] = @ \o CqRead(task[k], 1)]
          /\ Goto(t, "free")
  /\ UNCHANGED <<task_pool, req_pool, req_task, events, core, devVars, mine,
                 reqs, nput>>

\* reactor_cq_get_reqs(task, reqs + ptr, 1, num_reqs - ptr): at least one
\* request, or a wait on cq_cond.
Get(t) ==
  LET k == mine[t]
      size == CqSize(task[k])
      rest == Len(reqs[t]) - Len(got[t])
      n == IF size > rest THEN rest ELSE size
  IN
  /\ pc[t] = "get"
  /\ IF size < 1
     THEN /\ Goto(t, "wait")
          /\ UNCHANGED <<task, got>>
     ELSE /\ task' = [task EXCEPT ![k] = CqTake(@, n)]
          /\ got' = [got EXCEPT ![t] = @ \o CqRead(task[k], n)]
          /\ Goto(t, IF n = rest THEN "free" ELSE "get")
  /\ UNCHANGED <<task_pool, req_pool, req_task, events, core, devVars, mine,
                 reqs, nput>>

\* pthread_cond_wait may return without a signal.
Wakeup(t) ==
  /\ pc[t] = "wait"
  /\ Goto(t, "get")
  /\ UNCHANGED <<task, task_pool, req_pool, req_task, events, core, devVars,
                 callVars>>

\* reactor_free_reqs (nvfuse_release_jobs) and reactor_free_task.
Free(t) ==
  /\ pc[t] = "free"
  /\ req_pool' = req_pool \cup Range(got[t])
  /\ task_pool' = task_pool \cup {mine[t]}
  /\ mine' = [mine EXCEPT ![t] = NoTask]
  /\ reqs' = [reqs EXCEPT ![t] = <<>>]
  /\ nput' = [nput EXCEPT ![t] = 0]
  /\ got' = [got EXCEPT ![t] = <<>>]
  /\ Goto(t, "idle")
  /\ UNCHANGED <<task, req_task, events, core, devVars>>

-----------------------------------------------------------------------------
(* The reactor core and the device.                                        *)

\* The core takes an event: reactor_submit_on_core.
TakeEvent ==
  /\ core = NoTask
  /\ events # <<>>
  /\ core' = Head(events)
  /\ events' = Tail(events)
  /\ UNCHANGED <<task, task_pool, req_pool, req_task, devVars, pc, callVars>>

\* One turn of its loop: a request goes to the device, or the loop ends.
SubmitOnCore ==
  /\ core # NoTask
  /\ IF SqIsEmpty(task[core])
     THEN /\ core' = NoTask
          /\ UNCHANGED <<task, device>>
     ELSE /\ device' = device \cup {SqFirst(task[core])}
          /\ task' = [task EXCEPT ![core] = SqGet(@)]
          /\ UNCHANGED core
  /\ UNCHANGED <<task_pool, req_pool, req_task, events, done, pc, callVars>>

\* The device performs a request.
Complete(r) ==
  /\ r \in device
  /\ device' = device \ {r}
  /\ done' = done \cup {r}
  /\ UNCHANGED <<task, task_pool, req_pool, req_task, events, core, pc,
                 callVars>>

\* Variant: cq_cond is not signalled.
BioCbNoSignal(r) ==
  LET k == req_task[r] IN
  /\ core = NoTask
  /\ r \in done
  /\ done' = done \ {r}
  /\ task' = IF CqIsFull(task[k]) THEN task
             ELSE [task EXCEPT ![k] = CqPut(@, r)]
  /\ UNCHANGED <<task_pool, req_pool, req_task, events, core, device, pc,
                 callVars>>

\* reactor_bio_cb and reactor_cq_put_req: a request that finds the completion
\* ring full is lost.
BioCb(r) ==
  LET k == req_task[r] IN
  /\ core = NoTask
  /\ r \in done
  /\ done' = done \ {r}
  /\ IF CqIsFull(task[k])
     THEN UNCHANGED <<task, pc>>
     ELSE /\ task' = [task EXCEPT ![k] = CqPut(@, r)]
          /\ pc' = [t \in Threads |->
                      IF pc[t] = "wait" /\ mine[t] = k THEN "get" ELSE pc[t]]
  /\ UNCHANGED <<task_pool, req_pool, req_task, events, core, device,
                 callVars>>

-----------------------------------------------------------------------------
\* The requests of a call, none of them twice.
Batches == UNION {Injection(1..n, Reqs) : n \in 1..MaxBatch}

Next ==
  \/ \E t \in Threads :
       \/ \E batch \in Batches : Begin(t, batch)
       \/ Put(t) \/ Submit(t) \/ Get(t) \/ Wakeup(t) \/ Free(t)
  \/ TakeEvent \/ SubmitOnCore
  \/ \E r \in Reqs : Complete(r) \/ BioCb(r)

Spec == Init /\ [][Next]_vars

\* The threads, the polling core and the device keep going; a thread need not
\* start a call, and pthread_cond_wait need not return without a signal.
Fairness ==
  /\ \A t \in Threads : WF_vars(Put(t) \/ Submit(t) \/ Get(t) \/ Free(t))
  /\ WF_vars(TakeEvent \/ SubmitOnCore)
  /\ \A r \in Reqs : WF_vars(Complete(r)) /\ SF_vars(BioCb(r))

FairSpec == Spec /\ Fairness

-----------------------------------------------------------------------------
(* Properties                                                              *)

\* What a caller has not put in its submission ring yet.
Unsent(t) == {reqs[t][i] : i \in nput[t] + 1 .. Len(reqs[t])}

\* No request is lost or doubled on its way: it is in the pool, waits to be
\* put, is in one ring, in the device, waits for its callback, or is back; in
\* particular reactor_cq_put_req never finds the completion ring full.
Conserved ==
  \A r \in Reqs :
    Cardinality(
      {<<"pool">> : x \in {r} \cap req_pool}
        \cup {<<"unsent", t>> : t \in {u \in Threads : r \in Unsent(u)}}
        \cup {<<"sq", k>> : k \in {j \in Tasks : r \in InSq(task[j])}}
        \cup {<<"cq", k>> : k \in {j \in Tasks : r \in InCq(task[j])}}
        \cup {<<"device">> : x \in {r} \cap device}
        \cup {<<"done">> : x \in {r} \cap done}
        \cup {<<"got", t>> : t \in {u \in Threads : r \in Range(got[u])}}) = 1

\* reactor_submit_reqs never finds the submission ring full, which its
\* callers would not notice.
SqNeverFull == \A t \in Threads : pc[t] # "sq_full"

\* A task that is back in the pool is forgotten by everybody: no event and no
\* loop of the core works on it, nobody owns it, and no request that still
\* has to be called back names it.
PoolForgotten ==
  \A k \in task_pool :
    /\ k \notin Range(events) \cup {core}
    /\ \A t \in Threads : mine[t] # k
    /\ \A r \in device \cup done : req_task[r] # k

\* A caller gets back its own requests, each once.
OwnRequests ==
  \A t \in Threads : Range(got[t]) \subseteq Range(reqs[t]) /\ IsInjective(got[t])

\* The rings, pools and callbacks lose, double and mix up no request: each is
\* in one place, a caller gets its own, and a submission never meets a full ring.
RequestsAccounted == TypeOK /\ Conserved /\ OwnRequests /\ SqNeverFull

\* Synchronous I/O is the service its callers rely on.
Active == [t \in Threads |-> Range(reqs[t])]
Performed ==
  done \cup (UNION {InCq(task[k]) : k \in Tasks})
       \cup (UNION {Range(got[t]) : t \in Threads})
Service == INSTANCE IoService WITH active <- Active, performed <- Performed
ImplementsIoService == Service!Spec

\* Every call comes to its end.
CallsReturn == \A t \in Threads : pc[t] # "idle" ~> pc[t] = "idle"
=============================================================================
