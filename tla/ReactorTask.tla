---------------------------- MODULE ReactorTask ----------------------------
(***************************************************************************)
(* struct reactor_task (nvfuse_reactor.c): the submission and the          *)
(* completion ring through which a thread talks to the reactor core.  Each *)
(* ring has qdepth slots, one of which stays free; every operator stands   *)
(* for one critical section under sq_mutex or cq_mutex.                    *)
(***************************************************************************)
EXTENDS Integers, Sequences

CONSTANTS
  Reqs,         \* struct io_job
  NoReq,        \* NULL
  MaxRequest    \* REACTOR_MAX_REQUEST, the size of sq[] and cq[]

ASSUME ReactorTaskAssumption ==
  /\ NoReq \notin Reqs
  /\ MaxRequest \in Nat \ {0}

Ring == [0 .. MaxRequest - 1 -> Reqs \cup {NoReq}]

TaskType ==
  [qdepth : 1 .. MaxRequest,
   sq : Ring, sq_head : 0 .. MaxRequest - 1, sq_tail : 0 .. MaxRequest - 1,
   cq : Ring, cq_head : 0 .. MaxRequest - 1, cq_tail : 0 .. MaxRequest - 1]

\* A task nobody has used yet.
FreshTask ==
  LET ring == [i \in 0 .. MaxRequest - 1 |-> NoReq] IN
  [qdepth |-> 1, sq |-> ring, sq_head |-> 0, sq_tail |-> 0,
   cq |-> ring, cq_head |-> 0, cq_tail |-> 0]

\* reactor_alloc_task: both rings empty, with one slot more than requests; the
\* loops clear one slot less.
AllocTask(task, qdepth) ==
  LET clear(ring) == [i \in DOMAIN ring |->
                        IF i < qdepth THEN NoReq ELSE ring[i]]
  IN [task EXCEPT !.qdepth = qdepth + 1,
                  !.sq = clear(@), !.sq_head = 0, !.sq_tail = 0,
                  !.cq = clear(@), !.cq_head = 0, !.cq_tail = 0]

\* reactor_sq_is_full, reactor_cq_is_full.
RingFull(head, tail, qdepth) ==
  IF tail <= head THEN head - tail = qdepth - 1 ELSE head + 1 = tail

\* reactor_sq_size, reactor_cq_size.
RingSize(head, tail, qdepth) ==
  IF tail <= head THEN head - tail ELSE qdepth - tail + head

SqIsEmpty(task) == task.sq_head = task.sq_tail
SqIsFull(task) == RingFull(task.sq_head, task.sq_tail, task.qdepth)
CqIsFull(task) == RingFull(task.cq_head, task.cq_tail, task.qdepth)
CqSize(task) == RingSize(task.cq_head, task.cq_tail, task.qdepth)

\* The successor of a ring position.
Step(i, qdepth) == (i + 1) % qdepth

\* reactor_sq_put_req on a ring that is not full.
SqPut(task, req) ==
  [task EXCEPT !.sq[task.sq_head] = req,
               !.sq_head = Step(task.sq_head, task.qdepth)]

\* reactor_sq_get_req on a ring that is not empty: the request, and the task
\* without it.
SqFirst(task) == task.sq[task.sq_tail]
SqGet(task) ==
  [task EXCEPT !.sq[task.sq_tail] = NoReq,
               !.sq_tail = Step(task.sq_tail, task.qdepth)]

\* reactor_cq_put_req on a ring that is not full.
CqPut(task, req) ==
  [task EXCEPT !.cq[task.cq_head] = req,
               !.cq_head = Step(task.cq_head, task.qdepth)]

\* Variant: always from the first slot.
CqReadStart(task, n) ==
  [i \in 1 .. n |-> task.cq[i - 1]]

\* reactor_cq_get_reqs: n requests leave the ring, oldest first.
CqRead(task, n) ==
  [i \in 1 .. n |-> task.cq[(task.cq_tail + i - 1) % task.qdepth]]
CqTake(task, n) ==
  [task EXCEPT
     !.cq = [i \in DOMAIN task.cq |->
               IF \E j \in 0 .. n - 1 : i = (task.cq_tail + j) % task.qdepth
               THEN NoReq ELSE task.cq[i]],
     !.cq_tail = (task.cq_tail + n) % task.qdepth]

\* The requests a ring holds.
InSq(task) == {task.sq[i] : i \in DOMAIN task.sq} \ {NoReq}
InCq(task) == {task.cq[i] : i \in DOMAIN task.cq} \ {NoReq}
=============================================================================
