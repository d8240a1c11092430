--------------------------- MODULE SyncIoProofs ---------------------------
(***************************************************************************)
(* The inductive invariant of synchronous block I/O, for any number of     *)
(* threads, tasks and requests, and the steps of the callers, of the core  *)
(* and of the device.  The rings of ReactorTask are circular, but a call   *)
(* never wraps them around: its task has one slot more than requests.      *)
(* IInv says so, ties the four ring positions to what the caller has put   *)
(* and got, and says for every request how far it is.  SyncIoTheorems has  *)
(* what follows.                                                           *)
(***************************************************************************)
EXTENDS SyncIo, TLAPS

-----------------------------------------------------------------------------
(* The inductive invariant.                                                *)

Busy == {t \in Threads : pc[t] # "idle"}

\* A ring never wraps around within a call: the filled slots are those from
\* the tail up to the head, which is no slot of an unused task.
RingsClean(T) ==
  /\ T.sq_tail <= T.sq_head /\ T.sq_head < T.qdepth
  /\ T.cq_tail <= T.cq_head /\ T.cq_head < T.qdepth
  /\ \A i \in 0 .. MaxRequest - 1 :
       /\ T.sq[i] # NoReq <=> T.sq_tail <= i /\ i < T.sq_head
       /\ T.cq[i] # NoReq <=> T.cq_tail <= i /\ i < T.cq_head

\* The requests of a call that have arrived in the completion ring of its
\* task T, oldest first; those the caller has got are in g.
Arrived(T, g) ==
  [i \in 1 .. T.cq_head |-> IF i <= Len(g) THEN g[i] ELSE T.cq[i - 1]]
Back(T, g) == Range(Arrived(T, g))

\* A call with the requests rs, n of them put, and the task T: the submission
\* ring holds the requests put and not yet submitted, and a request is on its
\* way (out) exactly when it was submitted and has not arrived.
CallRings(T, rs, n, g) ==
  /\ Len(rs) \in 1 .. MaxBatch
  /\ IsInjective(rs)
  /\ T.qdepth = Len(rs) + 1
  /\ T.sq_head = n /\ n <= Len(rs)
  /\ T.cq_tail = Len(g)
  /\ \A i \in 1 .. n : T.sq_tail < i => T.sq[i - 1] = rs[i]
  /\ IsInjective(Arrived(T, g))
  /\ Back(T, g) \subseteq Range(rs)

CallOut(T, rs, g, out) ==
  \A i \in 1 .. Len(rs) :
    /\ rs[i] \in out => i <= T.sq_tail /\ rs[i] \notin Back(T, g)
    /\ i <= T.sq_tail => rs[i] \in out \cup Back(T, g)
    /\ rs[i] \in Back(T, g) => i <= T.sq_tail

\* What a caller's program counter says, and where the event of its task is.
CallPoint(T, k, rs, n, g, p, ev, co) ==
  /\ p # "sq_full"
  /\ p = "put" => T.sq_tail = 0 /\ k \notin Range(ev) \cup {co}
  /\ p # "put" => n = Len(rs)
  /\ p = "free" => Len(g) = Len(rs)
  /\ k \in Range(ev) => T.sq_tail = 0
  /\ co = k => T.cq_head = 0

CallInv(t) ==
  /\ mine[t] \in Tasks \ task_pool
  /\ CallRings(task[mine[t]], reqs[t], nput[t], got[t])
  /\ CallOut(task[mine[t]], reqs[t], got[t], device \cup done)
  /\ \A i \in 1 .. nput[t] : req_task[reqs[t][i]] = mine[t]
  /\ CallPoint(task[mine[t]], mine[t], reqs[t], nput[t], got[t], pc[t],
               events, core)

\* A thread outside a call has nothing.
IdleInv(t) ==
  /\ mine[t] = NoTask
  /\ reqs[t] = <<>>
  /\ nput[t] = 0
  /\ got[t] = <<>>

\* Every task and every request has at most one owner.
Owners ==
  /\ \A t, u \in Busy : mine[t] = mine[u] => t = u
  /\ \A t, u \in Threads :
       t # u => Range(reqs[t]) \cap Range(reqs[u]) = {}
  /\ \A t \in Threads : Range(reqs[t]) \cap req_pool = {}
  /\ \A r \in Reqs : r \in req_pool \/ \E t \in Busy : r \in Range(reqs[t])
  /\ \A r \in device \cup done : r \notin req_pool
  /\ device \cap done = {}

\* Only the tasks of calls are in use, each by one event or by the core.
TasksInUse ==
  /\ \A k \in Tasks :
       (\A t \in Busy : mine[t] # k) =>
         /\ task[k].sq_head = task[k].sq_tail
         /\ task[k].cq_head = task[k].cq_tail
  /\ \A k \in Range(events) \cup {core} :
       k # NoTask => \E t \in Busy : mine[t] = k
  /\ IsInjective(events)
  /\ core \notin Range(events)

\* No more requests come back than a call has, and when as many have, all
\* have.  This follows from IInv by counting; the steps are proved from both.
Fits(T, rs, g) ==
  /\ T.cq_head <= Len(rs)
  /\ T.cq_head = Len(rs) => Back(T, g) = Range(rs)
CallsFit == \A t \in Busy : Fits(task[mine[t]], reqs[t], got[t])

IInv ==
  /\ TypeOK
  /\ \A k \in Tasks : RingsClean(task[k])
  /\ \A t \in Busy : CallInv(t)
  /\ \A t \in Threads \ Busy : IdleInv(t)
  /\ Owners
  /\ TasksInUse

-----------------------------------------------------------------------------
(* The rings.                                                              *)

\* A position below the size of a ring is its own remainder.
LEMMA ModBelow ==
  ASSUME NEW q \in Nat \ {0}, NEW i \in Nat, i < q
  PROVE  i % q = i
  OBVIOUS

\* The fields of a task.
LEMMA TaskFields ==
  ASSUME NEW T \in TaskType
  PROVE  /\ T.qdepth \in 1 .. MaxRequest
         /\ T.sq \in Ring
         /\ T.sq_head \in 0 .. MaxRequest - 1
         /\ T.sq_tail \in 0 .. MaxRequest - 1
         /\ T.cq \in Ring
         /\ T.cq_head \in 0 .. MaxRequest - 1
         /\ T.cq_tail \in 0 .. MaxRequest - 1
  BY DEF TaskType

\* Two tasks with the same submission, completion ring.
SameSq(T, U) ==
  U.sq = T.sq /\ U.sq_head = T.sq_head /\ U.sq_tail = T.sq_tail
SameCq(T, U) ==
  U.cq = T.cq /\ U.cq_head = T.cq_head /\ U.cq_tail = T.cq_tail

\* reactor_alloc_task
LEMMA AllocEffect ==
  ASSUME NEW T \in TaskType, NEW n \in 1 .. MaxRequest - 1, RingsClean(T),
         T.sq_head = T.sq_tail, T.cq_head = T.cq_tail
  PROVE  LET U == AllocTask(T, n) IN
         /\ U \in TaskType
         /\ U.qdepth = n + 1
         /\ U.sq_head = 0 /\ U.sq_tail = 0
         /\ U.cq_head = 0 /\ U.cq_tail = 0
         /\ RingsClean(U)
<1> DEFINE clear(ring) ==
             [i \in DOMAIN ring |-> IF i < n THEN NoReq ELSE ring[i]]
           U == AllocTask(T, n)
<1>1. /\ T.qdepth \in 1 .. MaxRequest /\ T.sq_head \in 0 .. MaxRequest - 1
      /\ T.cq_head \in 0 .. MaxRequest - 1
      /\ T.sq \in Ring /\ T.cq \in Ring /\ MaxRequest \in Nat
  BY TaskFields, ReactorTaskAssumption, Zenon
<1>2. clear(T.sq) \in Ring /\ clear(T.cq) \in Ring
  BY <1>1, Zenon DEF Ring
<1>3. U = [T EXCEPT !.qdepth = n + 1,
                    !.sq = clear(T.sq), !.sq_head = 0, !.sq_tail = 0,
                    !.cq = clear(T.cq), !.cq_head = 0, !.cq_tail = 0]
  BY DEF AllocTask, TaskType
<1>4. /\ U \in TaskType
      /\ U.qdepth = n + 1
      /\ U.sq_head = 0 /\ U.sq_tail = 0
      /\ U.cq_head = 0 /\ U.cq_tail = 0
      /\ U.sq = clear(T.sq) /\ U.cq = clear(T.cq)
  <2>1. n + 1 \in 1 .. MaxRequest /\ 0 \in 0 .. MaxRequest - 1
    BY <1>1
  <2> HIDE DEF U, clear
  <2> QED BY <1>2, <1>3, <2>1, Zenon DEF TaskType
<1>5. RingsClean(U)
  <2> HIDE DEF U
  <2> QED BY <1>1, <1>4 DEF RingsClean, Ring
<1> QED BY <1>4, <1>5, Zenon

\* reactor_sq_put_req
LEMMA SqPutEffect ==
  ASSUME NEW T \in TaskType, NEW r \in Reqs, RingsClean(T),
         T.sq_tail = 0, T.sq_head + 1 < T.qdepth
  PROVE  LET U == SqPut(T, r) IN
         /\ ~ SqIsFull(T)
         /\ U \in TaskType
         /\ U.qdepth = T.qdepth
         /\ SameCq(T, U)
         /\ U.sq_head = T.sq_head + 1
         /\ U.sq_tail = T.sq_tail
         /\ U.sq = [T.sq EXCEPT ![T.sq_head] = r]
         /\ RingsClean(U)
<1> DEFINE U == SqPut(T, r)
           X == [T.sq EXCEPT ![T.sq_head] = r]
<1>1. /\ T.qdepth \in 1 .. MaxRequest /\ T.sq_head \in 0 .. MaxRequest - 1
      /\ T.sq_tail \in 0 .. MaxRequest - 1
      /\ T.sq \in Ring /\ MaxRequest \in Nat /\ NoReq \notin Reqs
  BY TaskFields, ReactorTaskAssumption, Zenon
<1>2. Step(T.sq_head, T.qdepth) = T.sq_head + 1
  BY <1>1, ModBelow DEF Step
<1>3. ~ SqIsFull(T)
  BY <1>1 DEF SqIsFull, RingFull
<1>4. U = [T EXCEPT !.sq = X, !.sq_head = T.sq_head + 1,
                    !.sq_tail = T.sq_tail]
  BY <1>2, Zenon DEF SqPut, TaskType
<1>5. /\ U \in TaskType
      /\ U.qdepth = T.qdepth
      /\ SameCq(T, U)
      /\ U.sq_head = T.sq_head + 1
      /\ U.sq_tail = T.sq_tail
      /\ U.sq = X
  <2>1. X \in Ring /\ T.sq_head + 1 \in 0 .. MaxRequest - 1
    BY <1>1 DEF Ring
  <2> DEFINE h == T.sq_head + 1
  <2>2. /\ h \in 0 .. MaxRequest - 1
        /\ U.sq_head = h => U.sq_head = T.sq_head + 1
    BY <2>1, Zenon
  <2>3. U = [T EXCEPT !.sq = X, !.sq_head = h, !.sq_tail = T.sq_tail]
    BY <1>4
  <2> HIDE DEF X, U, h
  <2> QED BY <2>1, <2>2, <2>3, Zenon DEF TaskType, SameCq
<1>6. RingsClean(U)
  <2> HIDE DEF U
  <2> QED BY <1>1, <1>5 DEF RingsClean, SameCq, Ring
<1> QED BY <1>3, <1>5, <1>6, Zenon

\* reactor_sq_get_req
LEMMA SqGetEffect ==
  ASSUME NEW T \in TaskType, RingsClean(T), ~ SqIsEmpty(T)
  PROVE  LET U == SqGet(T) IN
         /\ T.sq_tail < T.sq_head
         /\ SqFirst(T) = T.sq[T.sq_tail]
         /\ SqFirst(T) \in Reqs
         /\ U \in TaskType
         /\ U.qdepth = T.qdepth
         /\ SameCq(T, U)
         /\ U.sq_head = T.sq_head
         /\ U.sq_tail = T.sq_tail + 1
         /\ U.sq = [T.sq EXCEPT ![T.sq_tail] = NoReq]
         /\ RingsClean(U)
<1> DEFINE U == SqGet(T)
           X == [T.sq EXCEPT ![T.sq_tail] = NoReq]
<1>1. /\ T.qdepth \in 1 .. MaxRequest /\ T.sq_head \in 0 .. MaxRequest - 1
      /\ T.sq_tail \in 0 .. MaxRequest - 1
      /\ T.sq \in Ring /\ MaxRequest \in Nat
  BY TaskFields, ReactorTaskAssumption, Zenon
<1>2. T.sq_tail < T.sq_head /\ T.sq_head < T.qdepth
  BY <1>1 DEF RingsClean, SqIsEmpty
<1>3. Step(T.sq_tail, T.qdepth) = T.sq_tail + 1
  BY <1>1, <1>2, ModBelow DEF Step
<1>4. SqFirst(T) = T.sq[T.sq_tail] /\ SqFirst(T) \in Reqs
  BY <1>1, <1>2 DEF SqFirst, RingsClean, Ring
<1>5. U = [T EXCEPT !.sq = X, !.sq_head = T.sq_head,
                    !.sq_tail = T.sq_tail + 1]
  BY <1>3, Zenon DEF SqGet, TaskType
<1>6. X \in Ring /\ T.sq_tail + 1 \in 0 .. MaxRequest - 1
  BY <1>1, <1>2 DEF Ring
<1>7. /\ U \in TaskType
      /\ U.qdepth = T.qdepth
      /\ SameCq(T, U)
      /\ U.sq_head = T.sq_head
      /\ U.sq_tail = T.sq_tail + 1
      /\ U.sq = X
  <2> DEFINE l == T.sq_tail + 1
  <2>1. l \in 0 .. MaxRequest - 1
    BY <1>6
  <2>2. U = [T EXCEPT !.sq = X, !.sq_head = T.sq_head, !.sq_tail = l]
    BY <1>5
  <2>3. U.sq_tail = l => U.sq_tail = T.sq_tail + 1
    OBVIOUS
  <2> HIDE DEF X, U, l
  <2> QED BY <1>6, <2>1, <2>2, <2>3, Zenon DEF TaskType, SameCq
<1>8. RingsClean(U)
  <2> HIDE DEF U
  <2> QED BY <1>1, <1>2, <1>7 DEF RingsClean, SameCq, Ring
<1> QED BY <1>2, <1>4, <1>7, <1>8, Zenon

\* reactor_cq_put_req
LEMMA CqPutEffect ==
  ASSUME NEW T \in TaskType, NEW r \in Reqs, RingsClean(T),
         T.cq_head + 1 < T.qdepth
  PROVE  LET U == CqPut(T, r) IN
         /\ ~ CqIsFull(T)
         /\ U \in TaskType
         /\ U.qdepth = T.qdepth
         /\ SameSq(T, U)
         /\ U.cq_head = T.cq_head + 1
         /\ U.cq_tail = T.cq_tail
         /\ U.cq = [T.cq EXCEPT ![T.cq_head] = r]
         /\ RingsClean(U)
<1> DEFINE U == CqPut(T, r)
           X == [T.cq EXCEPT ![T.cq_head] = r]
<1>1. /\ T.qdepth \in 1 .. MaxRequest /\ T.cq_head \in 0 .. MaxRequest - 1
      /\ T.cq_tail \in 0 .. MaxRequest - 1
      /\ T.cq \in Ring /\ MaxRequest \in Nat /\ NoReq \notin Reqs
  BY TaskFields, ReactorTaskAssumption, Zenon
<1>2. Step(T.cq_head, T.qdepth) = T.cq_head + 1
  BY <1>1, ModBelow DEF Step
<1>3. ~ CqIsFull(T)
  BY <1>1 DEF CqIsFull, RingFull, RingsClean
<1>4. U = [T EXCEPT !.cq = X, !.cq_head = T.cq_head + 1,
                    !.cq_tail = T.cq_tail]
  BY <1>2, Zenon DEF CqPut, TaskType
<1>5. X \in Ring /\ T.cq_head + 1 \in 0 .. MaxRequest - 1
  BY <1>1 DEF Ring
<1>6. /\ U \in TaskType
      /\ U.qdepth = T.qdepth
      /\ SameSq(T, U)
      /\ U.cq_head = T.cq_head + 1
      /\ U.cq_tail = T.cq_tail
      /\ U.cq = X
  <2> DEFINE h == T.cq_head + 1
  <2>1. /\ h \in 0 .. MaxRequest - 1
        /\ U.cq_head = h => U.cq_head = T.cq_head + 1
    BY <1>5, Zenon
  <2>2. U = [T EXCEPT !.cq = X, !.cq_head = h, !.cq_tail = T.cq_tail]
    BY <1>4
  <2> HIDE DEF X, U, h
  <2> QED BY <1>5, <2>1, <2>2, Zenon DEF TaskType, SameSq
<1>7. RingsClean(U)
  <2> HIDE DEF U
  <2> QED BY <1>1, <1>6 DEF RingsClean, SameSq, Ring
<1> QED BY <1>3, <1>6, <1>7, Zenon

\* reactor_cq_get_reqs, when it takes everything the ring holds
LEMMA CqTakeEffect ==
  ASSUME NEW T \in TaskType, RingsClean(T),
         NEW n, n = T.cq_head - T.cq_tail
  PROVE  LET U == CqTake(T, n) IN
         /\ CqSize(T) = n
         /\ U \in TaskType
         /\ U.qdepth = T.qdepth
         /\ SameSq(T, U)
         /\ U.cq_head = T.cq_head
         /\ U.cq_tail = T.cq_head
         /\ RingsClean(U)
<1> DEFINE U == CqTake(T, n)
           X == [i \in DOMAIN T.cq |->
                   IF \E j \in 0 .. n - 1 : i = (T.cq_tail + j) % T.qdepth
                   THEN NoReq ELSE T.cq[i]]
<1>1. /\ T.qdepth \in 1 .. MaxRequest /\ T.cq_head \in 0 .. MaxRequest - 1
      /\ T.cq_tail \in 0 .. MaxRequest - 1
      /\ T.cq \in Ring /\ MaxRequest \in Nat
      /\ T.cq_tail <= T.cq_head /\ T.cq_head < T.qdepth
  BY TaskFields, ReactorTaskAssumption, Zenon DEF RingsClean
<1>2. \A j \in 0 .. n : (T.cq_tail + j) % T.qdepth = T.cq_tail + j
  <2> SUFFICES ASSUME NEW j \in 0 .. n
               PROVE  (T.cq_tail + j) % T.qdepth = T.cq_tail + j
    OBVIOUS
  <2>1. T.cq_tail + j \in Nat /\ T.cq_tail + j < T.qdepth
        /\ T.qdepth \in Nat \ {0}
    BY <1>1
  <2> QED BY <2>1, ModBelow, Zenon
<1>3. CqSize(T) = n
  BY <1>1, Zenon DEF CqSize, RingSize
<1>4. U = [T EXCEPT !.cq = X, !.cq_head = T.cq_head, !.cq_tail = T.cq_head]
  <2>1. (T.cq_tail + n) % T.qdepth = T.cq_head
    BY <1>1, <1>2
  <2>2. U = [T EXCEPT !.cq = X, !.cq_tail = (T.cq_tail + n) % T.qdepth]
    BY DEF CqTake
  <2> HIDE DEF X, U
  <2> QED BY <2>1, <2>2, Zenon DEF TaskType
<1>5. X \in Ring
  BY <1>1, Zenon DEF Ring
<1>6. /\ U \in TaskType
      /\ U.qdepth = T.qdepth
      /\ SameSq(T, U)
      /\ U.cq_head = T.cq_head
      /\ U.cq_tail = T.cq_head
      /\ U.cq = X
  <2> HIDE DEF X, U
  <2> QED BY <1>4, <1>5, Zenon DEF TaskType, SameSq
<1>7. \A i \in 0 .. MaxRequest - 1 : X[i] = NoReq
  <2> SUFFICES ASSUME NEW i \in 0 .. MaxRequest - 1 PROVE X[i] = NoReq
    BY Zenon
  <2>1. CASE T.cq_tail <= i /\ i < T.cq_head
    <3>1. i - T.cq_tail \in 0 .. n - 1
      BY <1>1, <2>1
    <3>2. i = (T.cq_tail + (i - T.cq_tail)) % T.qdepth
      BY <1>1, <1>2, <3>1
    <3> QED BY <1>1, <3>1, <3>2, Zenon DEF Ring
  <2>2. CASE ~ (T.cq_tail <= i /\ i < T.cq_head)
    BY <1>1, <2>2, Zenon DEF RingsClean, Ring
  <2> QED BY <2>1, <2>2, Zenon
<1>8. RingsClean(U)
  <2> HIDE DEF U, X
  <2> QED BY <1>1, <1>6, <1>7 DEF RingsClean, SameSq
<1> QED BY <1>3, <1>6, <1>8, Zenon

\* the requests it takes
CqReads(T, n) ==
  /\ n \in Nat
  /\ CqRead(T, n) \in Seq(Reqs)
  /\ Len(CqRead(T, n)) = n
  /\ \A i \in 1 .. n : CqRead(T, n)[i] = T.cq[T.cq_tail + i - 1]

\* A caller that takes everything from the completion ring reads these.
LEMMA CqReadEffect ==
  ASSUME NEW T \in TaskType, RingsClean(T),
         NEW n, n = T.cq_head - T.cq_tail
  PROVE  CqReads(T, n)
<1>0. /\ T.qdepth \in 1 .. MaxRequest /\ T.cq_head \in 0 .. MaxRequest - 1
      /\ T.cq_tail \in 0 .. MaxRequest - 1
      /\ T.cq \in Ring /\ MaxRequest \in Nat
      /\ T.cq_tail <= T.cq_head /\ T.cq_head < T.qdepth
  BY TaskFields, ReactorTaskAssumption, Zenon DEF RingsClean
<1>1. n \in Nat
  BY <1>0
<1>2. \A i \in 1 .. n : (T.cq_tail + i - 1) % T.qdepth = T.cq_tail + i - 1
  <2> SUFFICES ASSUME NEW i \in 1 .. n
               PROVE  (T.cq_tail + i - 1) % T.qdepth = T.cq_tail + i - 1
    OBVIOUS
  <2>1. T.cq_tail + i - 1 \in Nat /\ T.cq_tail + i - 1 < T.qdepth
        /\ T.qdepth \in Nat \ {0}
    BY <1>0
  <2> QED BY <2>1, ModBelow, Zenon
<1>3. \A i \in 1 .. n : T.cq[T.cq_tail + i - 1] \in Reqs
  <2> SUFFICES ASSUME NEW i \in 1 .. n
               PROVE  T.cq[T.cq_tail + i - 1] \in Reqs
    OBVIOUS
  <2>1. /\ T.cq_tail + i - 1 \in 0 .. MaxRequest - 1
        /\ T.cq_tail <= T.cq_tail + i - 1 /\ T.cq_tail + i - 1 < T.cq_head
    BY <1>0
  <2> QED BY <1>0, <2>1, Zenon DEF RingsClean, Ring
<1>4. CqRead(T, n) \in [1 .. n -> Reqs]
  BY <1>2, <1>3, Zenon DEF CqRead
<1>5. CqRead(T, n) \in Seq(Reqs) /\ Len(CqRead(T, n)) = n
  BY <1>1, <1>4
<1> QED BY <1>1, <1>2, <1>5, Zenon DEF CqReads, CqRead

-----------------------------------------------------------------------------
(* The requests that have come back.                                       *)

\* The length of two sequences, one after the other.
LEMMA ConcatLen ==
  ASSUME NEW S, NEW a \in Seq(S), NEW b \in Seq(S)
  PROVE  Len(a \o b) = Len(a) + Len(b)
  OBVIOUS

\* Taking everything from the completion ring changes nothing of what has
\* arrived.
LEMMA ArrivedTake ==
  ASSUME NEW T \in TaskType, NEW U \in TaskType, RingsClean(T),
         NEW g \in Seq(Reqs), NEW n, n = T.cq_head - T.cq_tail,
         T.cq_tail = Len(g), U.cq_head = T.cq_head
  PROVE  /\ g \o CqRead(T, n) \in Seq(Reqs)
         /\ Len(g \o CqRead(T, n)) = T.cq_head
         /\ Arrived(U, g \o CqRead(T, n)) = Arrived(T, g)
<1> DEFINE x == CqRead(T, n)
           h == g \o x
<1>1. /\ T.cq_head \in Nat /\ T.cq_tail \in Nat /\ T.cq_tail <= T.cq_head
  BY TaskFields DEF RingsClean
<1>2. /\ n \in Nat /\ x \in Seq(Reqs) /\ Len(x) = n
      /\ \A i \in 1 .. n : x[i] = T.cq[T.cq_tail + i - 1]
  <2>1. CqReads(T, n)
    BY CqReadEffect
  <2> QED BY <2>1, Zenon DEF CqReads
<1> HIDE DEF x
<1>3. h \in Seq(Reqs) /\ Len(h) = T.cq_head
  <2>1. Len(g) + n = T.cq_head
    BY <1>1
  <2>2. h \in Seq(Reqs)
    BY <1>2
  <2>3. Len(h) = Len(g) + Len(x)
    BY <1>2, ConcatLen, Zenon
  <2> HIDE DEF h
  <2> QED BY <1>2, <2>1, <2>2, <2>3, Zenon
<1>4. \A i \in 1 .. T.cq_head :
        h[i] = IF i <= Len(g) THEN g[i] ELSE T.cq[i - 1]
  <2> SUFFICES ASSUME NEW i \in 1 .. T.cq_head
               PROVE  h[i] = IF i <= Len(g) THEN g[i] ELSE T.cq[i - 1]
    BY Zenon
  <2>1. CASE i <= Len(g)
    BY <1>1, <1>2, <2>1
  <2>2. CASE ~ (i <= Len(g))
    <3>1. i - Len(g) \in 1 .. n /\ h[i] = x[i - Len(g)]
      BY <1>1, <1>2, <2>2
    <3>2. x[i - Len(g)] = T.cq[i - 1]
      <4>1. T.cq_tail + (i - Len(g)) - 1 = i - 1
        BY <1>1
      <4> QED BY <1>2, <3>1, <4>1, Zenon
    <3> QED BY <2>2, <3>1, <3>2, Zenon
  <2> QED BY <2>1, <2>2, Zenon
<1> HIDE DEF h
<1>5. Arrived(U, h) = Arrived(T, g)
  BY <1>1, <1>3, <1>4 DEF Arrived
<1> QED BY <1>3, <1>5, Zenon DEF h, x

\* A request that arrives is the last one, and the only new one.
LEMMA ArrivedPut ==
  ASSUME NEW T \in TaskType, NEW U \in TaskType, RingsClean(T),
         NEW r \in Reqs, NEW g \in Seq(Reqs), T.cq_tail = Len(g),
         U.cq_head = T.cq_head + 1,
         U.cq = [T.cq EXCEPT ![T.cq_head] = r],
         r \notin Back(T, g), IsInjective(Arrived(T, g))
  PROVE  /\ Back(U, g) = Back(T, g) \cup {r}
         /\ IsInjective(Arrived(U, g))
<1> DEFINE A == Arrived(T, g)
           B == Arrived(U, g)
           h == T.cq_head
<1>1. /\ h \in Nat /\ h < MaxRequest /\ MaxRequest \in Nat
      /\ Len(g) \in Nat /\ Len(g) <= h
      /\ T.cq \in Ring
  BY TaskFields, ReactorTaskAssumption DEF RingsClean
<1>2. DOMAIN A = 1 .. h /\ DOMAIN B = 1 .. h + 1
  BY Zenon DEF Arrived
<1>3. B[h + 1] = r
  BY <1>1 DEF Arrived, Ring
<1>4. \A i \in 1 .. h : B[i] = A[i]
  BY <1>1 DEF Arrived, Ring
<1>5. Range(B) = Range(A) \cup {r}
  <2> HIDE DEF A, B, h
  <2>1. 1 .. h + 1 = (1 .. h) \cup {h + 1}
    BY <1>1
  <2> QED BY <1>2, <1>3, <1>4, <2>1 DEF Range
<1>6. IsInjective(B)
  <2>1. \A i \in 1 .. h : A[i] # r
    BY <1>2, Zenon DEF Back, Range
  <2>2. \A i, j \in 1 .. h : A[i] = A[j] => i = j
    BY <1>2, Zenon DEF IsInjective
  <2> HIDE DEF A, B, h
  <2>3. \A i \in 1 .. h + 1 : i \in 1 .. h \/ i = h + 1
    BY <1>1
  <2> QED BY <1>2, <1>3, <1>4, <2>1, <2>2, <2>3 DEF IsInjective
<1> QED BY <1>5, <1>6, Zenon DEF Back

\* What has arrived is what the caller has got and what the ring holds.
LEMMA BackIs ==
  ASSUME NEW T \in TaskType, RingsClean(T), NEW g \in Seq(Reqs),
         T.cq_tail = Len(g)
  PROVE  Back(T, g) = Range(g) \cup InCq(T)
<1>1. /\ T.cq_head \in Nat /\ T.cq_head < MaxRequest /\ MaxRequest \in Nat
      /\ Len(g) \in Nat /\ Len(g) <= T.cq_head
      /\ DOMAIN T.cq = 0 .. MaxRequest - 1
      /\ DOMAIN g = 1 .. Len(g)
  BY TaskFields, ReactorTaskAssumption DEF RingsClean, Ring
<1>2. ASSUME NEW r \in Back(T, g) PROVE r \in Range(g) \cup InCq(T)
  <2>1. PICK i \in 1 .. T.cq_head :
          r = IF i <= Len(g) THEN g[i] ELSE T.cq[i - 1]
    BY Zenon DEF Back, Arrived, Range
  <2>2. CASE i <= Len(g)
    <3>1. i \in 1 .. Len(g) /\ r = g[i]
      BY <1>1, <2>1, <2>2
    <3> QED BY <1>1, <3>1, Zenon DEF Range
  <2>3. CASE ~ (i <= Len(g))
    <3>1. /\ i - 1 \in 0 .. MaxRequest - 1 /\ r = T.cq[i - 1]
          /\ T.cq_tail <= i - 1 /\ i - 1 < T.cq_head
      BY <1>1, <2>1, <2>3
    <3> QED BY <1>1, <3>1, Zenon DEF InCq, RingsClean
  <2> QED BY <2>2, <2>3, Zenon
<1>3. ASSUME NEW r \in Range(g) PROVE r \in Back(T, g)
  <2>1. PICK i \in 1 .. Len(g) : r = g[i]
    BY <1>1, Zenon DEF Range
  <2>2. i \in 1 .. T.cq_head /\ i <= Len(g)
    BY <1>1
  <2> QED BY <2>1, <2>2, Zenon DEF Back, Arrived, Range
<1>4. ASSUME NEW r \in InCq(T) PROVE r \in Back(T, g)
  <2>1. PICK i \in 0 .. MaxRequest - 1 : r = T.cq[i] /\ r # NoReq
    BY <1>1, Zenon DEF InCq
  <2>2. T.cq_tail <= i /\ i < T.cq_head
    BY <2>1, Zenon DEF RingsClean
  <2>3. i + 1 \in 1 .. T.cq_head /\ ~ (i + 1 <= Len(g)) /\ (i + 1) - 1 = i
    BY <1>1, <2>2
  <2>4. Arrived(T, g)[i + 1] = r
    BY <2>1, <2>3, Zenon DEF Arrived
  <2> QED BY <2>3, <2>4, Zenon DEF Back, Arrived, Range
<1> QED BY <1>2, <1>3, <1>4, Zenon

\* The completion ring has room for a request that has not arrived.
LEMMA RoomFor ==
  ASSUME NEW T \in TaskType, NEW rs \in Seq(Reqs), NEW n \in Nat,
         NEW g \in Seq(Reqs), CallRings(T, rs, n, g), Fits(T, rs, g),
         NEW r \in Range(rs) \ Back(T, g)
  PROVE  T.cq_head + 1 < T.qdepth
<1>1. T.cq_head <= Len(rs) /\ T.cq_head # Len(rs)
  BY TaskFields, Zenon DEF Fits
<1> QED BY <1>1, TaskFields DEF CallRings

-----------------------------------------------------------------------------
(* What a step leaves alone.                                               *)

SameCall(u) ==
  /\ mine'[u] = mine[u]
  /\ reqs'[u] = reqs[u]
  /\ nput'[u] = nput[u]
  /\ got'[u] = got[u]
  /\ pc'[u] = pc[u]

\* A call keeps its invariant when the step changes neither its task, nor the
\* place of its requests, nor that of its event.
LEMMA CallKept ==
  ASSUME NEW u \in Threads, CallInv(u), SameCall(u), TypeOK,
         task'[mine[u]] = task[mine[u]],
         mine[u] \notin task_pool',
         \A r \in Range(reqs[u]) :
           /\ r \in device' \cup done' <=> r \in device \cup done
           /\ req_task'[r] = req_task[r],
         mine[u] \in Range(events') <=> mine[u] \in Range(events),
         core' = mine[u] <=> core = mine[u]
  PROVE  CallInv(u)'
<1> DEFINE k == mine[u]
           T == task[k]
           rs == reqs[u]
           g == got[u]
<1>1. /\ mine'[u] = k /\ task'[mine'[u]] = T /\ reqs'[u] = rs
      /\ got'[u] = g /\ nput'[u] = nput[u] /\ pc'[u] = pc[u]
  BY Zenon DEF SameCall
<1>2. k \in Tasks \ task_pool' /\ CallRings(T, rs, nput[u], g)
  BY Zenon DEF CallInv
<1>3. /\ rs \in Seq(Reqs) /\ Len(rs) \in Nat /\ nput[u] \in Nat
      /\ nput[u] <= Len(rs)
  BY <1>2 DEF TypeOK, CallRings
<1>4. \A i \in 1 .. Len(rs) : rs[i] \in Range(rs)
  BY <1>3 DEF Range
<1>5. CallOut(T, rs, g, device' \cup done')
  <2> HIDE DEF T, rs, g
  <2>1. CallOut(T, rs, g, device \cup done)
    BY Zenon DEF CallInv, T, k, rs, g
  <2> QED BY <1>4, <2>1, Zenon DEF CallOut, rs
<1>6. \A i \in 1 .. nput[u] : req_task'[rs[i]] = k
  <2>1. \A i \in 1 .. nput[u] : i \in 1 .. Len(rs)
    BY <1>3
  <2> QED BY <1>4, <2>1, Zenon DEF CallInv
<1>7. CallPoint(T, k, rs, nput[u], g, pc[u], events', core')
  <2>1. CallPoint(T, k, rs, nput[u], g, pc[u], events, core)
    BY Zenon DEF CallInv
  <2> QED BY <2>1, Zenon DEF CallPoint
<1> QED BY <1>1, <1>2, <1>5, <1>6, <1>7, Zenon DEF CallInv

\* The requests of a batch are a sequence without repetition.
LEMMA BatchType ==
  ASSUME NEW batch \in Batches
  PROVE  /\ batch \in Seq(Reqs)
         /\ IsInjective(batch)
         /\ batch # <<>>
<1>1. PICK n \in 1..MaxBatch : batch \in Injection(1..n, Reqs)
  BY DEF Batches
<1>2. n \in Nat \ {0}
  BY SyncIoAssumption
<1>3. batch \in [1..n -> Reqs] /\ IsInjective(batch)
  BY <1>1 DEF Injection
<1>4. batch \in Seq(Reqs) /\ Len(batch) = n
  BY <1>2, <1>3
<1> QED
  BY <1>2, <1>3, <1>4, Zenon

\* A task in the pool belongs to nobody.
LEMMA PoolUnowned ==
  ASSUME IInv, NEW k \in task_pool
  PROVE  /\ \A t \in Busy : mine[t] # k
         /\ k \in Tasks
         /\ k \notin Range(events) \cup {core}
         /\ task[k].sq_head = task[k].sq_tail
         /\ task[k].cq_head = task[k].cq_tail
<1>1. k \in Tasks /\ k # NoTask
  BY SyncIoAssumption, Zenon DEF IInv, TypeOK
<1>2. \A t \in Busy : mine[t] # k
  BY Zenon DEF IInv, CallInv
<1> QED BY <1>1, <1>2, Zenon DEF IInv, TasksInUse

-----------------------------------------------------------------------------
(* The steps of a caller.                                                  *)

\* reactor_alloc_task and the requests of a call keep the invariant.
LEMMA BeginInv ==
  ASSUME IInv, NEW t \in Threads, NEW batch \in Batches, Begin(t, batch)
  PROVE  IInv'
<1> DEFINE n == Len(batch)
<1>1. PICK k \in task_pool :
        /\ task_pool' = task_pool \ {k}
        /\ task' = [task EXCEPT ![k] = AllocTask(task[k], n)]
        /\ mine' = [mine EXCEPT ![t] = k]
  BY Zenon DEF Begin, IInv, TypeOK
<1>2. TypeOK
  BY DEF IInv
<1>3. /\ batch \in Seq(Reqs) /\ IsInjective(batch)
      /\ n \in 1 .. MaxBatch /\ n \in 1 .. MaxRequest - 1
      /\ DOMAIN batch = 1 .. n
  BY BatchType, SyncIoAssumption, ReactorTaskAssumption DEF Begin
<1>4. /\ k \in Tasks /\ k # NoTask
      /\ \A u \in Busy : mine[u] # k
      /\ k \notin Range(events) \cup {core}
  BY PoolUnowned, SyncIoAssumption, Zenon DEF TypeOK
<1> DEFINE U == AllocTask(task[k], n)
<1>5. /\ U \in TaskType
      /\ U.qdepth = n + 1
      /\ U.sq_head = 0 /\ U.sq_tail = 0
      /\ U.cq_head = 0 /\ U.cq_tail = 0
      /\ RingsClean(U)
  BY <1>2, <1>3, <1>4, PoolUnowned, AllocEffect, Zenon DEF IInv, TypeOK
<1> HIDE DEF U
<1>6. /\ task' = [task EXCEPT ![k] = U]
      /\ task'[k] = U
      /\ \A j \in Tasks \ {k} : task'[j] = task[j]
  BY <1>1, <1>2, <1>4, Zenon DEF TypeOK, U
<1>7. /\ pc[t] = "idle" /\ pc'[t] = "put"
      /\ mine'[t] = k /\ reqs'[t] = batch /\ nput'[t] = 0 /\ got'[t] = <<>>
      /\ \A u \in Threads \ {t} : SameCall(u)
  BY <1>1, <1>2, Zenon DEF TypeOK, Begin, Goto, SameCall
<1>8. /\ Range(batch) \subseteq req_pool
      /\ req_pool' = req_pool \ Range(batch)
      /\ UNCHANGED <<req_task, events, core, device, done>>
  BY Zenon DEF Begin, devVars
<1>9. Busy' = Busy \cup {t} /\ t \notin Busy /\ Busy \subseteq Threads
  BY <1>7, Zenon DEF Busy, SameCall
<1>10. TypeOK'
  <2>1. task' \in [Tasks -> TaskType]
    BY <1>2, <1>4, <1>5, <1>6, Zenon DEF TypeOK
  <2>2. /\ task_pool' \in SUBSET Tasks
        /\ mine' \in [Threads -> Tasks \cup {NoTask}]
    BY <1>1, <1>2, <1>4, Zenon DEF TypeOK
  <2>3. req_pool' \in SUBSET Reqs
    BY <1>2, <1>8, Zenon DEF TypeOK
  <2>4. /\ pc' \in [Threads -> Pcs]
        /\ reqs' \in [Threads -> Seq(Reqs)]
        /\ nput' \in [Threads -> 0 .. MaxBatch]
        /\ got' \in [Threads -> Seq(Reqs)]
    <3>1. 0 \in 0 .. MaxBatch /\ <<>> \in Seq(Reqs) /\ "put" \in Pcs
      BY SyncIoAssumption DEF Pcs
    <3> QED BY <1>2, <1>3, <3>1, Zenon DEF TypeOK, Begin, Goto
  <2> QED BY <1>2, <1>8, <2>1, <2>2, <2>3, <2>4, Zenon DEF TypeOK
<1>11. \A j \in Tasks : RingsClean(task'[j])
  BY <1>5, <1>6, Zenon DEF IInv
<1>12. ASSUME NEW u \in Busy' PROVE CallInv(u)'
  <2>1. CASE u = t
    <3>1. Arrived(U, <<>>) = [i \in 1 .. 0 |-> U.cq[i - 1]]
      BY <1>5 DEF Arrived
    <3>2. IsInjective(Arrived(U, <<>>)) /\ Back(U, <<>>) = {}
      BY <3>1 DEF Back, Range, IsInjective
    <3>3. CallRings(U, batch, 0, <<>>)
      BY <1>3, <1>5, <3>2 DEF CallRings
    <3>4. CallOut(U, batch, <<>>, device \cup done)
      <4>1. \A i \in 1 .. n : batch[i] \notin device \cup done
        BY <1>3, <1>8 DEF IInv, Owners, Range
      <4> QED BY <1>5, <3>2, <4>1 DEF CallOut
    <3>5. CallPoint(U, k, batch, 0, <<>>, "put", events, core)
      BY <1>4, <1>5, Zenon DEF CallPoint
    <3>6. k \in Tasks \ task_pool'
      BY <1>1, <1>4, Zenon
    <3> QED
      BY <1>6, <1>7, <1>8, <2>1, <3>3, <3>4, <3>5, <3>6 DEF CallInv
  <2>2. CASE u # t
    <3>1. u \in Busy /\ u \in Threads /\ SameCall(u) /\ CallInv(u)
      BY <1>7, <1>9, <2>2, Zenon DEF IInv
    <3>2. mine[u] \in Tasks \ {k} /\ mine[u] \notin task_pool'
      BY <1>1, <1>4, <3>1, Zenon DEF CallInv
    <3> QED BY <1>2, <1>6, <1>8, <3>1, <3>2, CallKept, Zenon
  <2> QED BY <2>1, <2>2, Zenon
<1>13. \A u \in Threads \ Busy' : IdleInv(u)'
  BY <1>7, <1>9, Zenon DEF IInv, IdleInv, SameCall
<1>14. Owners'
  <2>1. /\ reqs'[t] = batch
        /\ \A u \in Threads \ {t} : reqs'[u] = reqs[u] /\ mine'[u] = mine[u]
    BY <1>7, Zenon DEF SameCall
  <2>2. \A u \in Threads : Range(batch) \cap Range(reqs[u]) = {}
    BY <1>8, Zenon DEF IInv, Owners
  <2>3. \A u, v \in Busy' : mine'[u] = mine'[v] => u = v
    BY <1>4, <1>7, <1>9, <2>1 DEF IInv, Owners
  <2>4. \A u, v \in Threads :
          u # v => Range(reqs'[u]) \cap Range(reqs'[v]) = {}
    <3>1. \A u, v \in Threads :
            u # v => Range(reqs[u]) \cap Range(reqs[v]) = {}
      BY Zenon DEF IInv, Owners
    <3> QED BY <2>1, <2>2, <3>1, Zenon
  <2>5. \A u \in Threads : Range(reqs'[u]) \cap req_pool' = {}
    <3>1. \A u \in Threads : Range(reqs[u]) \cap req_pool = {}
      BY Zenon DEF IInv, Owners
    <3> QED BY <1>8, <2>1, <3>1, Zenon
  <2>6. \A r \in Reqs :
          r \in req_pool' \/ \E u \in Busy' : r \in Range(reqs'[u])
    <3>1. \A r \in Reqs :
            r \in req_pool \/ \E u \in Busy : r \in Range(reqs[u])
      BY Zenon DEF IInv, Owners
    <3> QED BY <1>8, <1>9, <2>1, <3>1, Zenon
  <2> QED BY <1>8, <2>3, <2>4, <2>5, <2>6, Zenon DEF IInv, Owners
<1>15. TasksInUse'
  BY <1>5, <1>6, <1>7, <1>8, <1>9 DEF IInv, TasksInUse, SameCall
<1> QED BY <1>10, <1>11, <1>12, <1>13, <1>14, <1>15, Zenon DEF IInv

\* A step inside a call changes no owner.
LEMMA OwnersKept ==
  ASSUME IInv, Busy' = Busy, UNCHANGED <<mine, reqs, req_pool>>,
         \A r \in device' \cup done' : r \notin req_pool,
         device' \cap done' = {}
  PROVE  Owners' /\ \A u \in Threads \ Busy : mine'[u] = NoTask
  BY Zenon DEF IInv, Owners, IdleInv

\* A step that changes the rings of one task k only, that of a call, keeps
\* the other tasks clean.
LEMMA TasksKept ==
  ASSUME IInv, Busy' = Busy, UNCHANGED <<mine, events, core>>,
         NEW t \in Busy, \A j \in Tasks \ {mine[t]} : task'[j] = task[j]
  PROVE  TasksInUse'
<1>1. mine' = mine /\ events' = events /\ core' = core
  OBVIOUS
<1>2. TasksInUse
  BY DEF IInv
<1>3. ASSUME NEW j \in Tasks, \A u \in Busy' : mine'[u] # j
      PROVE  task'[j].sq_head = task'[j].sq_tail
             /\ task'[j].cq_head = task'[j].cq_tail
  <2>1. j # mine[t] /\ \A u \in Busy : mine[u] # j
    BY <1>1, <1>3, Zenon
  <2> QED BY <1>2, <2>1, Zenon DEF TasksInUse
<1>4. \A j \in Range(events') \cup {core'} :
        j # NoTask => \E u \in Busy' : mine'[u] = j
  BY <1>1, <1>2, Zenon DEF TasksInUse
<1> QED BY <1>1, <1>2, <1>3, <1>4, Zenon DEF TasksInUse

\* What is known of the task of a call.
LEMMA CallFacts ==
  ASSUME IInv, NEW t \in Busy
  PROVE  /\ t \in Threads
         /\ CallInv(t)
         /\ mine[t] \in Tasks /\ mine[t] # NoTask
         /\ task[mine[t]] \in TaskType
         /\ RingsClean(task[mine[t]])
         /\ reqs[t] \in Seq(Reqs) /\ got[t] \in Seq(Reqs) /\ nput[t] \in Nat
         /\ DOMAIN reqs[t] = 1 .. Len(reqs[t]) /\ Len(reqs[t]) \in Nat
         /\ CallRings(task[mine[t]], reqs[t], nput[t], got[t])
         /\ CallOut(task[mine[t]], reqs[t], got[t], device \cup done)
<1>1. t \in Threads /\ CallInv(t) /\ TypeOK
  BY DEF IInv, Busy
<1>2. /\ mine[t] \in Tasks /\ mine[t] # NoTask
      /\ RingsClean(task[mine[t]])
      /\ CallRings(task[mine[t]], reqs[t], nput[t], got[t])
      /\ CallOut(task[mine[t]], reqs[t], got[t], device \cup done)
  BY <1>1, SyncIoAssumption, Zenon DEF CallInv, IInv
<1>3. /\ task[mine[t]] \in TaskType
      /\ reqs[t] \in Seq(Reqs) /\ got[t] \in Seq(Reqs) /\ nput[t] \in Nat
  BY <1>1, <1>2, SyncIoAssumption DEF TypeOK
<1>4. DOMAIN reqs[t] = 1 .. Len(reqs[t]) /\ Len(reqs[t]) \in Nat
  BY <1>3
<1> QED BY <1>1, <1>2, <1>3, <1>4, Zenon

\* So does putting a request in the submission ring, which has room.
LEMMA PutInv ==
  ASSUME IInv, NEW t \in Threads, Put(t)
  PROVE  IInv'
<1> DEFINE k == mine[t]
           T == task[k]
           rs == reqs[t]
           n == nput[t]
           r == rs[n + 1]
           g == got[t]
<1>1. TypeOK
  BY DEF IInv
<1>2. t \in Busy /\ CallInv(t) /\ pc[t] = "put" /\ n < Len(rs)
  BY Zenon DEF IInv, Put, Busy
<1>3. /\ k \in Tasks /\ T \in TaskType /\ RingsClean(T)
      /\ rs \in Seq(Reqs) /\ n \in Nat /\ g \in Seq(Reqs)
      /\ Len(rs) \in 1 .. MaxBatch /\ MaxBatch \in Nat
  <2>1. CallRings(T, rs, n, g) /\ Len(rs) \in Nat
    BY <1>2, CallFacts, Zenon
  <2>2. Len(rs) \in 1 .. MaxBatch /\ MaxBatch \in Nat
    BY <2>1, SyncIoAssumption DEF CallRings
  <2> QED BY <1>2, <2>2, CallFacts, Zenon
<1>4. CallRings(T, rs, n, g) /\ T.sq_tail = 0 /\ T.sq_head = n
  BY <1>2, Zenon DEF CallInv, CallPoint, CallRings
<1>5. n + 1 \in 1 .. Len(rs) /\ r \in Reqs /\ n + 1 \in 0 .. MaxBatch
  BY <1>2, <1>3
<1>6. T.sq_head + 1 < T.qdepth
  BY <1>2, <1>3, <1>4 DEF CallRings
<1> DEFINE U == SqPut(T, r)
<1>7. /\ ~ SqIsFull(T)
      /\ U \in TaskType
      /\ U.qdepth = T.qdepth
      /\ SameCq(T, U)
      /\ U.sq_head = n + 1
      /\ U.sq_tail = 0
      /\ U.sq = [T.sq EXCEPT ![n] = r]
      /\ RingsClean(U)
  <2> HIDE DEF T, r, n
  <2> QED BY <1>3, <1>4, <1>5, <1>6, SqPutEffect, Zenon
<1>8. /\ task' = [task EXCEPT ![k] = U]
      /\ nput' = [nput EXCEPT ![t] = n + 1]
      /\ req_task' = [req_task EXCEPT ![r] = k]
      /\ UNCHANGED <<pc, mine, reqs, got, task_pool, req_pool, events, core,
                     device, done>>
  BY <1>1, <1>3, <1>7, Zenon DEF Put, TypeOK, devVars
<1>9. /\ task'[k] = U
      /\ \A j \in Tasks \ {k} : task'[j] = task[j]
      /\ nput'[t] = n + 1
      /\ req_task'[r] = k
      /\ \A x \in Reqs \ {r} : req_task'[x] = req_task[x]
      /\ \A u \in Threads \ {t} : SameCall(u)
  <2> HIDE DEF U, r
  <2> QED BY <1>1, <1>3, <1>5, <1>8, Zenon DEF TypeOK, SameCall
<1>10. Busy' = Busy
  BY <1>8, Zenon DEF Busy
<1>11. TypeOK'
  <2> HIDE DEF U, r
  <2>1. /\ task' \in [Tasks -> TaskType]
        /\ nput' \in [Threads -> 0 .. MaxBatch]
        /\ req_task' \in [Reqs -> Tasks \cup {NoTask}]
    BY <1>1, <1>3, <1>5, <1>7, <1>8, Zenon DEF TypeOK
  <2> QED BY <1>1, <1>8, <2>1, Zenon DEF TypeOK
<1>12. \A j \in Tasks : RingsClean(task'[j])
  <2> HIDE DEF U
  <2> QED BY <1>7, <1>9, Zenon DEF IInv
<1>13. ASSUME NEW u \in Busy PROVE CallInv(u)'
  <2>1. CASE u = t
    <3>1. Arrived(U, g) = Arrived(T, g)
      BY <1>7, Zenon DEF Arrived, SameCq
    <3> HIDE DEF U
    <3>2. CallRings(U, rs, n + 1, g)
      <4>1. \A i \in 1 .. n + 1 : U.sq[i - 1] = rs[i]
        <5> SUFFICES ASSUME NEW i \in 1 .. n + 1 PROVE U.sq[i - 1] = rs[i]
          BY Zenon
        <5>1. n \in DOMAIN T.sq
          BY <1>3, <1>4, TaskFields, Zenon DEF Ring
        <5>2. CASE i = n + 1
          BY <1>3, <1>7, <5>1, <5>2
        <5>3. CASE i # n + 1
          <6>1. i \in 1 .. n /\ i - 1 # n /\ T.sq_tail < i
            BY <1>3, <1>4, <5>3
          <6>2. T.sq[i - 1] = rs[i]
            BY <1>4, <6>1, Zenon DEF CallRings
          <6> QED BY <1>7, <6>1, <6>2, <5>1
        <5> QED BY <5>2, <5>3, Zenon
      <4>2. n + 1 <= Len(rs)
        BY <1>2, <1>3
      <4> QED
        BY <1>4, <1>7, <3>1, <4>1, <4>2, Zenon DEF CallRings, Back, SameCq
    <3>3. CallOut(U, rs, g, device \cup done)
      <4>1. CallOut(T, rs, g, device \cup done)
        BY <1>2, Zenon DEF CallInv
      <4> QED BY <1>4, <1>7, <3>1, <4>1, Zenon DEF CallOut, Back
    <3>4. \A i \in 1 .. n + 1 : req_task'[rs[i]] = k
      <4> SUFFICES ASSUME NEW i \in 1 .. n + 1 PROVE req_task'[rs[i]] = k
        BY Zenon
      <4>1. CASE rs[i] = r
        BY <1>9, <4>1, Zenon
      <4>2. CASE rs[i] # r
        <5>1. i # n + 1
          BY <4>2, Zenon
        <5>2. i \in 1 .. n /\ i \in 1 .. Len(rs)
          <6> HIDE DEF n, rs
          <6> QED BY <1>2, <1>3, <5>1
        <5>3. rs[i] \in Reqs \ {r}
          BY <1>3, <4>2, <5>2
        <5> QED BY <1>2, <1>9, <5>2, <5>3, Zenon DEF CallInv
      <4> QED BY <4>1, <4>2, Zenon
    <3>5. CallPoint(U, k, rs, n + 1, g, "put", events, core)
      BY <1>2, <1>7, Zenon DEF CallInv, CallPoint, SameCq
    <3>6. k \in Tasks \ task_pool
      BY <1>2, Zenon DEF CallInv
    <3> QED
      BY <1>2, <1>8, <1>9, <2>1, <3>2, <3>3, <3>4, <3>5, <3>6 DEF CallInv
  <2>2. CASE u # t
    <3>1. u \in Threads /\ SameCall(u) /\ CallInv(u)
      BY <1>9, <2>2, Zenon DEF IInv, Busy
    <3>2. mine[u] \in Tasks \ {k} /\ mine[u] \notin task_pool'
      BY <1>2, <1>8, <2>2, <3>1, Zenon DEF CallInv, IInv, Owners
    <3>3. r \in Range(rs)
      <4> HIDE DEF n, rs
      <4> QED BY <1>3, <1>5 DEF Range
    <3>4. \A x \in Range(reqs[u]) : x \in Reqs /\ x # r
      <4>1. Range(reqs[u]) \cap Range(rs) = {}
        BY <2>2, <3>1, Zenon DEF IInv, Owners
      <4>2. \A i \in DOMAIN reqs[u] : reqs[u][i] \in Reqs
        <5>1. reqs[u] \in Seq(Reqs)
          BY <1>1, <3>1, Zenon DEF TypeOK
        <5> QED BY <5>1
      <4> HIDE DEF r, rs
      <4> QED BY <3>3, <4>1, <4>2, Zenon DEF Range
    <3> HIDE DEF U, r
    <3> QED BY <1>1, <1>8, <1>9, <3>1, <3>2, <3>4, CallKept, Zenon
  <2> QED BY <2>1, <2>2, Zenon
<1>14. \A u \in Threads \ Busy : IdleInv(u)'
  BY <1>2, <1>8, <1>9, Zenon DEF IInv, IdleInv, SameCall
<1>15. Owners'
  BY <1>8, <1>10, OwnersKept, Zenon DEF IInv, Owners
<1>16. TasksInUse'
  <2> HIDE DEF U
  <2> QED BY <1>2, <1>8, <1>9, <1>10, TasksKept, Zenon
<1> QED BY <1>10, <1>11, <1>12, <1>13, <1>14, <1>15, <1>16, Zenon DEF IInv

\* So does the event for the core.
LEMMA SubmitInv ==
  ASSUME IInv, NEW t \in Threads, Submit(t)
  PROVE  IInv'
<1> DEFINE k == mine[t]
<1>1. TypeOK
  BY DEF IInv
<1>2. /\ t \in Busy /\ CallInv(t) /\ pc[t] = "put"
      /\ nput[t] = Len(reqs[t])
      /\ k \in Tasks /\ k \notin Range(events) \cup {core}
      /\ task[k].sq_tail = 0
  BY Zenon DEF IInv, Submit, Busy, CallInv, CallPoint
<1>3. /\ events' = Append(events, k)
      /\ pc' = [pc EXCEPT ![t] = "get"]
      /\ UNCHANGED <<task, task_pool, req_pool, req_task, core, device, done,
                     mine, reqs, nput, got>>
  BY DEF Submit, Goto, devVars, callVars
<1>4. /\ events' \in Seq(Tasks)
      /\ Range(events') = Range(events) \cup {k}
      /\ IsInjective(events')
  <2>1. events \in Seq(Tasks) /\ IsInjective(events)
    BY Zenon DEF IInv, TypeOK, TasksInUse
  <2>2. /\ events' \in Seq(Tasks) /\ Len(events') = Len(events) + 1
        /\ \A i \in 1 .. Len(events) : events'[i] = events[i]
        /\ events'[Len(events) + 1] = k
    BY <1>2, <1>3, <2>1
  <2>3. /\ DOMAIN events = 1 .. Len(events) /\ Len(events) \in Nat
        /\ DOMAIN events' = 1 .. Len(events) + 1
    BY <2>1, <2>2
  <2>4. \A i \in 1 .. Len(events) + 1 :
          i \in 1 .. Len(events) \/ i = Len(events) + 1
    BY <2>3
  <2>5. \A i \in 1 .. Len(events) : events[i] # k
    BY <1>2, <2>3, Zenon DEF Range
  <2>6. Range(events') = Range(events) \cup {k}
    <3>1. Len(events) + 1 \in 1 .. Len(events) + 1
      BY <2>3
    <3>2. \A i \in 1 .. Len(events) : i \in 1 .. Len(events) + 1
      BY <2>3
    <3> QED BY <2>2, <2>3, <2>4, <3>1, <3>2, Zenon DEF Range
  <2>7. IsInjective(events')
    BY <2>1, <2>2, <2>3, <2>4, <2>5, Zenon DEF IsInjective
  <2> QED BY <2>2, <2>6, <2>7, Zenon
<1>5. /\ pc'[t] = "get"
      /\ \A u \in Threads \ {t} : SameCall(u)
      /\ Busy' = Busy
  BY <1>1, <1>2, <1>3, Zenon DEF TypeOK, SameCall, Busy
<1>6. TypeOK'
  BY <1>1, <1>3, <1>4, Zenon DEF TypeOK, Pcs
<1>7. ASSUME NEW u \in Busy PROVE CallInv(u)'
  <2>1. CASE u = t
    <3>1. CallPoint(task[k], k, reqs[t], nput[t], got[t], "get",
                    events', core)
      BY <1>2, <1>4, Zenon DEF CallInv, CallPoint
    <3> QED BY <1>2, <1>3, <1>5, <2>1, <3>1, Zenon DEF CallInv
  <2>2. CASE u # t
    <3>1. /\ u \in Threads /\ SameCall(u) /\ CallInv(u) /\ mine[u] # k
      BY <1>2, <1>5, <2>2, Zenon DEF IInv, Busy, Owners
    <3>2. mine[u] \notin task_pool'
      BY <1>3, <3>1, Zenon DEF CallInv
    <3> QED BY <1>1, <1>3, <1>4, <3>1, <3>2, CallKept, Zenon
  <2> QED BY <2>1, <2>2, Zenon
<1>8. \A u \in Threads \ Busy : IdleInv(u)'
  BY <1>3, Zenon DEF IInv, IdleInv
<1>9. Owners'
  BY <1>3, <1>5, OwnersKept, Zenon DEF IInv, Owners
<1>10. TasksInUse'
  BY <1>2, <1>3, <1>4, <1>5, Zenon DEF IInv, TasksInUse
<1>11. \A j \in Tasks : RingsClean(task'[j])
  BY <1>3, Zenon DEF IInv
<1> QED BY <1>5, <1>6, <1>7, <1>8, <1>9, <1>10, <1>11, Zenon DEF IInv

\* Waking up, or being woken up, changes the program counter only.
LEMMA WakeInv ==
  ASSUME IInv, NEW t \in Threads, pc[t] = "wait" \/ pc[t] = "get",
         NEW p \in {"get", "wait"}, pc' = [pc EXCEPT ![t] = p],
         UNCHANGED <<task, task_pool, req_pool, req_task, events, core,
                     device, done, mine, reqs, nput, got>>
  PROVE  IInv'
<1>1. TypeOK
  BY Zenon DEF IInv
<1>2. /\ pc'[t] = p
      /\ \A u \in Threads \ {t} : SameCall(u)
      /\ Busy' = Busy /\ t \in Busy
  BY <1>1, Zenon DEF TypeOK, SameCall, Busy
<1>3. TypeOK'
  BY <1>1, Zenon DEF TypeOK, Pcs
<1>4. ASSUME NEW u \in Busy PROVE CallInv(u)'
  <2>1. CASE u = t
    <3>1. CallInv(t)
      BY <2>1, Zenon DEF IInv
    <3>2. CallPoint(task[mine[t]], mine[t], reqs[t], nput[t], got[t], p,
                    events, core)
      BY <3>1, Zenon DEF CallInv, CallPoint
    <3> QED BY <1>2, <2>1, <3>1, <3>2, Zenon DEF CallInv
  <2>2. CASE u # t
    <3>1. u \in Threads /\ SameCall(u) /\ CallInv(u)
      BY <1>2, <2>2, Zenon DEF IInv, Busy
    <3>2. mine[u] \notin task_pool'
      BY <3>1, Zenon DEF CallInv
    <3> QED BY <1>1, <3>1, <3>2, CallKept, Zenon
  <2> QED BY <2>1, <2>2, Zenon
<1>5. \A u \in Threads \ Busy : IdleInv(u)'
  BY Zenon DEF IInv, IdleInv
<1>6. Owners'
  BY <1>2, OwnersKept, Zenon DEF IInv, Owners
<1>7. TasksInUse'
  BY <1>2, TasksKept, Zenon
<1>8. \A j \in Tasks : RingsClean(task'[j])
  BY Zenon DEF IInv
<1> QED BY <1>2, <1>3, <1>4, <1>5, <1>6, <1>7, <1>8, Zenon DEF IInv

\* reactor_cq_get_reqs takes everything the ring holds, for there is never
\* more than the call still waits for, or waits.
LEMMA GetEffect ==
  ASSUME IInv, CallsFit, NEW t \in Threads, Get(t)
  PROVE  \/ /\ pc' = [pc EXCEPT ![t] = "wait"]
            /\ UNCHANGED <<task, task_pool, req_pool, req_task, events, core,
                           device, done, mine, reqs, nput, got>>
         \/ \E U \in TaskType, h \in Seq(Reqs), p \in {"free", "get"} :
              /\ U.qdepth = task[mine[t]].qdepth
              /\ SameSq(task[mine[t]], U)
              /\ U.cq_head = task[mine[t]].cq_head
              /\ U.cq_tail = Len(h)
              /\ RingsClean(U)
              /\ Arrived(U, h) = Arrived(task[mine[t]], got[t])
              /\ p = "free" => Len(h) = Len(reqs[t])
              /\ task' = [task EXCEPT ![mine[t]] = U]
              /\ got' = [got EXCEPT ![t] = h]
              /\ pc' = [pc EXCEPT ![t] = p]
              /\ UNCHANGED <<task_pool, req_pool, req_task, events, core,
                             device, done, mine, reqs, nput>>
<1> DEFINE k == mine[t]
           T == task[k]
           rs == reqs[t]
           g == got[t]
           n == T.cq_head - T.cq_tail
<1>1. TypeOK
  BY DEF IInv
<1>2. t \in Busy /\ CallInv(t) /\ pc[t] = "get"
  BY Zenon DEF IInv, Get, Busy
<1>3. /\ k \in Tasks /\ T \in TaskType /\ RingsClean(T)
      /\ rs \in Seq(Reqs) /\ nput[t] \in Nat /\ g \in Seq(Reqs)
      /\ Len(rs) \in Nat /\ Len(g) \in Nat
      /\ CallRings(T, rs, nput[t], g)
      /\ T.cq_tail = Len(g)
  <2>1. CallRings(T, rs, nput[t], g)
    BY <1>2, CallFacts, Zenon
  <2>2. T.cq_tail = Len(g)
    BY <2>1, Zenon DEF CallRings
  <2>3. g \in Seq(Reqs)
    BY <1>2, CallFacts, Zenon
  <2>4. Len(g) \in Nat
    BY <2>3
  <2> QED BY <1>2, <2>1, <2>2, <2>3, <2>4, CallFacts, Zenon
<1>4. T.cq_head \in Nat /\ T.cq_tail \in Nat /\ T.cq_tail <= T.cq_head
  BY <1>3, TaskFields DEF RingsClean
<1>5. T.cq_head <= Len(rs)
  BY <1>2, Zenon DEF CallsFit, Fits
<1> DEFINE U == CqTake(T, n)
           h == g \o CqRead(T, n)
<1>6. /\ CqSize(T) = n
      /\ U \in TaskType
      /\ U.qdepth = T.qdepth
      /\ SameSq(T, U)
      /\ U.cq_head = T.cq_head
      /\ U.cq_tail = T.cq_head
      /\ RingsClean(U)
  <2> HIDE DEF T
  <2> QED BY <1>3, CqTakeEffect, Zenon
<1>7. /\ h \in Seq(Reqs)
      /\ Len(h) = T.cq_head
      /\ Arrived(U, h) = Arrived(T, g)
  <2> HIDE DEF T, U, g
  <2> QED BY <1>3, <1>6, ArrivedTake, Zenon
<1>8. CASE n < 1
  BY <1>6, <1>8, Zenon DEF Get, Goto, devVars
<1>9. CASE ~ (n < 1)
  <2> DEFINE p == IF n = Len(rs) - Len(g) THEN "free" ELSE "get"
  <2>1. (IF n > Len(rs) - Len(g) THEN Len(rs) - Len(g) ELSE n) = n
    <3>1. n <= Len(rs) - Len(g) /\ n \in Int /\ Len(rs) - Len(g) \in Int
      <4>1. T.cq_tail = Len(g) /\ Len(g) \in Nat /\ Len(rs) \in Nat
        BY <1>3, Zenon
      <4> HIDE DEF T, rs, g
      <4> QED BY <1>4, <1>5, <4>1
    <3>2. ~ (n > Len(rs) - Len(g))
      <4> DEFINE m == Len(rs) - Len(g)
      <4>1. n <= m /\ n \in Int /\ m \in Int
        BY <3>1, Zenon
      <4> HIDE DEF n, m
      <4>2. ~ (n > m)
        BY <4>1
      <4> QED BY <4>2, Zenon DEF m
    <3> QED BY <3>2, Zenon
  <2>2. /\ task' = [task EXCEPT ![k] = U]
        /\ got' = [got EXCEPT ![t] = h]
        /\ pc' = [pc EXCEPT ![t] = p]
        /\ UNCHANGED <<task_pool, req_pool, req_task, events, core, device,
                       done, mine, reqs, nput>>
    <3> HIDE DEF n
    <3> QED
      BY <1>1, <1>3, <1>6, <1>9, <2>1, Zenon DEF Get, Goto, devVars, TypeOK
  <2>3. p \in {"free", "get"} /\ (p = "free" => Len(h) = Len(rs))
    <3>1. T.cq_tail = Len(g) /\ Len(g) \in Nat /\ Len(rs) \in Nat
      BY <1>3, Zenon
    <3>2. p = "free" => n = Len(rs) - Len(g)
      BY Zenon
    <3>3. p \in {"free", "get"}
      OBVIOUS
    <3> HIDE DEF T, rs, g, p
    <3> QED BY <1>4, <1>7, <3>1, <3>2, <3>3
  <2> HIDE DEF U, h, p
  <2> QED BY <1>6, <1>7, <2>2, <2>3, Zenon
<1> QED BY <1>8, <1>9, Zenon

\* So does taking requests from the completion ring.
LEMMA GetInv ==
  ASSUME IInv, CallsFit, NEW t \in Threads, Get(t)
  PROVE  IInv'
<1> DEFINE k == mine[t]
           T == task[k]
           rs == reqs[t]
           g == got[t]
<1>1. TypeOK
  BY DEF IInv
<1>2. t \in Busy /\ CallInv(t) /\ pc[t] = "get"
  BY Zenon DEF IInv, Get, Busy
<1>3. /\ k \in Tasks /\ T \in TaskType /\ RingsClean(T)
      /\ CallRings(T, rs, nput[t], g)
  BY <1>2, Zenon DEF IInv, TypeOK, CallInv
<1>4. CASE /\ pc' = [pc EXCEPT ![t] = "wait"]
           /\ UNCHANGED <<task, task_pool, req_pool, req_task, events, core,
                          device, done, mine, reqs, nput, got>>
  BY <1>2, <1>4, WakeInv, Zenon
<1>5. ASSUME NEW U \in TaskType, NEW h \in Seq(Reqs),
             NEW p \in {"free", "get"},
             U.qdepth = T.qdepth, SameSq(T, U), U.cq_head = T.cq_head,
             U.cq_tail = Len(h), RingsClean(U),
             Arrived(U, h) = Arrived(T, g),
             p = "free" => Len(h) = Len(rs),
             task' = [task EXCEPT ![k] = U],
             got' = [got EXCEPT ![t] = h],
             pc' = [pc EXCEPT ![t] = p],
             UNCHANGED <<task_pool, req_pool, req_task, events, core, device,
                         done, mine, reqs, nput>>
      PROVE  IInv'
  <2>1. /\ task'[k] = U
        /\ \A j \in Tasks \ {k} : task'[j] = task[j]
        /\ got'[t] = h /\ pc'[t] = p
        /\ \A u \in Threads \ {t} : SameCall(u)
    BY <1>1, <1>3, <1>5, Zenon DEF TypeOK, SameCall
  <2>2. Busy' = Busy
    BY <1>1, <1>2, <1>5, <2>1, Zenon DEF TypeOK, Busy
  <2>3. TypeOK'
    BY <1>1, <1>3, <1>5, Zenon DEF TypeOK, Pcs
  <2>4. \A j \in Tasks : RingsClean(task'[j])
    BY <1>5, <2>1, Zenon DEF IInv
  <2>5. ASSUME NEW u \in Busy PROVE CallInv(u)'
    <3>1. CASE u = t
      <4>1. CallRings(U, rs, nput[t], h)
        BY <1>3, <1>5, Zenon DEF CallRings, SameSq, Back
      <4>2. CallOut(U, rs, h, device \cup done)
        BY <1>2, <1>5, Zenon DEF CallInv, CallOut, SameSq, Back
      <4>3. CallPoint(U, k, rs, nput[t], h, p, events, core)
        BY <1>2, <1>5, Zenon DEF CallInv, CallPoint, SameSq
      <4> QED BY <1>2, <1>5, <2>1, <3>1, <4>1, <4>2, <4>3, Zenon DEF CallInv
    <3>2. CASE u # t
      <4>1. u \in Threads /\ SameCall(u) /\ CallInv(u)
        BY <2>1, <3>2, Zenon DEF IInv, Busy
      <4>2. mine[u] \in Tasks \ {k} /\ mine[u] \notin task_pool'
        BY <1>2, <1>5, <3>2, <4>1, Zenon DEF CallInv, IInv, Owners
      <4> QED BY <1>1, <1>5, <2>1, <4>1, <4>2, CallKept, Zenon
    <3> QED BY <3>1, <3>2, Zenon
  <2>6. \A u \in Threads \ Busy : IdleInv(u)'
    BY <1>2, <1>5, <2>1, Zenon DEF IInv, IdleInv, SameCall
  <2>7. Owners'
    BY <1>5, <2>2, OwnersKept, Zenon DEF IInv, Owners
  <2>8. TasksInUse'
    BY <1>2, <1>5, <2>1, <2>2, TasksKept, Zenon
  <2> QED BY <2>2, <2>3, <2>4, <2>5, <2>6, <2>7, <2>8, Zenon DEF IInv
<1> QED BY <1>4, <1>5, GetEffect

\* A call that frees its task has got all its requests; its task is empty and
\* neither an event nor the core names it.
LEMMA FreeFacts ==
  ASSUME IInv, CallsFit, NEW t \in Threads, pc[t] = "free"
  PROVE  /\ Range(got[t]) = Range(reqs[t])
         /\ reqs[t] # <<>>
         /\ \A r \in Range(reqs[t]) : r \notin device \cup done
         /\ task[mine[t]].sq_head = task[mine[t]].sq_tail
         /\ task[mine[t]].cq_head = task[mine[t]].cq_tail
         /\ mine[t] \in Tasks
         /\ mine[t] \notin Range(events) \cup {core}
<1> DEFINE k == mine[t]
           T == task[k]
           rs == reqs[t]
           g == got[t]
<1>1. CallInv(t)
  BY DEF IInv, Busy
<1>2. /\ k \in Tasks /\ T \in TaskType /\ RingsClean(T)
      /\ rs \in Seq(Reqs) /\ nput[t] \in Nat /\ g \in Seq(Reqs)
      /\ Len(rs) \in Nat /\ Len(rs) >= 1 /\ DOMAIN rs = 1 .. Len(rs)
      /\ CallRings(T, rs, nput[t], g)
      /\ T.cq_tail = Len(g) /\ Len(g) = Len(rs) /\ T.sq_head = Len(rs)
  <2>1. t \in Busy
    BY DEF Busy
  <2>2. CallRings(T, rs, nput[t], g) /\ nput[t] = Len(rs) /\ Len(g) = Len(rs)
    BY <1>1, Zenon DEF CallInv, CallPoint
  <2>3. Len(rs) >= 1 /\ T.cq_tail = Len(g) /\ T.sq_head = nput[t]
    BY <2>2 DEF CallRings
  <2> QED BY <2>1, <2>2, <2>3, CallFacts, Zenon
<1>3. /\ T.cq_head \in Nat /\ T.cq_tail \in Nat /\ T.cq_tail <= T.cq_head
      /\ T.sq_head \in Nat /\ T.sq_tail \in Nat /\ T.sq_tail <= T.sq_head
  BY <1>2, TaskFields DEF RingsClean
<1>4. T.cq_head <= Len(rs) /\ (T.cq_head = Len(rs) => Back(T, g) = Range(rs))
  <2>1. t \in Busy
    BY DEF Busy
  <2> QED BY <2>1, Zenon DEF CallsFit, Fits
<1>5. T.cq_head = Len(rs) /\ T.cq_tail = Len(rs) /\ Back(T, g) = Range(rs)
  BY <1>2, <1>3, <1>4
<1>6. InCq(T) = {}
  <2> HIDE DEF T, rs, g
  <2>1. DOMAIN T.cq = 0 .. MaxRequest - 1
    BY <1>2, TaskFields, Zenon DEF Ring
  <2>2. \A i \in 0 .. MaxRequest - 1 : T.cq[i] = NoReq
    BY <1>2, <1>3, <1>5, ReactorTaskAssumption DEF RingsClean
  <2> QED BY <2>1, <2>2, Zenon DEF InCq
<1>7. Range(g) = Range(rs)
  <2> HIDE DEF T, rs, g
  <2> QED BY <1>2, <1>5, <1>6, BackIs, Zenon
<1>8. \A i \in 1 .. Len(rs) : rs[i] \in Back(T, g)
  BY <1>2, <1>5, Zenon DEF Range
<1>9. CallOut(T, rs, g, device \cup done)
  BY <1>1, Zenon DEF CallInv
<1>10. \A i \in 1 .. Len(rs) : i <= T.sq_tail /\ rs[i] \notin device \cup done
  BY <1>8, <1>9, Zenon DEF CallOut
<1>11. T.sq_tail = Len(rs)
  BY <1>2, <1>3, <1>10
<1>12. k \notin Range(events) \cup {core}
  <2> HIDE DEF T
  <2> QED BY <1>1, <1>2, <1>3, <1>5, <1>11 DEF CallInv, CallPoint, T
<1>13. \A r \in Range(rs) : r \notin device \cup done
  BY <1>2, <1>10, Zenon DEF Range
<1>14. rs # <<>>
  BY <1>2
<1> QED BY <1>2, <1>5, <1>7, <1>11, <1>12, <1>13, <1>14, Zenon

\* So does giving the requests and the task back.
LEMMA FreeInv ==
  ASSUME IInv, CallsFit, NEW t \in Threads, Free(t)
  PROVE  IInv'
<1> DEFINE k == mine[t]
<1>1. TypeOK
  BY DEF IInv
<1>2. pc[t] = "free" /\ t \in Busy
  BY Zenon DEF Free, Busy
<1>3. /\ k \in Tasks /\ k \notin Range(events) \cup {core}
      /\ task[k].sq_head = task[k].sq_tail
      /\ task[k].cq_head = task[k].cq_tail
      /\ \A r \in Range(reqs[t]) : r \notin device \cup done
      /\ Range(got[t]) = Range(reqs[t])
  BY <1>2, FreeFacts, Zenon
<1>4. /\ req_pool' = req_pool \cup Range(reqs[t])
      /\ task_pool' = task_pool \cup {k}
      /\ UNCHANGED <<task, req_task, events, core, device, done>>
  BY <1>3, Zenon DEF Free, devVars
<1>5. /\ mine'[t] = NoTask /\ reqs'[t] = <<>> /\ nput'[t] = 0
      /\ got'[t] = <<>> /\ pc'[t] = "idle"
      /\ \A u \in Threads \ {t} : SameCall(u)
  BY <1>1, Zenon DEF Free, Goto, TypeOK, SameCall
<1>6. Busy' = Busy \ {t} /\ Busy \subseteq Threads
  BY <1>2, <1>5, Zenon DEF Busy, SameCall
<1>7. TypeOK'
  <2>1. 0 \in 0 .. MaxBatch /\ <<>> \in Seq(Reqs) /\ "idle" \in Pcs
    BY SyncIoAssumption DEF Pcs
  <2>2. Range(reqs[t]) \subseteq Reqs
    <3>1. reqs[t] \in Seq(Reqs)
      BY <1>1, Zenon DEF TypeOK
    <3> QED BY <3>1 DEF Range
  <2>3. /\ mine' \in [Threads -> Tasks \cup {NoTask}]
        /\ reqs' \in [Threads -> Seq(Reqs)]
        /\ nput' \in [Threads -> 0 .. MaxBatch]
        /\ got' \in [Threads -> Seq(Reqs)]
        /\ pc' \in [Threads -> Pcs]
    BY <1>1, <2>1, Zenon DEF Free, Goto, TypeOK
  <2> QED BY <1>1, <1>3, <1>4, <2>2, <2>3, Zenon DEF TypeOK
<1>8. \A j \in Tasks : RingsClean(task'[j])
  BY <1>4, Zenon DEF IInv
<1>9. ASSUME NEW u \in Busy' PROVE CallInv(u)'
  <2>1. u \in Threads /\ u \in Busy /\ u # t /\ SameCall(u) /\ CallInv(u)
    BY <1>5, <1>6, Zenon DEF IInv
  <2>2. mine[u] # k /\ mine[u] \notin task_pool'
    BY <1>2, <1>4, <2>1, Zenon DEF CallInv, IInv, Owners
  <2> QED BY <1>1, <1>4, <2>1, <2>2, CallKept, Zenon
<1>10. \A u \in Threads \ Busy' : IdleInv(u)'
  BY <1>5, <1>6, Zenon DEF IInv, IdleInv, SameCall
<1>11. Owners'
  <2>1. /\ Range(reqs'[t]) = {}
        /\ \A u \in Threads \ {t} : reqs'[u] = reqs[u] /\ mine'[u] = mine[u]
    BY <1>5 DEF SameCall, Range
  <2>2. \A u, v \in Busy' : mine'[u] = mine'[v] => u = v
    BY <1>6, <2>1 DEF IInv, Owners
  <2>3. \A u, v \in Threads :
          u # v => Range(reqs'[u]) \cap Range(reqs'[v]) = {}
    <3>1. \A u, v \in Threads :
            u # v => Range(reqs[u]) \cap Range(reqs[v]) = {}
      BY Zenon DEF IInv, Owners
    <3> QED BY <2>1, <3>1, Zenon
  <2>4. \A u \in Threads : Range(reqs'[u]) \cap req_pool' = {}
    <3>1. \A u \in Threads :
            /\ Range(reqs[u]) \cap req_pool = {}
            /\ u # t => Range(reqs[u]) \cap Range(reqs[t]) = {}
      BY Zenon DEF IInv, Owners
    <3> QED BY <1>4, <2>1, <3>1, Zenon
  <2>5. \A r \in Reqs :
          r \in req_pool' \/ \E u \in Busy' : r \in Range(reqs'[u])
    <3>1. \A r \in Reqs :
            r \in req_pool \/ \E u \in Busy : r \in Range(reqs[u])
      BY Zenon DEF IInv, Owners
    <3> QED BY <1>4, <1>6, <2>1, <3>1, Zenon
  <2>6. \A r \in device' \cup done' : r \notin req_pool'
    BY <1>3, <1>4, Zenon DEF IInv, Owners
  <2> QED BY <1>4, <2>2, <2>3, <2>4, <2>5, <2>6, Zenon DEF IInv, Owners
<1>12. TasksInUse'
  BY <1>3, <1>4, <1>5, <1>6 DEF IInv, TasksInUse, SameCall
<1> QED BY <1>7, <1>8, <1>9, <1>10, <1>11, <1>12, Zenon DEF IInv

-----------------------------------------------------------------------------
(* The steps of the core and of the device, and all steps.                 *)

\* Nothing comes back before something was submitted.
LEMMA NoneBack ==
  ASSUME IInv, NEW t \in Busy, task[mine[t]].sq_tail = 0
  PROVE  task[mine[t]].cq_head = 0
<1> DEFINE T == task[mine[t]]
           rs == reqs[t]
           g == got[t]
<1>1. T \in TaskType /\ CallRings(T, rs, nput[t], g)
      /\ CallOut(T, rs, g, device \cup done) /\ DOMAIN rs = 1 .. Len(rs)
  BY CallFacts, Zenon
<1>2. T.cq_head \in Nat
  BY <1>1, TaskFields
<1> SUFFICES ASSUME T.cq_head >= 1 PROVE FALSE
  BY <1>2
<1>3. Arrived(T, g)[1] \in Back(T, g)
  <2>1. 1 \in DOMAIN Arrived(T, g)
    BY <1>2 DEF Arrived
  <2> QED BY <2>1, Zenon DEF Back, Range
<1>4. PICK i \in 1 .. Len(rs) : rs[i] = Arrived(T, g)[1]
  BY <1>1, <1>3 DEF CallRings, Range
<1>5. i <= T.sq_tail
  BY <1>1, <1>3, <1>4, Zenon DEF CallOut
<1> QED BY <1>5

\* The core takes an event.
LEMMA TakeEventInv ==
  ASSUME IInv, TakeEvent
  PROVE  IInv'
<1> DEFINE k == Head(events)
<1>1. TypeOK /\ TasksInUse
  BY DEF IInv
<1>2. /\ core = NoTask /\ events # <<>>
      /\ core' = k /\ events' = Tail(events)
      /\ UNCHANGED <<task, task_pool, req_pool, req_task, device, done, pc,
                     mine, reqs, nput, got>>
  BY DEF TakeEvent, devVars, callVars
<1>3. /\ k \in Tasks
      /\ events' \in Seq(Tasks)
      /\ Range(events) = Range(events') \cup {k}
      /\ k \notin Range(events')
      /\ IsInjective(events')
  <2>1. events \in Seq(Tasks) /\ IsInjective(events) /\ events # <<>>
    BY <1>1, <1>2, Zenon DEF TypeOK, TasksInUse
  <2>2. /\ k = events[1] /\ k \in Tasks /\ events' \in Seq(Tasks)
        /\ Len(events') = Len(events) - 1 /\ Len(events) \in Nat \ {0}
        /\ \A i \in 1 .. Len(events') : events'[i] = events[i + 1]
    BY <1>2, <2>1
  <2>3. DOMAIN events = 1 .. Len(events) /\ DOMAIN events' = 1 .. Len(events')
    BY <2>1, <2>2
  <2>4. \A i, j \in 1 .. Len(events) : events[i] = events[j] => i = j
    BY <2>1, <2>3, Zenon DEF IsInjective
  <2>5. \A i \in 1 .. Len(events') : i + 1 \in 1 .. Len(events) /\ i + 1 # 1
    BY <2>2
  <2>6. \A i \in 1 .. Len(events) :
          i = 1 \/ (i - 1 \in 1 .. Len(events') /\ (i - 1) + 1 = i)
    BY <2>2
  <2>7. 1 \in 1 .. Len(events)
    BY <2>2
  <2>8. k \notin Range(events')
    BY <2>2, <2>3, <2>4, <2>5, <2>7 DEF Range
  <2>9. IsInjective(events')
    <3>1. \A i, j \in 1 .. Len(events') : i + 1 = j + 1 => i = j
      OBVIOUS
    <3> QED BY <2>2, <2>3, <2>4, <2>5, <3>1 DEF IsInjective
  <2>10. Range(events) \subseteq Range(events') \cup {k}
    <3> SUFFICES ASSUME NEW i \in 1 .. Len(events)
                 PROVE  events[i] \in Range(events') \cup {k}
      BY <2>3, Zenon DEF Range
    <3>1. CASE i = 1
      BY <2>2, <3>1, Zenon
    <3>2. CASE i - 1 \in 1 .. Len(events') /\ (i - 1) + 1 = i
      BY <2>2, <2>3, <3>2, Zenon DEF Range
    <3> QED BY <2>6, <3>1, <3>2, Zenon
  <2>11. Range(events') \cup {k} \subseteq Range(events)
    BY <2>2, <2>3, <2>5, <2>7 DEF Range
  <2> QED BY <2>2, <2>8, <2>9, <2>10, <2>11, Zenon
<1> HIDE DEF k
<1>4. PICK t \in Busy : mine[t] = k
  BY <1>1, <1>3, SyncIoAssumption, Zenon DEF TasksInUse
<1>5. task[k].sq_tail = 0 /\ task[k].cq_head = 0 /\ pc[t] # "put"
  <2>1. CallInv(t)
    BY CallFacts, Zenon
  <2>2. task[k].sq_tail = 0 /\ pc[t] # "put"
    BY <1>3, <1>4, <2>1, Zenon DEF CallInv, CallPoint
  <2> QED BY <1>4, <2>2, NoneBack, Zenon
<1>6. Busy' = Busy /\ \A u \in Threads : SameCall(u)
  BY <1>2, Zenon DEF Busy, SameCall
<1>7. TypeOK'
  BY <1>1, <1>2, <1>3, Zenon DEF TypeOK
<1>8. ASSUME NEW u \in Busy PROVE CallInv(u)'
  <2>1. u \in Threads /\ CallInv(u) /\ SameCall(u) /\ mine[u] \notin task_pool'
        /\ mine[u] # NoTask
    BY <1>2, <1>6, CallFacts, Zenon DEF CallInv
  <2>2. CASE mine[u] = k
    <3>1. u = t
      BY <1>4, <2>2, Zenon DEF IInv, Owners
    <3>2. CallPoint(task[k], k, reqs[u], nput[u], got[u], pc[u],
                    events', core')
      BY <1>3, <1>5, <2>1, <2>2, <3>1, Zenon DEF CallInv, CallPoint
    <3> QED BY <1>2, <2>1, <2>2, <3>2, Zenon DEF CallInv
  <2>3. CASE mine[u] # k
    BY <1>1, <1>2, <1>3, <2>1, <2>3, CallKept, Zenon
  <2> QED BY <2>2, <2>3, Zenon
<1>9. \A u \in Threads \ Busy : IdleInv(u)'
  BY <1>2, Zenon DEF IInv, IdleInv
<1>10. Owners'
  BY <1>2, <1>6, OwnersKept, Zenon DEF IInv, Owners
<1>11. TasksInUse'
  BY <1>1, <1>2, <1>3, <1>4, <1>6, Zenon DEF TasksInUse
<1>12. \A j \in Tasks : RingsClean(task'[j])
  BY <1>2, Zenon DEF IInv
<1> QED BY <1>6, <1>7, <1>8, <1>9, <1>10, <1>11, <1>12, Zenon DEF IInv

\* The device performs a request.
LEMMA CompleteInv ==
  ASSUME IInv, NEW r \in Reqs, Complete(r)
  PROVE  IInv'
<1>1. TypeOK
  BY DEF IInv
<1>2. /\ r \in device
      /\ device' = device \ {r} /\ done' = done \cup {r}
      /\ UNCHANGED <<task, task_pool, req_pool, req_task, events, core, pc,
                     mine, reqs, nput, got>>
  BY DEF Complete, callVars
<1>3. device' \cup done' = device \cup done /\ device' \cap done' = {}
  BY <1>2 DEF IInv, Owners
<1>4. Busy' = Busy /\ \A u \in Threads : SameCall(u)
  BY <1>2, Zenon DEF Busy, SameCall
<1>5. TypeOK'
  BY <1>1, <1>2, Zenon DEF TypeOK
<1>6. ASSUME NEW u \in Busy PROVE CallInv(u)'
  <2>1. u \in Threads /\ CallInv(u) /\ SameCall(u) /\ mine[u] \notin task_pool'
    BY <1>2, <1>4, CallFacts, Zenon DEF CallInv
  <2> QED BY <1>1, <1>2, <1>3, <2>1, CallKept, Zenon
<1>7. \A u \in Threads \ Busy : IdleInv(u)'
  BY <1>2, Zenon DEF IInv, IdleInv
<1>8. Owners'
  <2>1. \A x \in device' \cup done' : x \notin req_pool
    BY <1>3, Zenon DEF IInv, Owners
  <2> QED BY <1>2, <1>3, <1>4, <2>1, OwnersKept, Zenon
<1>9. TasksInUse'
  BY <1>2, <1>4, Zenon DEF IInv, TasksInUse
<1>10. \A j \in Tasks : RingsClean(task'[j])
  BY <1>2, Zenon DEF IInv
<1> QED BY <1>4, <1>5, <1>6, <1>7, <1>8, <1>9, <1>10, Zenon DEF IInv

\* One turn of reactor_submit_on_core.
LEMMA SubmitOnCoreInv ==
  ASSUME IInv, SubmitOnCore
  PROVE  IInv'
<1>1. TypeOK /\ TasksInUse
  BY DEF IInv
<1>2. core # NoTask
  BY DEF SubmitOnCore
<1>3. PICK k \in Tasks : k = core
  BY <1>1, <1>2, Zenon DEF TypeOK
<1>4. PICK t \in Busy : mine[t] = k
  BY <1>1, <1>2, <1>3, Zenon DEF TasksInUse
<1> DEFINE T == task[k]
           rs == reqs[t]
           g == got[t]
           n == nput[t]
<1>5. /\ t \in Threads /\ CallInv(t) /\ T \in TaskType /\ RingsClean(T)
      /\ rs \in Seq(Reqs) /\ Len(rs) \in Nat /\ DOMAIN rs = 1 .. Len(rs)
      /\ n \in Nat
      /\ CallRings(T, rs, n, g)
      /\ CallOut(T, rs, g, device \cup done)
      /\ T.sq_head = n /\ n <= Len(rs)
  BY <1>4, CallFacts, Zenon DEF CallRings
<1>6. /\ pc[t] # "put" /\ k \notin Range(events) /\ T.cq_head = 0
      /\ T.sq_tail \in Nat
  BY <1>1, <1>3, <1>4, <1>5, TaskFields DEF CallInv, CallPoint, TasksInUse
<1>7. UNCHANGED <<task_pool, req_pool, req_task, events, done, pc, mine, reqs,
                  nput, got>>
  BY Zenon DEF SubmitOnCore, callVars
<1>8. Busy' = Busy /\ \A u \in Threads : SameCall(u)
  BY <1>7, Zenon DEF Busy, SameCall
<1>9. \A u \in Threads \ Busy : IdleInv(u)'
  BY <1>7, Zenon DEF IInv, IdleInv
<1>10. CASE SqIsEmpty(T)
  <2>1. core' = NoTask /\ UNCHANGED <<task, device>>
    BY <1>3, <1>10, Zenon DEF SubmitOnCore
  <2>2. TypeOK'
    BY <1>1, <1>7, <2>1, Zenon DEF TypeOK
  <2>3. ASSUME NEW u \in Busy PROVE CallInv(u)'
    <3>1. /\ u \in Threads /\ CallInv(u) /\ SameCall(u)
          /\ mine[u] \notin task_pool' /\ mine[u] # NoTask
      BY <1>7, <1>8, CallFacts, Zenon DEF CallInv
    <3>2. CASE mine[u] = k
      <4>1. u = t
        BY <1>4, <3>2, Zenon DEF IInv, Owners
      <4>2. CallPoint(T, k, rs, n, g, pc[t], events, NoTask)
        BY <1>3, <1>4, <1>5, <1>6, SyncIoAssumption, Zenon
        DEF CallInv, CallPoint
      <4> QED BY <1>4, <1>7, <2>1, <3>1, <4>1, <4>2, Zenon DEF CallInv
    <3>3. CASE mine[u] # k
      BY <1>1, <1>3, <1>7, <2>1, <3>1, <3>3, CallKept, Zenon
    <3> QED BY <3>2, <3>3, Zenon
  <2>4. Owners'
    BY <1>7, <1>8, <2>1, OwnersKept, Zenon DEF IInv, Owners
  <2>5. TasksInUse'
    <3>1. NoTask \notin Range(events)
      BY <1>1, SyncIoAssumption DEF TypeOK, Range
    <3> QED BY <1>1, <1>7, <1>8, <2>1, <3>1, Zenon DEF TasksInUse
  <2>6. \A j \in Tasks : RingsClean(task'[j])
    BY <2>1, Zenon DEF IInv
  <2> QED BY <1>8, <1>9, <2>2, <2>3, <2>4, <2>5, <2>6, Zenon DEF IInv
<1>11. CASE ~ SqIsEmpty(T)
  <2> DEFINE r == SqFirst(T)
             U == SqGet(T)
             i0 == T.sq_tail + 1
  <2>1. /\ T.sq_tail < T.sq_head
        /\ r = T.sq[T.sq_tail] /\ r \in Reqs
        /\ U \in TaskType
        /\ U.qdepth = T.qdepth
        /\ SameCq(T, U)
        /\ U.sq_head = T.sq_head
        /\ U.sq_tail = T.sq_tail + 1
        /\ U.sq = [T.sq EXCEPT ![T.sq_tail] = NoReq]
        /\ RingsClean(U)
    <3> HIDE DEF T
    <3> QED BY <1>5, <1>11, SqGetEffect, Zenon
  <2>2. i0 \in 1 .. n /\ i0 \in 1 .. Len(rs) /\ T.sq_tail < i0
        /\ i0 - 1 = T.sq_tail
    BY <1>5, <1>6, <2>1
  <2>3. r = rs[i0]
    BY <1>5, <2>1, <2>2, Zenon DEF CallRings
  <2>4. /\ device' = device \cup {r}
        /\ task' = [task EXCEPT ![k] = U]
        /\ core' = core
    BY <1>3, <1>11, Zenon DEF SubmitOnCore
  <2> HIDE DEF U, r
  <2>5. task'[k] = U /\ \A j \in Tasks \ {k} : task'[j] = task[j]
    BY <1>1, <2>4, Zenon DEF TypeOK
  <2>6. TypeOK'
    BY <1>1, <1>7, <2>1, <2>4, Zenon DEF TypeOK
  <2>7. \A j \in Tasks : RingsClean(task'[j])
    BY <2>1, <2>5, Zenon DEF IInv
  <2>8. r \notin device \cup done /\ r \in Range(rs) /\ r \notin Back(T, g)
    <3>1. ~ (i0 <= T.sq_tail)
      BY <1>6
    <3> HIDE DEF i0
    <3> QED BY <1>5, <2>2, <2>3, <3>1, Zenon DEF CallOut, Range
  <2>9. ASSUME NEW u \in Busy PROVE CallInv(u)'
    <3>1. /\ u \in Threads /\ CallInv(u) /\ SameCall(u)
          /\ mine[u] \in Tasks /\ mine[u] \notin task_pool'
      BY <1>7, <1>8, CallFacts, Zenon DEF CallInv
    <3>2. CASE mine[u] = k
      <4>1. u = t
        BY <1>4, <3>2, Zenon DEF IInv, Owners
      <4>2. Arrived(U, g) = Arrived(T, g)
        BY <2>1, Zenon DEF Arrived, SameCq
      <4>3. CallRings(U, rs, n, g)
        <5>1. \A i \in 1 .. n : U.sq_tail < i => U.sq[i - 1] = rs[i]
          <6> SUFFICES ASSUME NEW i \in 1 .. n, U.sq_tail < i
                       PROVE  U.sq[i - 1] = rs[i]
            BY Zenon
          <6>1. T.sq_tail < i /\ i - 1 # T.sq_tail
            BY <1>5, <1>6, <2>1
          <6>2. T.sq[i - 1] = rs[i]
            BY <1>5, <6>1, Zenon DEF CallRings
          <6>3. T.sq_tail \in DOMAIN T.sq
            BY <1>5, TaskFields, Zenon DEF Ring
          <6> QED BY <2>1, <6>1, <6>2, <6>3, TaskFields, <1>5 DEF Ring
        <5> QED BY <1>5, <2>1, <4>2, <5>1, Zenon DEF CallRings, Back, SameCq
      <4>4. CallOut(U, rs, g, device' \cup done')
        <5> SUFFICES ASSUME NEW i \in 1 .. Len(rs)
                     PROVE  /\ rs[i] \in device' \cup done' =>
                                 i <= U.sq_tail /\ rs[i] \notin Back(U, g)
                            /\ i <= U.sq_tail =>
                                 rs[i] \in device' \cup done' \cup Back(U, g)
                            /\ rs[i] \in Back(U, g) => i <= U.sq_tail
          BY Zenon DEF CallOut
        <5>1. Back(U, g) = Back(T, g) /\ U.sq_tail = T.sq_tail + 1
          BY <2>1, <4>2, Zenon DEF Back
        <5>2. /\ rs[i] \in device \cup done =>
                   i <= T.sq_tail /\ rs[i] \notin Back(T, g)
              /\ i <= T.sq_tail => rs[i] \in device \cup done \cup Back(T, g)
              /\ rs[i] \in Back(T, g) => i <= T.sq_tail
          BY <1>5, Zenon DEF CallOut
        <5>3. device' \cup done' = (device \cup done) \cup {r}
          BY <1>7, <2>4, Zenon
        <5>4. rs[i] = r <=> i = i0
          BY <1>5, <2>2, <2>3, Zenon DEF CallRings, IsInjective
        <5>5. /\ i <= T.sq_tail => i <= T.sq_tail + 1
              /\ i = i0 => i <= T.sq_tail + 1
              /\ i <= T.sq_tail + 1 => i <= T.sq_tail \/ i = i0
          BY <1>6
        <5> HIDE DEF i0, T, rs, g
        <5> QED BY <2>8, <5>1, <5>2, <5>3, <5>4, <5>5, Zenon
      <4>5. CallPoint(U, k, rs, n, g, pc[t], events', core')
        BY <1>4, <1>5, <1>6, <1>7, <2>1, <2>4, Zenon
        DEF CallInv, CallPoint, SameCq
      <4> QED
        BY <1>4, <1>7, <2>4, <2>5, <3>1, <4>1, <4>3, <4>4, <4>5, Zenon
        DEF CallInv
    <3>3. CASE mine[u] # k
      <4>1. r \notin Range(reqs[u])
        <5>1. u # t
          BY <1>4, <3>3, Zenon
        <5> QED BY <1>5, <2>8, <3>1, <5>1, Zenon DEF IInv, Owners
      <4>2. \A x \in Range(reqs[u]) :
              x \in device' \cup done' <=> x \in device \cup done
        BY <1>7, <2>4, <4>1, Zenon
      <4> QED BY <1>1, <1>7, <2>4, <2>5, <3>1, <3>3, <4>2, CallKept, Zenon
    <3> QED BY <3>2, <3>3, Zenon
  <2>10. Owners'
    <3>1. r \notin req_pool
      BY <1>5, <2>8, Zenon DEF IInv, Owners
    <3>2. \A x \in device' \cup done' : x \notin req_pool
      BY <1>7, <2>4, <3>1, Zenon DEF IInv, Owners
    <3>3. device' \cap done' = {}
      BY <1>7, <2>4, <2>8 DEF IInv, Owners
    <3> QED BY <1>7, <1>8, <3>2, <3>3, OwnersKept, Zenon
  <2>11. TasksInUse'
    BY <1>4, <1>7, <1>8, <2>4, <2>5, TasksKept, Zenon
  <2> QED BY <1>8, <1>9, <2>6, <2>7, <2>9, <2>10, <2>11, Zenon DEF IInv
<1> QED BY <1>10, <1>11, Zenon

\* A request whose callback is due belongs to a call, names its task, and has
\* a place in its completion ring.
LEMMA DoneFacts ==
  ASSUME IInv, CallsFit, NEW r \in device \cup done
  PROVE  \E t \in Busy :
           /\ r \in Range(reqs[t])
           /\ req_task[r] = mine[t]
           /\ r \notin Back(task[mine[t]], got[t])
           /\ task[mine[t]].cq_head + 1 < task[mine[t]].qdepth
           /\ pc[t] # "put"
<1>1. r \in Reqs
  BY Zenon DEF IInv, TypeOK
<1>2. PICK t \in Busy : r \in Range(reqs[t])
  BY <1>1, Zenon DEF IInv, Owners
<1> DEFINE T == task[mine[t]]
           rs == reqs[t]
           g == got[t]
           n == nput[t]
<1>3. /\ CallInv(t) /\ T \in TaskType /\ RingsClean(T)
      /\ rs \in Seq(Reqs) /\ g \in Seq(Reqs) /\ n \in Nat
      /\ DOMAIN rs = 1 .. Len(rs) /\ Len(rs) \in Nat
      /\ CallRings(T, rs, n, g) /\ CallOut(T, rs, g, device \cup done)
  BY CallFacts, Zenon
<1>4. PICK i \in 1 .. Len(rs) : r = rs[i]
  BY <1>2, <1>3, Zenon DEF Range
<1>5. i <= T.sq_tail /\ r \notin Back(T, g)
  BY <1>3, <1>4, Zenon DEF CallOut
<1>6. i \in 1 .. n
  <2>1. T.sq_tail \in Nat /\ T.sq_tail <= T.sq_head /\ T.sq_head = n
    BY <1>3, TaskFields DEF RingsClean, CallRings
  <2> QED BY <1>3, <1>5, <2>1
<1>7. req_task[r] = mine[t]
  BY <1>3, <1>4, <1>6, Zenon DEF CallInv
<1>8. T.cq_head + 1 < T.qdepth
  <2> HIDE DEF T, rs, g, n
  <2>1. r \in Range(rs) \ Back(T, g)
    BY <1>2, <1>5, Zenon DEF rs
  <2>2. Fits(T, rs, g)
    BY <1>2, Zenon DEF CallsFit, T, rs, g
  <2> QED BY <1>3, <2>1, <2>2, RoomFor, Zenon
<1>9. pc[t] # "put"
  BY <1>3, <1>5 DEF CallInv, CallPoint
<1> QED BY <1>2, <1>5, <1>7, <1>8, <1>9, Zenon

\* reactor_bio_cb finds room in the completion ring of the request's call.
LEMMA BioCbEffect ==
  ASSUME IInv, CallsFit, NEW r \in Reqs, BioCb(r)
  PROVE  /\ core = NoTask /\ r \in done /\ r \notin device
         /\ done' = done \ {r}
         /\ \E t \in Busy, U \in TaskType :
              /\ r \in Range(reqs[t])
              /\ pc[t] # "put"
              /\ U.qdepth = task[mine[t]].qdepth
              /\ SameSq(task[mine[t]], U)
              /\ U.cq_tail = task[mine[t]].cq_tail
              /\ RingsClean(U)
              /\ Back(U, got[t]) = Back(task[mine[t]], got[t]) \cup {r}
              /\ IsInjective(Arrived(U, got[t]))
              /\ task' = [task EXCEPT ![mine[t]] = U]
              /\ pc' = [u \in Threads |->
                          IF pc[u] = "wait" /\ mine[u] = mine[t]
                          THEN "get" ELSE pc[u]]
              /\ UNCHANGED <<task_pool, req_pool, req_task, events, core,
                             device, mine, reqs, nput, got>>
<1>1. TypeOK
  BY DEF IInv
<1>2. core = NoTask /\ r \in done /\ r \notin device /\ done' = done \ {r}
  BY Zenon DEF BioCb, IInv, Owners
<1>3. PICK t \in Busy :
        /\ r \in Range(reqs[t])
        /\ req_task[r] = mine[t]
        /\ r \notin Back(task[mine[t]], got[t])
        /\ task[mine[t]].cq_head + 1 < task[mine[t]].qdepth
        /\ pc[t] # "put"
  BY <1>2, DoneFacts, Zenon
<1>4. PICK k \in Tasks : k = mine[t]
  BY CallFacts, Zenon
<1> DEFINE T == task[k]
           rs == reqs[t]
           g == got[t]
           n == nput[t]
           U == CqPut(T, r)
<1>5. /\ t \in Threads /\ CallInv(t) /\ T \in TaskType /\ RingsClean(T)
      /\ rs \in Seq(Reqs) /\ g \in Seq(Reqs) /\ n \in Nat
      /\ CallRings(T, rs, n, g)
      /\ CallOut(T, rs, g, device \cup done)
      /\ k # NoTask
  BY <1>4, CallFacts, Zenon
<1>6. /\ ~ CqIsFull(T)
      /\ U \in TaskType
      /\ U.qdepth = T.qdepth
      /\ SameSq(T, U)
      /\ U.cq_head = T.cq_head + 1
      /\ U.cq_tail = T.cq_tail
      /\ U.cq = [T.cq EXCEPT ![T.cq_head] = r]
      /\ RingsClean(U)
  <2>1. T.cq_head + 1 < T.qdepth
    BY <1>3, <1>4, Zenon
  <2> HIDE DEF T
  <2> QED BY <1>5, <2>1, CqPutEffect, Zenon
<1>7. /\ task' = [task EXCEPT ![k] = U]
      /\ pc' = [u \in Threads |->
                  IF pc[u] = "wait" /\ mine[u] = k THEN "get" ELSE pc[u]]
      /\ UNCHANGED <<task_pool, req_pool, req_task, events, core, device,
                     mine, reqs, nput, got>>
  BY <1>3, <1>4, <1>6 DEF BioCb, callVars
<1>8. Back(U, g) = Back(T, g) \cup {r} /\ IsInjective(Arrived(U, g))
  <2>1. /\ T.cq_tail = Len(g) /\ r \notin Back(T, g)
        /\ IsInjective(Arrived(T, g))
    BY <1>3, <1>4, <1>5, Zenon DEF CallRings
  <2> HIDE DEF T, g, U
  <2> QED BY <1>5, <1>6, <2>1, ArrivedPut, Zenon
<1> HIDE DEF U
<1> QED BY <1>2, <1>3, <1>4, <1>6, <1>7, <1>8, Zenon

\* reactor_bio_cb keeps the invariant.
LEMMA BioCbInv ==
  ASSUME IInv, CallsFit, NEW r \in Reqs, BioCb(r)
  PROVE  IInv'
<1>1. TypeOK
  BY DEF IInv
<1>2. core = NoTask /\ r \in done /\ r \notin device /\ done' = done \ {r}
  BY BioCbEffect, Zenon
<1>3. PICK t \in Busy, U \in TaskType :
        /\ r \in Range(reqs[t])
        /\ pc[t] # "put"
        /\ U.qdepth = task[mine[t]].qdepth
        /\ SameSq(task[mine[t]], U)
        /\ U.cq_tail = task[mine[t]].cq_tail
        /\ RingsClean(U)
        /\ Back(U, got[t]) = Back(task[mine[t]], got[t]) \cup {r}
        /\ IsInjective(Arrived(U, got[t]))
        /\ task' = [task EXCEPT ![mine[t]] = U]
        /\ pc' = [u \in Threads |->
                    IF pc[u] = "wait" /\ mine[u] = mine[t]
                    THEN "get" ELSE pc[u]]
        /\ UNCHANGED <<task_pool, req_pool, req_task, events, core,
                       device, mine, reqs, nput, got>>
  BY BioCbEffect, Zenon
<1>4. PICK k \in Tasks : k = mine[t]
  BY CallFacts, Zenon
<1> DEFINE T == task[k]
           rs == reqs[t]
           g == got[t]
           n == nput[t]
           p == IF pc[t] = "wait" THEN "get" ELSE pc[t]
<1>5. /\ t \in Threads /\ CallInv(t) /\ T \in TaskType /\ RingsClean(T)
      /\ CallRings(T, rs, n, g)
      /\ CallOut(T, rs, g, device \cup done)
      /\ k # NoTask
  BY <1>4, CallFacts, Zenon
<1>6. task'[k] = U /\ \A j \in Tasks \ {k} : task'[j] = task[j]
  BY <1>1, <1>3, <1>4, Zenon DEF TypeOK
<1>7. /\ pc'[t] = p
      /\ \A u \in Threads \ {t} : SameCall(u)
  <2>1. ASSUME NEW u \in Threads \ {t} PROVE pc'[u] = pc[u]
    <3>1. pc[u] = "wait" => u \in Busy
      BY DEF Busy
    <3>2. pc[u] = "wait" => mine[u] # k
      BY <1>4, <3>1, Zenon DEF IInv, Owners
    <3> QED BY <1>3, <1>4, <3>2, Zenon
  <2> QED BY <1>3, <1>4, <1>5, <2>1, Zenon DEF SameCall
<1>8. Busy' = Busy
  <2>1. \A u \in Threads : pc'[u] = "idle" <=> pc[u] = "idle"
    BY <1>3, Zenon
  <2> QED BY <2>1, Zenon DEF Busy
<1>9. TypeOK'
  BY <1>1, <1>2, <1>3, Zenon DEF TypeOK, Pcs
<1>10. \A j \in Tasks : RingsClean(task'[j])
  BY <1>3, <1>6, Zenon DEF IInv
<1>11. ASSUME NEW u \in Busy PROVE CallInv(u)'
  <2>1. /\ u \in Threads /\ CallInv(u) /\ mine[u] \in Tasks
        /\ mine[u] \notin task_pool'
    BY <1>3, CallFacts, Zenon DEF CallInv
  <2>2. CASE u = t
    <3>1. CallRings(U, rs, n, g)
      <4>1. Back(U, g) \subseteq Range(rs)
        BY <1>3, <1>4, <1>5, Zenon DEF CallRings
      <4> QED BY <1>3, <1>4, <1>5, <4>1, Zenon DEF CallRings, SameSq
    <3>2. CallOut(U, rs, g, device' \cup done')
      <4>1. device' \cup done' = (device \cup done) \ {r}
        BY <1>2, <1>3, Zenon
      <4>2. U.sq_tail = T.sq_tail /\ Back(U, g) = Back(T, g) \cup {r}
        BY <1>3, <1>4, Zenon DEF SameSq
      <4>3. r \in device \cup done
        BY <1>2, Zenon
      <4> HIDE DEF T, rs, g
      <4> QED BY <1>5, <4>1, <4>2, <4>3, Zenon DEF CallOut
    <3>3. CallPoint(U, k, rs, n, g, p, events, core)
      BY <1>2, <1>3, <1>4, <1>5, Zenon DEF CallInv, CallPoint, SameSq
    <3> QED
      BY <1>3, <1>4, <1>5, <1>6, <1>7, <2>1, <2>2, <3>1, <3>2, <3>3, Zenon
      DEF CallInv
  <2>3. CASE u # t
    <3>1. SameCall(u) /\ mine[u] # k
      BY <1>4, <1>7, <2>1, <2>3, Zenon DEF IInv, Owners
    <3>2. r \notin Range(reqs[u])
      BY <1>3, <1>5, <2>1, <2>3, Zenon DEF IInv, Owners
    <3>3. \A x \in Range(reqs[u]) :
            x \in device' \cup done' <=> x \in device \cup done
      BY <1>2, <1>3, <3>2, Zenon
    <3> QED BY <1>1, <1>3, <1>6, <2>1, <3>1, <3>3, CallKept, Zenon
  <2> QED BY <2>2, <2>3, Zenon
<1>12. \A u \in Threads \ Busy : IdleInv(u)'
  BY <1>3, Zenon DEF IInv, IdleInv
<1>13. Owners'
  <2>1. \A x \in device' \cup done' : x \notin req_pool
    BY <1>2, <1>3, Zenon DEF IInv, Owners
  <2>2. device' \cap done' = {}
    BY <1>2, <1>3, Zenon DEF IInv, Owners
  <2> QED BY <1>3, <1>8, <2>1, <2>2, OwnersKept, Zenon
<1>14. TasksInUse'
  BY <1>3, <1>4, <1>6, <1>8, TasksKept, Zenon
<1> QED BY <1>8, <1>9, <1>10, <1>11, <1>12, <1>13, <1>14, Zenon DEF IInv

-----------------------------------------------------------------------------
(* The invariant holds.                                                    *)

\* It holds initially,
LEMMA InitInv ==
  Init => IInv
<1> SUFFICES ASSUME Init PROVE IInv
  OBVIOUS
<1> USE SyncIoAssumption, ReactorTaskAssumption
<1>1. FreshTask \in TaskType /\ RingsClean(FreshTask)
  BY DEF FreshTask, TaskType, Ring, RingsClean
<1>2. TypeOK
  <2>1. 0 \in 0 .. MaxBatch /\ <<>> \in Seq(Reqs) /\ <<>> \in Seq(Tasks)
        /\ "idle" \in Pcs
    BY DEF Pcs
  <2> QED BY <1>1, <2>1, Zenon DEF Init, TypeOK
<1>3. Busy = {}
  BY Zenon DEF Init, Busy
<1>4. \A t \in Threads : IdleInv(t) /\ Range(reqs[t]) = {}
  BY DEF Init, IdleInv, Range
<1>5. Owners
  BY <1>3, <1>4, Zenon DEF Init, Owners
<1>6. TasksInUse
  <2>1. Range(<<>>) = {} /\ IsInjective(<<>>)
    BY DEF Range, IsInjective
  <2>2. \A k \in Tasks : task[k].sq_head = task[k].sq_tail
                         /\ task[k].cq_head = task[k].cq_tail
    BY Zenon DEF Init, FreshTask
  <2> QED BY <2>1, <2>2, Zenon DEF Init, TasksInUse
<1>7. \A k \in Tasks : RingsClean(task[k])
  BY <1>1, Zenon DEF Init
<1> QED BY <1>2, <1>3, <1>4, <1>5, <1>6, <1>7, Zenon DEF IInv

\* every step keeps it,
LEMMA NextInv ==
  ASSUME IInv, CallsFit, [Next]_vars
  PROVE  IInv'
<1>1. ASSUME NEW t \in Threads, NEW batch \in Batches, Begin(t, batch)
      PROVE  IInv'
  BY <1>1, BeginInv, Zenon
<1>2. ASSUME NEW t \in Threads, Wakeup(t) PROVE IInv'
  <2>1. /\ pc[t] = "wait" /\ pc' = [pc EXCEPT ![t] = "get"]
        /\ UNCHANGED <<task, task_pool, req_pool, req_task, events, core,
                       device, done, mine, reqs, nput, got>>
    BY <1>2, Zenon DEF Wakeup, Goto, devVars, callVars
  <2> QED BY <2>1, WakeInv, Zenon
<1>3. ASSUME NEW t \in Threads, Put(t) \/ Submit(t) \/ Get(t) \/ Free(t)
      PROVE  IInv'
  BY <1>3, PutInv, SubmitInv, GetInv, FreeInv, Zenon
<1>4. CASE TakeEvent \/ SubmitOnCore
  BY <1>4, TakeEventInv, SubmitOnCoreInv, Zenon
<1>5. ASSUME NEW r \in Reqs, Complete(r) \/ BioCb(r) PROVE IInv'
  BY <1>5, CompleteInv, BioCbInv, Zenon
<1>6. CASE UNCHANGED vars
  <2>1. UNCHANGED <<task, task_pool, req_pool, req_task, events, core, device,
                    done, pc, mine, reqs, nput, got>>
    BY <1>6, Zenon DEF vars, devVars, callVars
  <2>2. Busy' = Busy
    BY <2>1, Zenon DEF Busy
  <2>3. TypeOK /\ TypeOK'
    BY <2>1, Zenon DEF IInv, TypeOK
  <2>4. ASSUME NEW u \in Busy PROVE CallInv(u)'
    <3>1. /\ u \in Threads /\ CallInv(u) /\ SameCall(u)
          /\ mine[u] \notin task_pool'
      BY <2>1, CallFacts, Zenon DEF CallInv, SameCall
    <3> QED BY <2>1, <2>3, <3>1, CallKept, Zenon
  <2>5. \A u \in Threads \ Busy : IdleInv(u)'
    BY <2>1, Zenon DEF IInv, IdleInv
  <2>6. Owners' /\ TasksInUse'
    BY <2>1, <2>2, Zenon DEF IInv, Owners, TasksInUse
  <2>7. \A j \in Tasks : RingsClean(task'[j])
    BY <2>1, Zenon DEF IInv
  <2> QED BY <2>2, <2>3, <2>4, <2>5, <2>6, <2>7, Zenon DEF IInv
<1> QED BY <1>1, <1>2, <1>3, <1>4, <1>5, <1>6, Zenon DEF Next
=============================================================================
