-------------------------- MODULE SyncIoTheorems --------------------------
(***************************************************************************)
(* The theorems about synchronous block I/O, for any number of threads,    *)
(* tasks and requests: every request is in one place, a task given back is *)
(* forgotten, and the whole is the service IoService.  SyncIoProofs has    *)
(* the inductive invariant IInv; what is left is to say what it means.     *)
(***************************************************************************)
EXTENDS SyncIoProofs, FiniteSetTheorems

-----------------------------------------------------------------------------
(* What the invariant says.                                                *)

\* What a call got is part of what arrived for it.
LEMMA GotFacts ==
  ASSUME IInv, NEW t \in Threads
  PROVE  /\ Range(got[t]) \subseteq Range(reqs[t])
         /\ IsInjective(got[t])
         /\ Unsent(t) \subseteq Range(reqs[t])
<1>1. CASE t \notin Busy
  <2>1. reqs[t] = <<>> /\ got[t] = <<>> /\ nput[t] = 0
    BY <1>1, Zenon DEF IInv, IdleInv
  <2> QED BY <2>1 DEF Range, IsInjective, Unsent
<1>2. CASE t \in Busy
  <2> DEFINE T == task[mine[t]]
             rs == reqs[t]
             g == got[t]
  <2>1. /\ T \in TaskType /\ RingsClean(T) /\ g \in Seq(Reqs)
        /\ CallRings(T, rs, nput[t], g) /\ nput[t] \in Nat
        /\ T.cq_tail = Len(g) /\ Len(g) \in Nat /\ DOMAIN g = 1 .. Len(g)
        /\ Len(rs) \in Nat /\ DOMAIN rs = 1 .. Len(rs)
    BY <1>2, CallFacts DEF CallRings
  <2>2. Range(g) \subseteq Range(rs)
    <3> HIDE DEF T, rs, g
    <3> QED BY <2>1, BackIs, Zenon DEF CallRings
  <2>3. IsInjective(g)
    <3> HIDE DEF T, rs, g
    <3>1. T.cq_head \in Nat /\ Len(g) <= T.cq_head
      BY <2>1, TaskFields DEF RingsClean
    <3>2. \A i \in 1 .. Len(g) :
            i \in DOMAIN Arrived(T, g) /\ Arrived(T, g)[i] = g[i]
      BY <2>1, <3>1 DEF Arrived
    <3>3. IsInjective(Arrived(T, g))
      BY <2>1, Zenon DEF CallRings
    <3> QED BY <2>1, <3>2, <3>3, Zenon DEF IsInjective
  <2>4. Unsent(t) \subseteq Range(rs)
    <3>1. \A i \in nput[t] + 1 .. Len(rs) : i \in 1 .. Len(rs)
      BY <2>1
    <3> QED BY <2>1, <3>1, Zenon DEF Unsent, Range
  <2> QED BY <2>2, <2>3, <2>4, Zenon
<1> QED BY <1>1, <1>2, Zenon

\* The rings of a task hold requests of its call only.
LEMMA RingFacts ==
  ASSUME IInv, NEW k \in Tasks, NEW r \in InSq(task[k]) \cup InCq(task[k])
  PROVE  \E t \in Busy : mine[t] = k /\ r \in Range(reqs[t])
<1> DEFINE T == task[k]
<1>1. T \in TaskType /\ RingsClean(T) /\ TasksInUse
  BY Zenon DEF IInv, TypeOK
<1>2. /\ T.sq_head \in Nat /\ T.sq_tail \in Nat /\ T.cq_head \in Nat
      /\ T.cq_tail \in Nat /\ MaxRequest \in Nat
      /\ DOMAIN T.sq = 0 .. MaxRequest - 1
      /\ DOMAIN T.cq = 0 .. MaxRequest - 1
  BY <1>1, TaskFields, ReactorTaskAssumption DEF Ring
<1>3. CASE r \in InSq(T)
  <2>1. PICK i \in 0 .. MaxRequest - 1 :
          r = T.sq[i] /\ T.sq_tail <= i /\ i < T.sq_head
    BY <1>1, <1>2, <1>3, Zenon DEF InSq, RingsClean
  <2>2. PICK t \in Busy : mine[t] = k
    BY <1>1, <1>2, <2>1 DEF TasksInUse
  <2>3. /\ CallRings(T, reqs[t], nput[t], got[t]) /\ nput[t] \in Nat
        /\ Len(reqs[t]) \in Nat /\ DOMAIN reqs[t] = 1 .. Len(reqs[t])
    BY <2>2, CallFacts, Zenon
  <2>4. i + 1 \in 1 .. nput[t] /\ i + 1 \in DOMAIN reqs[t]
        /\ T.sq_tail < i + 1 /\ (i + 1) - 1 = i
    BY <1>2, <2>1, <2>3 DEF CallRings
  <2>5. r = reqs[t][i + 1]
    BY <2>1, <2>3, <2>4, Zenon DEF CallRings
  <2> QED BY <2>2, <2>4, <2>5 DEF Range
<1>4. CASE r \in InCq(T)
  <2>1. PICK i \in 0 .. MaxRequest - 1 :
          r = T.cq[i] /\ T.cq_tail <= i /\ i < T.cq_head
    BY <1>1, <1>2, <1>4, Zenon DEF InCq, RingsClean
  <2>2. PICK t \in Busy : mine[t] = k
    BY <1>1, <1>2, <2>1 DEF TasksInUse
  <2>3. CallRings(T, reqs[t], nput[t], got[t]) /\ got[t] \in Seq(Reqs)
    BY <2>2, CallFacts, Zenon
  <2>4. r \in Back(T, got[t])
    <3> HIDE DEF T
    <3>1. T.cq_tail = Len(got[t])
      BY <2>3, Zenon DEF CallRings
    <3> QED BY <1>1, <1>4, <2>3, <3>1, BackIs, Zenon
  <2> QED BY <2>2, <2>3, <2>4, Zenon DEF CallRings
<1> QED BY <1>3, <1>4, Zenon

\* Exactly one of five facts.
OneOf(a, b, c, d, e) ==
  \/ a /\ ~b /\ ~c /\ ~d /\ ~e
  \/ ~a /\ b /\ ~c /\ ~d /\ ~e
  \/ ~a /\ ~b /\ c /\ ~d /\ ~e
  \/ ~a /\ ~b /\ ~c /\ d /\ ~e
  \/ ~a /\ ~b /\ ~c /\ ~d /\ e

\* A request of a call is in one place of that call.
LEMMA Placed ==
  ASSUME IInv, NEW t \in Busy, NEW r \in Range(reqs[t])
  PROVE  LET T == task[mine[t]] IN
         /\ r \notin req_pool
         /\ \A u \in Threads \ {t} :
              r \notin Unsent(u) /\ r \notin Range(got[u])
         /\ \A k \in Tasks \ {mine[t]} :
              r \notin InSq(task[k]) /\ r \notin InCq(task[k])
         /\ r \in InCq(T) => r \notin Range(got[t])
         /\ OneOf(r \in Unsent(t), r \in InSq(T), r \in device, r \in done,
                  r \in InCq(T) \/ r \in Range(got[t]))
<1> DEFINE T == task[mine[t]]
           rs == reqs[t]
           g == got[t]
           n == nput[t]
<1>1. /\ t \in Threads /\ T \in TaskType /\ RingsClean(T)
      /\ rs \in Seq(Reqs) /\ g \in Seq(Reqs) /\ n \in Nat
      /\ DOMAIN rs = 1 .. Len(rs) /\ Len(rs) \in Nat
      /\ DOMAIN g = 1 .. Len(g) /\ Len(g) \in Nat
      /\ CallRings(T, rs, n, g) /\ CallOut(T, rs, g, device \cup done)
      /\ mine[t] \in Tasks
  <2>1. got[t] \in Seq(Reqs)
    BY CallFacts, Zenon
  <2>2. DOMAIN got[t] = 1 .. Len(got[t]) /\ Len(got[t]) \in Nat
    BY <2>1
  <2> QED BY <2>2, CallFacts, Zenon
<1>2. /\ T.sq_head = n /\ n <= Len(rs) /\ T.sq_tail \in Nat
      /\ T.sq_tail <= T.sq_head /\ T.cq_tail = Len(g)
      /\ T.cq_head \in Nat /\ MaxRequest \in Nat
      /\ T.sq_head < MaxRequest /\ T.cq_tail <= T.cq_head
      /\ DOMAIN T.sq = 0 .. MaxRequest - 1
      /\ DOMAIN T.cq = 0 .. MaxRequest - 1
  BY <1>1, TaskFields, ReactorTaskAssumption DEF RingsClean, CallRings, Ring
<1>3. PICK i \in 1 .. Len(rs) : r = rs[i]
  BY <1>1, Zenon DEF Range
<1>4. \A j \in 1 .. Len(rs) : rs[j] = r => j = i
  BY <1>1, <1>3, Zenon DEF CallRings, IsInjective
<1>5. r \notin req_pool
  BY <1>1, Zenon DEF IInv, Owners
<1>6. \A u \in Threads \ {t} : r \notin Range(reqs[u])
  BY <1>1, Zenon DEF IInv, Owners
<1>7. \A u \in Threads \ {t} : r \notin Unsent(u) /\ r \notin Range(got[u])
  BY <1>6, GotFacts, Zenon
<1>8. \A k \in Tasks \ {mine[t]} :
        r \notin InSq(task[k]) /\ r \notin InCq(task[k])
  <2> SUFFICES ASSUME NEW k \in Tasks \ {mine[t]},
                      r \in InSq(task[k]) \cup InCq(task[k])
               PROVE  FALSE
    BY Zenon
  <2>1. PICK u \in Busy : mine[u] = k /\ r \in Range(reqs[u])
    BY RingFacts, Zenon
  <2> QED BY <1>6, <2>1, CallFacts, Zenon
<1>9. r \in Unsent(t) <=> n < i
  <2>1. n < i => i \in n + 1 .. Len(rs)
    BY <1>1
  <2>2. \A j \in n + 1 .. Len(rs) : n < j /\ j \in 1 .. Len(rs)
    BY <1>1
  <2> QED BY <1>3, <1>4, <2>1, <2>2, Zenon DEF Unsent
<1>10. r \in InSq(T) <=> T.sq_tail < i /\ i <= n
  <2>1. ASSUME r \in InSq(T) PROVE T.sq_tail < i /\ i <= n
    <3>1. PICK j \in 0 .. MaxRequest - 1 :
            r = T.sq[j] /\ T.sq_tail <= j /\ j < T.sq_head
      BY <1>1, <1>2, <2>1, Zenon DEF InSq, RingsClean
    <3>2. j + 1 \in 1 .. n /\ j + 1 \in 1 .. Len(rs)
          /\ T.sq_tail < j + 1 /\ (j + 1) - 1 = j
      BY <1>1, <1>2, <3>1
    <3>3. r = rs[j + 1]
      BY <1>1, <3>1, <3>2, Zenon DEF CallRings
    <3>4. j + 1 = i
      BY <1>4, <3>2, <3>3
    <3> QED BY <3>2, <3>4
  <2>2. ASSUME T.sq_tail < i, i <= n PROVE r \in InSq(T)
    <3>1. i \in 1 .. n /\ i - 1 \in 0 .. MaxRequest - 1
          /\ T.sq_tail <= i - 1 /\ i - 1 < T.sq_head
      BY <1>1, <1>2, <2>2
    <3>2. T.sq[i - 1] = r
      BY <1>1, <1>3, <2>2, <3>1 DEF CallRings
    <3> QED BY <1>1, <1>2, <3>1, <3>2, Zenon DEF InSq, RingsClean
  <2> QED BY <2>1, <2>2, Zenon
<1>11. r \in InCq(T) \/ r \in Range(g) <=> r \in Back(T, g)
  <2> HIDE DEF T, g
  <2> QED BY <1>1, <1>2, BackIs
<1>12. /\ r \in device \cup done => i <= T.sq_tail /\ r \notin Back(T, g)
       /\ i <= T.sq_tail => r \in device \cup done \cup Back(T, g)
       /\ r \in Back(T, g) => i <= T.sq_tail
  BY <1>1, <1>3, Zenon DEF CallOut
<1>13. r \notin device \/ r \notin done
  BY Zenon DEF IInv, Owners
<1>14. /\ n < i => ~ (T.sq_tail < i /\ i <= n) /\ ~ (i <= T.sq_tail)
       /\ T.sq_tail < i => ~ (i <= T.sq_tail)
       /\ n < i \/ (T.sq_tail < i /\ i <= n) \/ i <= T.sq_tail
  BY <1>1, <1>2
<1>15. OneOf(r \in Unsent(t), r \in InSq(T), r \in device, r \in done,
             r \in InCq(T) \/ r \in Range(g))
  <2> HIDE DEF T, g, n
  <2> QED BY <1>9, <1>10, <1>11, <1>12, <1>13, <1>14 DEF OneOf
<1>16. r \in InCq(T) => r \notin Range(g)
  <2> SUFFICES ASSUME r \in InCq(T), r \in Range(g) PROVE FALSE
    BY Zenon
  <2>1. PICK a \in 1 .. Len(g) : r = g[a]
    BY <1>1, Zenon DEF Range
  <2>2. PICK b \in 0 .. MaxRequest - 1 :
          r = T.cq[b] /\ T.cq_tail <= b /\ b < T.cq_head
    BY <1>1, <1>2, Zenon DEF InCq, RingsClean
  <2>3. /\ a \in 1 .. T.cq_head /\ a <= Len(g)
        /\ b + 1 \in 1 .. T.cq_head /\ ~ (b + 1 <= Len(g))
        /\ (b + 1) - 1 = b /\ a # b + 1
    BY <1>1, <1>2, <2>2
  <2>4. Arrived(T, g)[a] = r /\ Arrived(T, g)[b + 1] = r
        /\ DOMAIN Arrived(T, g) = 1 .. T.cq_head
    BY <2>1, <2>2, <2>3, Zenon DEF Arrived
  <2>5. IsInjective(Arrived(T, g))
    BY <1>1, Zenon DEF CallRings
  <2> QED BY <2>3, <2>4, <2>5, Zenon DEF IsInjective
<1> QED BY <1>5, <1>7, <1>8, <1>15, <1>16

\* A request that no call has is in the pool and nowhere else.
LEMMA Pooled ==
  ASSUME IInv, NEW r \in req_pool
  PROVE  /\ \A t \in Threads : r \notin Unsent(t) /\ r \notin Range(got[t])
         /\ \A k \in Tasks : r \notin InSq(task[k]) /\ r \notin InCq(task[k])
         /\ r \notin device /\ r \notin done
<1>1. \A t \in Threads : r \notin Range(reqs[t])
  BY Zenon DEF IInv, Owners
<1>2. \A t \in Threads : r \notin Unsent(t) /\ r \notin Range(got[t])
  BY <1>1, GotFacts, Zenon
<1>3. \A k \in Tasks : r \notin InSq(task[k]) /\ r \notin InCq(task[k])
  <2> SUFFICES ASSUME NEW k \in Tasks,
                      r \in InSq(task[k]) \cup InCq(task[k])
               PROVE  FALSE
    BY Zenon
  <2> QED BY <1>1, RingFacts, CallFacts
<1> QED BY <1>2, <1>3, Zenon DEF IInv, Owners

-----------------------------------------------------------------------------
(* Synchronous I/O is the service its callers rely on.                     *)

\* The requests that were performed, through what has arrived for each call.
Served == done \cup (UNION {Back(task[mine[t]], got[t]) : t \in Busy})

\* What has arrived for a call are requests of the call.
LEMMA BackFacts ==
  ASSUME IInv, NEW t \in Busy
  PROVE  /\ Back(task[mine[t]], got[t])
               = Range(got[t]) \cup InCq(task[mine[t]])
         /\ Back(task[mine[t]], got[t]) \subseteq Range(reqs[t])
<1>1. CallRings(task[mine[t]], reqs[t], nput[t], got[t])
  BY CallFacts, Zenon
<1>2. task[mine[t]].cq_tail = Len(got[t])
  BY <1>1, Zenon DEF CallRings
<1>3. /\ task[mine[t]] \in TaskType /\ RingsClean(task[mine[t]])
      /\ got[t] \in Seq(Reqs)
  BY CallFacts, Zenon
<1> QED BY <1>1, <1>2, <1>3, BackIs DEF CallRings

\* Both describe the requests that were performed.
LEMMA PerformedIs ==
  IInv => Performed = Served
<1> SUFFICES ASSUME IInv PROVE Performed = Served
  BY Zenon
<1> DEFINE A == UNION {InCq(task[k]) : k \in Tasks}
           B == UNION {Range(got[t]) : t \in Threads}
<1>0. Performed = done \cup A \cup B
  BY Zenon DEF Performed
<1>1. ASSUME NEW t \in Threads, NEW r \in Range(got[t]) PROVE r \in Served
  <2>1. t \in Busy
    BY DEF IInv, IdleInv, Range
  <2> QED BY <2>1, BackFacts, Zenon DEF Served
<1>2. ASSUME NEW k \in Tasks, NEW r \in InCq(task[k]) PROVE r \in Served
  <2>1. PICK t \in Busy : mine[t] = k
    BY RingFacts, Zenon
  <2> QED BY <2>1, BackFacts DEF Served
<1>3. ASSUME NEW t \in Busy, NEW r \in Back(task[mine[t]], got[t])
      PROVE  r \in Performed
  <2>1. t \in Threads /\ mine[t] \in Tasks
    BY CallFacts, Zenon
  <2>2. r \in Range(got[t]) \/ r \in InCq(task[mine[t]])
    BY BackFacts, Zenon
  <2>3. r \in A \/ r \in B
    BY <2>1, <2>2, Zenon
  <2> HIDE DEF A, B
  <2> QED BY <1>0, <2>3, Zenon
<1>4. ASSUME NEW r \in Performed PROVE r \in Served
  <2>1. CASE r \in done
    BY <2>1, Zenon DEF Served
  <2>2. CASE r \in A
    BY <1>2, <2>2, Zenon
  <2>3. CASE r \in B
    BY <1>1, <2>3, Zenon
  <2> HIDE DEF A, B
  <2> QED BY <1>0, <2>1, <2>2, <2>3
<1>5. ASSUME NEW r \in Served PROVE r \in Performed
  <2>1. CASE r \in done
    BY <1>0, <2>1, Zenon
  <2>2. CASE r \in UNION {Back(task[mine[t]], got[t]) : t \in Busy}
    BY <1>3, <2>2, Zenon
  <2> QED BY <2>1, <2>2 DEF Served
<1> QED BY <1>4, <1>5, Zenon

\* A step that neither performs nor collects a request is no step of the
\* service.
LEMMA QuietServed ==
  ASSUME Busy' = Busy, done' = done,
         \A t \in Busy :
           Back(task'[mine'[t]], got'[t]) = Back(task[mine[t]], got[t])
  PROVE  Served' = Served
  BY DEF Served

\* The requests of the calls.
LEMMA QuietActive ==
  ASSUME reqs' = reqs
  PROVE  Active' = Active
  BY Zenon DEF Active

\* A step that leaves the completion rings alone.
LEMMA QuietRings ==
  ASSUME IInv, Busy' = Busy, UNCHANGED <<done, mine, got>>,
         \A k \in Tasks : /\ task'[k].cq = task[k].cq
                          /\ task'[k].cq_head = task[k].cq_head
  PROVE  Served' = Served
<1>1. ASSUME NEW t \in Busy
      PROVE  Back(task'[mine'[t]], got'[t]) = Back(task[mine[t]], got[t])
  <2>1. mine[t] \in Tasks
    BY CallFacts, Zenon
  <2> QED BY <2>1, Zenon DEF Back, Arrived
<1> QED BY <1>1, QuietServed, Zenon

\* Starting a call is the Begin of the service,
LEMMA BeginServes ==
  ASSUME IInv, NEW t \in Threads, NEW batch \in Batches, Begin(t, batch)
  PROVE  /\ Served' = Served
         /\ Active[t] = {} /\ Range(batch) \in SUBSET Reqs
         /\ Range(batch) # {}
         /\ \A u \in Threads : Range(batch) \cap Active[u] = {}
         /\ Active' = [Active EXCEPT ![t] = Range(batch)]
<1>1. /\ TypeOK /\ pc[t] = "idle" /\ t \notin Busy
      /\ Range(batch) \subseteq req_pool
  BY Zenon DEF IInv, Begin, Busy
<1>2. PICK k \in task_pool :
        /\ task' = [task EXCEPT ![k] = AllocTask(task[k], Len(batch))]
        /\ mine' = [mine EXCEPT ![t] = k]
  BY <1>1, Zenon DEF Begin, TypeOK
<1>3. /\ k \in Tasks /\ \A u \in Busy : mine[u] # k
      /\ task[k].sq_head = task[k].sq_tail
      /\ task[k].cq_head = task[k].cq_tail
  BY PoolUnowned, Zenon
<1>4. AllocTask(task[k], Len(batch)).cq_head = 0
  <2>1. Len(batch) \in 1 .. MaxRequest - 1
    BY SyncIoAssumption, ReactorTaskAssumption, BatchType DEF Begin
  <2>2. task[k] \in TaskType /\ RingsClean(task[k])
    BY <1>1, <1>3 DEF IInv, TypeOK
  <2> QED BY <1>3, <2>1, <2>2, AllocEffect
<1>5. /\ mine'[t] = k /\ got'[t] = <<>> /\ task'[k].cq_head = 0
      /\ \A j \in Tasks \ {k} : task'[j] = task[j]
      /\ \A u \in Threads \ {t} : SameCall(u)
      /\ pc'[t] = "put" /\ done' = done
  <2>1. \A u \in Threads \ {t} : SameCall(u)
    BY <1>1, <1>2 DEF TypeOK, Begin, Goto, SameCall
  <2> QED BY <1>1, <1>2, <1>3, <1>4, <2>1 DEF TypeOK, Begin, Goto, devVars
<1>6. Busy' = Busy \cup {t} /\ Busy \subseteq Threads
  BY <1>5, Zenon DEF Busy, SameCall
<1>7. Back(task'[mine'[t]], got'[t]) = {}
  <2>1. Arrived(task'[k], <<>>) = [i \in 1 .. 0 |-> task'[k].cq[i - 1]]
    BY <1>5 DEF Arrived
  <2> QED BY <1>5, <2>1 DEF Back, Range
<1>8. \A u \in Busy :
        Back(task'[mine'[u]], got'[u]) = Back(task[mine[u]], got[u])
  <2> SUFFICES ASSUME NEW u \in Busy
               PROVE  Back(task'[mine'[u]], got'[u])
                        = Back(task[mine[u]], got[u])
    BY Zenon
  <2>1. mine[u] \in Tasks \ {k} /\ u \in Threads \ {t}
    BY <1>1, <1>3, CallFacts
  <2> QED BY <1>5, <2>1 DEF SameCall
<1>9. Served' = Served
  BY <1>5, <1>6, <1>7, <1>8 DEF Served
<1>10. Active[t] = {}
  BY <1>1 DEF Active, IInv, IdleInv, Range
<1>11. /\ batch \in Seq(Reqs) /\ batch # <<>>
       /\ Range(batch) \in SUBSET Reqs
  BY BatchType DEF Range
<1>12. Range(batch) # {}
  <2>1. 1 \in DOMAIN batch
    BY <1>11
  <2> QED BY <2>1, Zenon DEF Range
<1>13. \A u \in Threads : Range(batch) \cap Active[u] = {}
  BY <1>1, Zenon DEF Active, IInv, Owners
<1>14. Active' = [Active EXCEPT ![t] = Range(batch)]
  <2>1. reqs' = [reqs EXCEPT ![t] = batch] /\ reqs \in [Threads -> Seq(Reqs)]
    BY <1>1, Zenon DEF Begin, TypeOK
  <2> QED BY <2>1, Zenon DEF Active
<1> QED BY <1>9, <1>10, <1>11, <1>12, <1>13, <1>14

\* ending it is its End,
LEMMA FreeServes ==
  ASSUME IInv, CallsFit, NEW t \in Threads, Free(t)
  PROVE  /\ Active[t] # {}
         /\ Active[t] \subseteq Served
         /\ Active' = [Active EXCEPT ![t] = {}]
         /\ Served' = Served \ Active[t]
<1>1. TypeOK /\ pc[t] = "free" /\ t \in Busy
  BY Zenon DEF IInv, Free, Busy
<1>2. /\ Range(got[t]) = Range(reqs[t]) /\ reqs[t] # <<>>
      /\ \A r \in Range(reqs[t]) : r \notin device \cup done
  BY <1>1, FreeFacts
<1>3. Active[t] = Range(reqs[t]) /\ Active[t] # {}
  <2>1. reqs[t] \in Seq(Reqs)
    BY <1>1, Zenon DEF TypeOK
  <2>2. 1 \in DOMAIN reqs[t]
    BY <1>2, <2>1
  <2> QED BY <2>2, Zenon DEF Active, Range
<1>4. Back(task[mine[t]], got[t]) = Active[t]
  BY <1>1, <1>2, <1>3, BackFacts, Zenon
<1>5. Active' = [Active EXCEPT ![t] = {}]
  <2>1. reqs' = [reqs EXCEPT ![t] = <<>>] /\ reqs \in [Threads -> Seq(Reqs)]
    BY <1>1 DEF Free, TypeOK
  <2>2. Range(<<>>) = {}
    BY DEF Range
  <2> QED BY <2>1, <2>2, Zenon DEF Active
<1>6. /\ \A u \in Threads \ {t} : SameCall(u)
      /\ pc'[t] = "idle" /\ UNCHANGED <<task, done>>
  BY <1>1, Zenon DEF Free, Goto, TypeOK, SameCall, devVars
<1>7. Busy' = Busy \ {t} /\ Busy \subseteq Threads
  BY <1>6, Zenon DEF Busy, SameCall
<1>8. \A u \in Busy \ {t} :
        /\ Back(task'[mine'[u]], got'[u]) = Back(task[mine[u]], got[u])
        /\ Back(task[mine[u]], got[u]) \cap Active[t] = {}
  <2> SUFFICES ASSUME NEW u \in Busy \ {t}
               PROVE  /\ Back(task'[mine'[u]], got'[u])
                           = Back(task[mine[u]], got[u])
                      /\ Back(task[mine[u]], got[u]) \cap Active[t] = {}
    BY Zenon
  <2>1. u \in Threads \ {t} /\ SameCall(u)
    BY <1>6, <1>7
  <2>2. Range(reqs[u]) \cap Range(reqs[t]) = {}
    BY <2>1, Zenon DEF IInv, Owners
  <2> QED BY <1>3, <1>6, <2>1, <2>2, BackFacts DEF SameCall
<1>9. done \cap Active[t] = {}
  BY <1>2, <1>3, Zenon
<1>10. Active[t] \subseteq Served
  BY <1>1, <1>4 DEF Served
<1>11. Served' = Served \ Active[t]
  BY <1>1, <1>4, <1>6, <1>7, <1>8, <1>9 DEF Served
<1> QED BY <1>3, <1>5, <1>10, <1>11

\* a request the device performs is its Perform,
LEMMA CompleteServes ==
  ASSUME IInv, CallsFit, NEW r \in Reqs, Complete(r)
  PROVE  /\ Active' = Active
         /\ Served' = Served \cup {r}
         /\ \E t \in Threads : r \in Active[t] \ Served
<1>1. /\ r \in device /\ done' = done \cup {r}
      /\ UNCHANGED <<task, pc, mine, reqs, got>>
  BY Zenon DEF Complete, callVars
<1>2. Busy' = Busy
  BY <1>1, Zenon DEF Busy
<1>3. Served' = Served \cup {r}
  BY <1>1, <1>2 DEF Served
<1>4. PICK t \in Busy : r \in Range(reqs[t])
                        /\ r \notin Back(task[mine[t]], got[t])
  BY <1>1, DoneFacts, Zenon
<1>5. t \in Threads /\ r \in Active[t]
  BY <1>4, CallFacts, Zenon DEF Active
<1>6. r \notin done
  BY <1>1, Zenon DEF IInv, Owners
<1>7. ASSUME NEW u \in Busy PROVE r \notin Back(task[mine[u]], got[u])
  <2>1. CASE u = t
    BY <1>4, <2>1, Zenon
  <2>2. CASE u # t
    <3>1. u \in Threads
      BY CallFacts, Zenon
    <3>2. r \notin Range(reqs[u])
      BY <1>4, <1>5, <2>2, <3>1 DEF IInv, Owners
    <3> QED BY <3>2, BackFacts, Zenon
  <2> QED BY <2>1, <2>2, Zenon
<1>8. r \notin Served
  BY <1>6, <1>7, Zenon DEF Served
<1> QED BY <1>1, <1>3, <1>5, <1>8, QuietActive

\* and a callback, which moves the request to a ring,
LEMMA BioCbServes ==
  ASSUME IInv, CallsFit, NEW r \in Reqs, BioCb(r)
  PROVE  Active' = Active /\ Served' = Served
<1>1. r \in done /\ done' = done \ {r}
  BY BioCbEffect, Zenon
<1>2. PICK t \in Busy, U \in TaskType :
        /\ r \in Range(reqs[t])
        /\ Back(U, got[t]) = Back(task[mine[t]], got[t]) \cup {r}
        /\ task' = [task EXCEPT ![mine[t]] = U]
        /\ pc' = [u \in Threads |->
                    IF pc[u] = "wait" /\ mine[u] = mine[t]
                    THEN "get" ELSE pc[u]]
        /\ UNCHANGED <<mine, reqs, got>>
  BY BioCbEffect
<1>3. TypeOK /\ t \in Threads /\ mine[t] \in Tasks
  BY CallFacts, Zenon DEF IInv
<1>4. task'[mine[t]] = U /\ \A j \in Tasks \ {mine[t]} : task'[j] = task[j]
  BY <1>2, <1>3 DEF TypeOK
<1>5. Busy' = Busy
  <2>1. \A u \in Threads : pc'[u] = "idle" <=> pc[u] = "idle"
    BY <1>2, Zenon
  <2> QED BY <2>1, Zenon DEF Busy
<1>6. Back(task'[mine'[t]], got'[t]) = Back(task[mine[t]], got[t]) \cup {r}
  BY <1>2, <1>4
<1>7. \A u \in Busy \ {t} :
        Back(task'[mine'[u]], got'[u]) = Back(task[mine[u]], got[u])
  <2> SUFFICES ASSUME NEW u \in Busy \ {t}
               PROVE  task'[mine[u]] = task[mine[u]]
    BY <1>2
  <2>1. mine[u] \in Tasks /\ mine[u] # mine[t]
    BY CallFacts, Zenon DEF IInv, Owners
  <2> QED BY <1>4, <2>1, Zenon
<1>8. Served' = Served
  BY <1>1, <1>2, <1>5, <1>6, <1>7 DEF Served
<1> QED BY <1>2, <1>8, QuietActive

\* and taking requests from the ring change nothing of it.
LEMMA GetServes ==
  ASSUME IInv, CallsFit, NEW t \in Threads, Get(t)
  PROVE  Active' = Active /\ Served' = Served
<1>1. TypeOK /\ t \in Busy /\ pc[t] = "get"
  BY Zenon DEF IInv, Get, Busy
<1>2. mine[t] \in Tasks
  BY <1>1, CallFacts, Zenon
<1>3. CASE /\ pc' = [pc EXCEPT ![t] = "wait"]
           /\ UNCHANGED <<task, task_pool, req_pool, req_task, events, core,
                          device, done, mine, reqs, nput, got>>
  <2>1. Busy' = Busy
    BY <1>1, <1>3, Zenon DEF Busy, TypeOK
  <2> QED BY <1>3, <2>1, QuietRings, QuietActive
<1>4. ASSUME NEW U \in TaskType, NEW h \in Seq(Reqs),
             NEW p \in {"free", "get"},
             Arrived(U, h) = Arrived(task[mine[t]], got[t]),
             task' = [task EXCEPT ![mine[t]] = U],
             got' = [got EXCEPT ![t] = h],
             pc' = [pc EXCEPT ![t] = p],
             UNCHANGED <<mine, reqs, done>>
      PROVE  Active' = Active /\ Served' = Served
  <2>1. /\ task'[mine[t]] = U /\ got'[t] = h
        /\ \A j \in Tasks \ {mine[t]} : task'[j] = task[j]
        /\ \A u \in Threads \ {t} : got'[u] = got[u]
    BY <1>1, <1>2, <1>4 DEF TypeOK
  <2>2. Busy' = Busy
    BY <1>1, <1>4 DEF Busy, TypeOK
  <2>3. ASSUME NEW u \in Busy
        PROVE  Back(task'[mine'[u]], got'[u]) = Back(task[mine[u]], got[u])
    <3>1. CASE u = t
      BY <1>4, <2>1, <3>1 DEF Back
    <3>2. CASE u # t
      <4>1. u \in Threads /\ mine[u] \in Tasks /\ mine[u] # mine[t]
        BY <1>1, <3>2, CallFacts, Zenon DEF IInv, Owners
      <4> QED BY <1>4, <2>1, <3>2, <4>1
    <3> QED BY <3>1, <3>2, Zenon
  <2> QED BY <1>4, <2>2, <2>3, QuietServed, QuietActive
<1> QED BY <1>3, <1>4, GetEffect

\* The other steps touch no completion ring.
LEMMA OtherServes ==
  ASSUME IInv, NEW t \in Threads,
         Put(t) \/ Submit(t) \/ Wakeup(t) \/ TakeEvent \/ SubmitOnCore
  PROVE  Active' = Active /\ Served' = Served
<1>1. TypeOK
  BY Zenon DEF IInv
<1>2. UNCHANGED <<done, mine, reqs, got>>
  BY Zenon DEF Put, Submit, Wakeup, TakeEvent, SubmitOnCore, devVars, callVars
<1>3. Busy' = Busy
  <2>1. \A u \in Threads : pc'[u] = "idle" <=> pc[u] = "idle"
    BY <1>1 DEF Put, Submit, Wakeup, TakeEvent, SubmitOnCore, Goto, TypeOK
  <2> QED BY <2>1, Zenon DEF Busy
<1>4. \A k \in Tasks : /\ task'[k].cq = task[k].cq
                       /\ task'[k].cq_head = task[k].cq_head
  <2> SUFFICES ASSUME NEW k \in Tasks
               PROVE  /\ task'[k].cq = task[k].cq
                      /\ task'[k].cq_head = task[k].cq_head
    BY Zenon
  <2>1. task \in [Tasks -> TaskType] /\ task[k] \in TaskType
    BY <1>1, Zenon DEF TypeOK
  <2>2. CASE Put(t)
    <3>1. task' = task \/ task' = [task EXCEPT ![mine[t]] =
                                    SqPut(task[mine[t]], reqs[t][nput[t] + 1])]
      BY <2>1, <2>2, Zenon DEF Put
    <3>2. \A r : /\ SqPut(task[k], r).cq = task[k].cq
                 /\ SqPut(task[k], r).cq_head = task[k].cq_head
      BY <2>1, Zenon DEF SqPut, TaskType
    <3> QED BY <2>1, <3>1, <3>2
  <2>3. CASE SubmitOnCore
    <3>1. task' = task \/ task' = [task EXCEPT ![core] = SqGet(task[core])]
      BY <2>1, <2>3 DEF SubmitOnCore
    <3>2. /\ SqGet(task[k]).cq = task[k].cq
          /\ SqGet(task[k]).cq_head = task[k].cq_head
      BY <2>1, Zenon DEF SqGet, TaskType
    <3> QED BY <2>1, <3>1, <3>2, Zenon
  <2>4. CASE Submit(t) \/ Wakeup(t) \/ TakeEvent
    BY <2>4, Zenon DEF Submit, Wakeup, TakeEvent
  <2> QED BY <2>2, <2>3, <2>4, Zenon
<1> QED BY <1>2, <1>3, <1>4, QuietRings, QuietActive

\* In terms of Served, a step of SyncIo is a step of the service or leaves it
\* alone.
LEMMA NextServes ==
  ASSUME IInv, CallsFit, [Next]_vars, Performed = Served, Performed' = Served'
  PROVE  [Service!Next]_<<Active, Performed>>
<1>1. ASSUME NEW t \in Threads, NEW batch \in Batches, Begin(t, batch)
      PROVE  Service!Next
  <2>1. Service!Begin(t, Range(batch))
    BY <1>1, BeginServes, Zenon DEF Service!Begin
  <2> QED BY <1>1, <2>1, BeginServes, Zenon DEF Service!Next
<1>2. ASSUME NEW t \in Threads, Free(t) PROVE Service!Next
  <2>1. Service!End(t)
    BY <1>2, FreeServes, Zenon DEF Service!End
  <2> QED BY <2>1, Zenon DEF Service!Next
<1>3. ASSUME NEW r \in Reqs, Complete(r) PROVE Service!Next
  <2>1. PICK t \in Threads : r \in Active[t] \ Served
    BY <1>3, CompleteServes, Zenon
  <2>2. Service!Perform(t, r)
    BY <1>3, <2>1, CompleteServes DEF Service!Perform
  <2> QED BY <2>1, <2>2, Zenon DEF Service!Next
<1>4. ASSUME NEW t \in Threads,
             Put(t) \/ Submit(t) \/ Get(t) \/ Wakeup(t)
             \/ TakeEvent \/ SubmitOnCore
      PROVE  UNCHANGED <<Active, Performed>>
  BY <1>4, OtherServes, GetServes, Zenon
<1>5. ASSUME NEW r \in Reqs, BioCb(r) PROVE UNCHANGED <<Active, Performed>>
  BY <1>5, BioCbServes, Zenon
<1>6. CASE TakeEvent \/ SubmitOnCore
  <2>1. core # NoTask \/ events # <<>>
    BY <1>6, Zenon DEF TakeEvent, SubmitOnCore
  <2>2. \E k \in Range(events) \cup {core} : k # NoTask
    <3>1. events \in Seq(Tasks)
      BY Zenon DEF IInv, TypeOK
    <3>2. events # <<>> => events[1] \in Range(events) /\ events[1] \in Tasks
      BY <3>1 DEF Range
    <3> QED BY <2>1, <3>2, SyncIoAssumption, Zenon
  <2>3. PICK t \in Busy : TRUE
    BY <2>2, Zenon DEF IInv, TasksInUse
  <2> QED BY <1>4, <1>6, CallFacts, Zenon
<1>7. CASE UNCHANGED vars
  BY <1>7, Zenon DEF vars, devVars, callVars, Active, Performed
<1> QED
  BY <1>1, <1>2, <1>3, <1>4, <1>5, <1>6, <1>7 DEF Next

-----------------------------------------------------------------------------
(* The theorems.                                                           *)

\* No more requests arrive than the call has, and when as many have arrived,
\* all have.
LEMMA Room ==
  ASSUME NEW T \in TaskType, NEW rs \in Seq(Reqs), NEW n \in Nat,
         NEW g \in Seq(Reqs), CallRings(T, rs, n, g)
  PROVE  Fits(T, rs, g)
<1> DEFINE S == Range(rs)
           h == T.cq_head
           A == Arrived(T, g)
<1>1. h \in Nat /\ Len(rs) \in Nat
  BY TaskFields
<1>2. IsFiniteSet(S) /\ Cardinality(S) = Len(rs)
  <2>1. rs \in [1 .. Len(rs) -> S]
    BY DEF Range
  <2>2. rs \in Bijection(1 .. Len(rs), S)
    BY <2>1, Zenon DEF Bijection, Injection, Surjection, Range, CallRings
  <2>3. IsFiniteSet(1 .. Len(rs)) /\ Cardinality(1 .. Len(rs)) = Len(rs)
    <3> DEFINE m == Len(rs)
    <3>1. m \in Nat
      BY <1>1, Zenon
    <3> HIDE DEF m
    <3>2. /\ IsFiniteSet(1 .. m)
          /\ Cardinality(1 .. m) = IF 1 > m THEN 0 ELSE m - 1 + 1
      BY <3>1, FS_Interval
    <3>3. Cardinality(1 .. m) = m
      BY <3>1, <3>2
    <3> QED BY <3>2, <3>3, Zenon DEF m
  <2> HIDE DEF S
  <2>4. ExistsBijection(1 .. Len(rs), S)
    BY <2>2, Zenon DEF ExistsBijection
  <2> QED BY <2>3, <2>4, FS_Bijection, Zenon
<1>3. A \in Injection(1 .. h, S)
  <2>1. DOMAIN A = 1 .. h /\ A = [i \in 1 .. h |-> A[i]]
    BY Zenon DEF Arrived
  <2>2. \A i \in 1 .. h : A[i] \in S
    BY <2>1, Zenon DEF CallRings, Back, Range
  <2>3. IsInjective(A)
    BY Zenon DEF CallRings
  <2> HIDE DEF A, S, h
  <2> QED BY <2>1, <2>2, <2>3 DEF Injection
<1>4. Cardinality(1 .. h) = h
  <2> HIDE DEF h
  <2>1. Cardinality(1 .. h) = IF 1 > h THEN 0 ELSE h - 1 + 1
    BY <1>1, FS_Interval
  <2> QED BY <1>1, <2>1
<1>5. /\ Cardinality(1 .. h) <= Cardinality(S)
      /\ Cardinality(1 .. h) = Cardinality(S) <=> A \in Surjection(1 .. h, S)
  <2> HIDE DEF A, S, h
  <2> QED BY <1>2, <1>3, FS_Injection
<1>6. A \in Surjection(1 .. h, S) => Range(A) = S
  <2>1. DOMAIN A = 1 .. h
    BY Zenon DEF Arrived
  <2>2. Range(A) \subseteq S
    BY Zenon DEF CallRings, Back
  <2> HIDE DEF A, S, h
  <2> QED BY <2>1, <2>2, Zenon DEF Surjection, Range
<1> QED BY <1>2, <1>4, <1>5, <1>6, Zenon DEF Back, Fits

\* The invariant implies that the calls fit,
LEMMA InvFits ==
  IInv => CallsFit
  BY Room, CallFacts, Zenon DEF CallsFit

\* and so it always holds.
LEMMA Invariant ==
  Spec => []IInv
<1>1. IInv /\ [Next]_vars => IInv'
  BY InvFits, NextInv, Zenon
<1> QED BY <1>1, InitInv, PTL DEF Spec

\* Every request is in exactly one place.
LEMMA InvConserved ==
  IInv => Conserved
<1> SUFFICES ASSUME IInv, NEW r \in Reqs
             PROVE  Cardinality(
      {<<"pool">> : x \in {r} \cap req_pool}
        \cup {<<"unsent", t>> : t \in {u \in Threads : r \in Unsent(u)}}
        \cup {<<"sq", k>> : k \in {j \in Tasks : r \in InSq(task[j])}}
        \cup {<<"cq", k>> : k \in {j \in Tasks : r \in InCq(task[j])}}
        \cup {<<"device">> : x \in {r} \cap device}
        \cup {<<"done">> : x \in {r} \cap done}
        \cup {<<"got", t>> : t \in {u \in Threads : r \in Range(got[u])}}) = 1
  BY Zenon DEF Conserved
<1> DEFINE pool == {<<"pool">> : x \in {r} \cap req_pool}
           unsent ==
             {<<"unsent", t>> : t \in {u \in Threads : r \in Unsent(u)}}
           sq == {<<"sq", k>> : k \in {j \in Tasks : r \in InSq(task[j])}}
           cq == {<<"cq", k>> : k \in {j \in Tasks : r \in InCq(task[j])}}
           dev == {<<"device">> : x \in {r} \cap device}
           dn == {<<"done">> : x \in {r} \cap done}
           back == {<<"got", t>> : t \in {u \in Threads : r \in Range(got[u])}}
           places ==
             pool \cup unsent \cup sq \cup cq \cup dev \cup dn \cup back
<1>1. CASE r \in req_pool
  <2>1. /\ pool = {<<"pool">>} /\ unsent = {} /\ sq = {} /\ cq = {}
        /\ dev = {} /\ dn = {} /\ back = {}
    BY <1>1, Pooled, Zenon
  <2>2. places = {<<"pool">>}
    BY <2>1, Zenon
  <2> QED BY <2>2, FS_Singleton, Zenon
<1>2. CASE r \notin req_pool
  <2>1. PICK t \in Busy : r \in Range(reqs[t])
    BY <1>2, Zenon DEF IInv, Owners
  <2>2. PICK k \in Tasks : k = mine[t]
    BY CallFacts, Zenon
  <2>3. t \in Threads
    BY CallFacts, Zenon
  <2>4. pool = {}
    BY <1>2, Zenon
  <2>5. unsent = {<<"unsent", u>> : u \in {v \in {t} : r \in Unsent(t)}}
    BY <2>1, <2>3, Placed, Zenon
  <2>6. back = {<<"got", u>> : u \in {v \in {t} : r \in Range(got[t])}}
    BY <2>1, <2>3, Placed, Zenon
  <2>7. sq = {<<"sq", j>> : j \in {i \in {k} : r \in InSq(task[k])}}
    BY <2>1, <2>2, Placed
  <2>8. cq = {<<"cq", j>> : j \in {i \in {k} : r \in InCq(task[k])}}
    BY <2>1, <2>2, Placed, Zenon
  <2>9. /\ r \in InCq(task[k]) => r \notin Range(got[t])
        /\ OneOf(r \in Unsent(t), r \in InSq(task[k]), r \in device,
                 r \in done, r \in InCq(task[k]) \/ r \in Range(got[t]))
    BY <2>1, <2>2, Placed
  <2>10. \E x : places = {x}
    <3>1. CASE r \in Unsent(t)
      <4>1. places = {<<"unsent", t>>}
        BY <2>4, <2>5, <2>6, <2>7, <2>8, <2>9, <3>1 DEF OneOf
      <4> QED BY <4>1, Zenon
    <3>2. CASE r \in InSq(task[k])
      <4>1. places = {<<"sq", k>>}
        BY <2>4, <2>5, <2>6, <2>7, <2>8, <2>9, <3>2 DEF OneOf
      <4> QED BY <4>1, Zenon
    <3>3. CASE r \in device
      <4>1. places = {<<"device">>}
        BY <2>4, <2>5, <2>6, <2>7, <2>8, <2>9, <3>3 DEF OneOf
      <4> QED BY <4>1, Zenon
    <3>4. CASE r \in done
      <4>1. places = {<<"done">>}
        BY <2>4, <2>5, <2>6, <2>7, <2>8, <2>9, <3>4 DEF OneOf
      <4> QED BY <4>1, Zenon
    <3>5. CASE r \in InCq(task[k])
      <4>1. places = {<<"cq", k>>}
        BY <2>4, <2>5, <2>6, <2>7, <2>8, <2>9, <3>5 DEF OneOf
      <4> QED BY <4>1, Zenon
    <3>6. CASE r \in Range(got[t])
      <4>1. places = {<<"got", t>>}
        BY <2>4, <2>5, <2>6, <2>7, <2>8, <2>9, <3>6 DEF OneOf
      <4> QED BY <4>1, Zenon
    <3> QED BY <2>9, <3>1, <3>2, <3>3, <3>4, <3>5, <3>6, Zenon DEF OneOf
  <2> HIDE DEF places
  <2>11. Cardinality(places) = 1
    BY <2>10, FS_Singleton, Zenon
  <2> QED BY <2>11, Zenon DEF places
<1> QED BY <1>1, <1>2, Zenon

\* No request is lost, doubled or mixed up between the pools, the rings, the
\* core and the device, whatever the number of threads, tasks and requests:
\* each is in exactly one place, a caller gets back its own requests, each
\* once, and reactor_submit_reqs and reactor_cq_put_req never meet a full ring.
THEOREM RequestsAccountedFor ==
  Spec => []RequestsAccounted
<1>1. IInv => RequestsAccounted
  <2> SUFFICES ASSUME IInv PROVE RequestsAccounted
    BY Zenon
  <2>1. TypeOK /\ Conserved
    BY InvConserved, Zenon DEF IInv
  <2>2. OwnRequests
    BY GotFacts, Zenon DEF OwnRequests
  <2>3. SqNeverFull
    BY Zenon DEF SqNeverFull, IInv, Busy, CallInv, CallPoint
  <2> QED BY <2>1, <2>2, <2>3, Zenon DEF RequestsAccounted
<1> QED BY <1>1, Invariant, PTL

\* A task that reactor_free_task has put back in the pool is forgotten: no
\* event and no loop of the core works on it, no thread owns it and no request
\* on its way names it.
THEOREM PoolIsForgotten ==
  Spec => []PoolForgotten
<1>1. IInv => PoolForgotten
  <2> SUFFICES ASSUME IInv, NEW k \in task_pool
               PROVE  /\ k \notin Range(events) \cup {core}
                      /\ \A t \in Threads : mine[t] # k
                      /\ \A r \in device \cup done : req_task[r] # k
    BY Zenon DEF PoolForgotten
  <2>1. k \in Tasks /\ k # NoTask /\ k \notin Range(events) \cup {core}
    BY PoolUnowned, SyncIoAssumption, Zenon
  <2>2. \A t \in Threads : mine[t] # k
    BY <2>1, PoolUnowned DEF IInv, IdleInv, Busy
  <2>3. \A r \in device \cup done : req_task[r] # k
    BY InvFits, PoolUnowned, DoneFacts
  <2> QED BY <2>1, <2>2, <2>3
<1> QED BY <1>1, Invariant, PTL

\* Synchronous I/O through the reactor core implements the service its callers
\* rely on: the requests of a call are performed exactly once, while the call
\* lasts, and the call returns only when all of them are.
THEOREM ServiceImplemented ==
  Spec => ImplementsIoService
<1>1. Init => Service!Init
  <2> SUFFICES ASSUME Init PROVE Service!Init
    BY Zenon
  <2>1. IInv /\ Busy = {} /\ done = {}
    BY InitInv, Zenon DEF Init, Busy
  <2>2. Performed = {}
    BY <2>1, PerformedIs, Zenon DEF Served
  <2>3. Range(<<>>) = {}
    BY DEF Range
  <2>4. Active = [t \in Threads |-> {}]
    BY <2>3, Zenon DEF Init, Active
  <2> QED BY <2>2, <2>4, Zenon DEF Service!Init
<1>2. IInv => Performed = Served
  BY PerformedIs, Zenon
<1>3. IInv /\ [Next]_vars /\ Performed = Served /\ (Performed = Served)'
        => [Service!Next]_<<Active, Performed>>
  BY InvFits, NextServes, Zenon
<1> QED
  BY <1>1, <1>2, <1>3, Invariant, PTL
  DEF Spec, ImplementsIoService, Service!Spec, Service!vars
=============================================================================
