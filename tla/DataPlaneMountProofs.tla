----------------------- MODULE DataPlaneMountProofs -----------------------
(***************************************************************************)
(* What the processes of DataPlane do with their containers, for any       *)
(* number of processes, channels and containers: what a request, an answer *)
(* and a step that only looks at an answer owe to ControlInv of            *)
(* DataPlaneControlProofs, and the steps of a mount.                       *)
(* DataPlaneLeaseProofs has the other steps and what follows.              *)
(***************************************************************************)
EXTENDS DataPlaneControlProofs

-----------------------------------------------------------------------------
(* What the processes do with their containers.                            *)

\* Process q goes on as q2 on channel x: it takes only what is its own.
Keeps(q, q2, x, tab, sd) ==
  Live(q2) =>
    /\ q2.chan = x
    /\ \A c \in q2.bgs : Acquired(tab, c, x)
    /\ q2.pc \in Stopping => q2.bgs = {} /\ q2.held = {}
    /\ q2.pc = "unreserve" => q2.held = {}
    /\ q2.pc # "reserve" => \A c \in q2.held : Claims(q, sd, c)

\* The request that it sends then gives back only what is its own.
Fits(q, q2, m, tab, dirs, dt, sd) ==
  /\ RequestOK(m, tab, dirs, dt)
  /\ m.op = "CONTAINER_RELEASE" => m.arg \notin q2.bgs
  /\ m.op = "RESERVATION_ACQUIRE" => q2.held = {m.arg[1]}
  /\ m.op = "RESERVATION_RELEASE" => Claims(q, sd, m.arg)

\* Process p alone goes on, and sends m at most.
Goes(P, P2, rv, rv2, p, x, tab, dirs, dt, sd) ==
  /\ \A r \in Procs \ {p} : P2[r] = P[r]
  /\ Keeps(P[p], P2[p], x, tab, sd)
  /\ \/ rv2 = rv
     \/ \E m : rv2 = Append(rv, m) /\ m.chan = x /\ Fits(P[p], P2[p], m, tab, dirs, dt, sd)

\* The requests after such a step.
LEMMA GoesRequests ==
  ASSUME NEW P, NEW P2, NEW rv, NEW rv2, NEW sd, NEW p, NEW x, NEW tab, NEW dirs, NEW dt,
         IsSequence(rv), Goes(P, P2, rv, rv2, p, x, tab, dirs, dt, sd),
         NEW i \in 1..Len(rv2)
  PROVE  \/ \E j \in 1..Len(rv) : rv2[i] = rv[j]
         \/ rv2[i].chan = x /\ Fits(P[p], P2[p], rv2[i], tab, dirs, dt, sd)
<1>1. CASE rv2 = rv
  BY <1>1, Zenon
<1>2. ASSUME NEW m, rv2 = Append(rv, m), m.chan = x,
             Fits(P[p], P2[p], m, tab, dirs, dt, sd)
      PROVE  \/ \E j \in 1..Len(rv) : rv2[i] = rv[j]
             \/ rv2[i].chan = x /\ Fits(P[p], P2[p], rv2[i], tab, dirs, dt, sd)
  <2>1. (i \in 1..Len(rv) /\ rv2[i] = rv[i]) \/ rv2[i] = m
    BY <1>2, AppendEffect, Zenon
  <2> QED BY <1>2, <2>1, Zenon
<1> QED
  BY <1>1, <1>2, Zenon DEF Goes

\* Its step leaves the leases in order.
LEMMA MovedLease ==
  ASSUME NEW P, NEW P2, NEW rv, NEW rv2, NEW sd, NEW sd2, NEW p \in Procs, NEW x,
         NEW tab, NEW dirs, NEW dt, IsSequence(rv),
         \A c \in Containers : tab[c].ref \in Nat,
         LeaseInv(tab, dirs, dt, P, rv, sd),
         Owns(P, p, x), Cleared(rv, sd, sd2, x),
         Goes(P, P2, rv, rv2, p, x, tab, dirs, dt, sd)
  PROVE  LeaseInv(tab, dirs, dt, P2, rv2, sd2)
<1>0. /\ DOMAIN dt = Containers
      /\ \A c \in Containers : tab[c].owner = 0 => dt[c] = {}
      /\ \A i \in 1..Len(rv) : RequestOK(rv[i], tab, dirs, dt)
      /\ \A r \in Procs : Live(P[r]) => LeaseOK(P[r], tab, rv, sd)
      /\ \A c \in Containers : Cardinality(Claimants(c, P, rv, sd)) <= tab[c].ref
  BY Zenon DEF LeaseInv
<1>1. /\ x \in ChannelIds /\ Live(P[p]) => P[p].chan = x
      /\ \A r \in Procs \ {p} : Live(P[r]) => P[r].chan # x /\ P[r].chan \in ChannelIds
      /\ \A y \in ChannelIds \ {x} : sd2[y] = sd[y]
      /\ sd2[x] = <<>>
      /\ \A i \in 1..Len(rv) : rv[i].chan # x
      /\ \A r \in Procs \ {p} : P2[r] = P[r]
      /\ Keeps(P[p], P2[p], x, tab, sd)
  BY Zenon DEF Owns, Cleared, NoRequestOf, Goes
<1>2. \A i \in 1..Len(rv2) :
         \/ \E j \in 1..Len(rv) : rv2[i] = rv[j]
         \/ rv2[i].chan = x /\ Fits(P[p], P2[p], rv2[i], tab, dirs, dt, sd)
  BY GoesRequests
<1>3. \A i \in 1..Len(rv2) : RequestOK(rv2[i], tab, dirs, dt)
  BY <1>0, <1>2, Zenon DEF Fits
<1>4. ASSUME NEW r \in Procs, Live(P2[r]), r # p
      PROVE  LeaseOK(P2[r], tab, rv2, sd2)
  <2>1. PICK q : q = P[r]
    BY Zenon
  <2>2. /\ P2[r] = q /\ Live(q) /\ LeaseOK(q, tab, rv, sd)
        /\ q.chan # x /\ sd2[q.chan] = sd[q.chan]
    BY <1>0, <1>1, <1>4, <2>1, Zenon
  <2>3. \A i \in 1..Len(rv2) : rv2[i].chan = q.chan => \E j \in 1..Len(rv) : rv2[i] = rv[j]
    BY <1>2, <2>2, Zenon
  <2>4. \A i \in 1..Len(rv2) : rv2[i].chan = q.chan =>
          /\ rv2[i].op = "CONTAINER_RELEASE" => rv2[i].arg \notin q.bgs
          /\ rv2[i].op = "RESERVATION_ACQUIRE" => q.held = {rv2[i].arg[1]}
    <3> SUFFICES ASSUME NEW i \in 1..Len(rv2), rv2[i].chan = q.chan
                 PROVE  /\ rv2[i].op = "CONTAINER_RELEASE" => rv2[i].arg \notin q.bgs
                        /\ rv2[i].op = "RESERVATION_ACQUIRE" => q.held = {rv2[i].arg[1]}
      BY Zenon
    <3>1. PICK j \in 1..Len(rv) : rv2[i] = rv[j]
      BY <2>3, Zenon
    <3>2. /\ rv[j].op = "CONTAINER_RELEASE" => rv[j].arg \notin q.bgs
          /\ rv[j].op = "RESERVATION_ACQUIRE" => q.held = {rv[j].arg[1]}
      BY <2>2, <3>1, Zenon DEF LeaseOK
    <3> QED BY <3>1, <3>2
  <2>5. LeaseOK(q, tab, rv2, sd2)
    BY <2>2, <2>4, Zenon DEF LeaseOK
  <2> QED BY <2>2, <2>5, Zenon
<1>5. ASSUME Live(P2[p])
      PROVE  LeaseOK(P2[p], tab, rv2, sd2)
  <2>1. PICK q : q = P2[p]
    BY Zenon
  <2>2. /\ q.chan = x
        /\ \A c \in q.bgs : Acquired(tab, c, x)
        /\ q.pc \in Stopping => q.bgs = {} /\ q.held = {}
        /\ q.pc = "unreserve" => q.held = {}
    BY <1>1, <1>5, <2>1, Zenon DEF Keeps
  <2>3. \A i \in 1..Len(rv2) : rv2[i].chan = x =>
          /\ rv2[i].op = "CONTAINER_RELEASE" => rv2[i].arg \notin q.bgs
          /\ rv2[i].op = "RESERVATION_ACQUIRE" => q.held = {rv2[i].arg[1]}
    <3> SUFFICES ASSUME NEW i \in 1..Len(rv2), rv2[i].chan = x
                 PROVE  /\ rv2[i].op = "CONTAINER_RELEASE" => rv2[i].arg \notin q.bgs
                        /\ rv2[i].op = "RESERVATION_ACQUIRE" => q.held = {rv2[i].arg[1]}
      BY Zenon
    <3>1. ~ \E j \in 1..Len(rv) : rv2[i] = rv[j]
      BY <1>1, Zenon
    <3>2. Fits(P[p], q, rv2[i], tab, dirs, dt, sd)
      BY <1>2, <2>1, <3>1, Zenon
    <3> QED BY <3>2, Zenon DEF Fits
  <2>4. LeaseOK(q, tab, rv2, sd2)
    BY <1>1, <2>2, <2>3, Zenon DEF LeaseOK
  <2> QED BY <2>1, <2>4, Zenon
<1>6. ASSUME NEW c \in Containers
      PROVE  Cardinality(Claimants(c, P2, rv2, sd2)) <= tab[c].ref
  <2>1. ASSUME NEW y \in Claimants(c, P2, rv2, sd2)
        PROVE  y \in Claimants(c, P, rv, sd)
    <3>1. y \in ChannelIds
      BY Zenon DEF Claimants
    <3>2. ASSUME Claims(P[p], sd, c), y = x PROVE y \in Claimants(c, P, rv, sd)
      BY <1>1, <3>1, <3>2, Zenon DEF Claimants, Claims
    <3>3. ASSUME NEW r \in Procs, P2[r].chan = y, Claims(P2[r], sd2, c)
          PROVE  y \in Claimants(c, P, rv, sd)
      <4>1. CASE r = p
        <5>1. Live(P2[p]) /\ c \in P2[p].held /\ P2[p].chan = x
          BY <1>1, <3>3, <4>1, Zenon DEF Claims, Keeps
        <5>2. P2[p].pc # "reserve"
          BY <1>1, <3>3, <4>1, <5>1, Zenon DEF Claims
        <5>3. Claims(P[p], sd, c)
          BY <1>1, <5>1, <5>2, Zenon DEF Keeps
        <5> QED BY <3>2, <3>3, <4>1, <5>1, <5>3, Zenon
      <4>2. CASE r # p
        <5>1. P2[r] = P[r] /\ Live(P[r])
          BY <1>1, <3>3, <4>2, Zenon DEF Claims
        <5>2. P[r].chan = y /\ sd2[y] = sd[y]
          BY <1>1, <3>3, <4>2, <5>1, Zenon
        <5>3. Claims(P[r], sd, c)
          BY <3>3, <5>1, <5>2, Zenon DEF Claims
        <5> QED BY <3>1, <5>2, <5>3, Zenon DEF Claimants
      <4> QED BY <4>1, <4>2, Zenon
    <3>4. ASSUME NEW i \in 1..Len(rv2), rv2[i].chan = y, Releases(rv2[i], c)
          PROVE  y \in Claimants(c, P, rv, sd)
      <4>1. CASE \E j \in 1..Len(rv) : rv2[i] = rv[j]
        BY <3>1, <3>4, <4>1, Zenon DEF Claimants
      <4>2. CASE rv2[i].chan = x /\ Fits(P[p], P2[p], rv2[i], tab, dirs, dt, sd)
        BY <3>2, <3>4, <4>2, Zenon DEF Fits, Releases
      <4> QED BY <1>2, <4>1, <4>2, Zenon
    <3> QED BY <3>3, <3>4, Zenon DEF Claimants
  <2> DEFINE A == Claimants(c, P, rv, sd)
             B == Claimants(c, P2, rv2, sd2)
  <2>2. B \subseteq A
    BY <2>1, Zenon
  <2>3. /\ IsFiniteSet(A) /\ Cardinality(A) \in Nat /\ Cardinality(B) \in Nat
        /\ Cardinality(A) <= tab[c].ref
    BY <1>0, ClaimantsFinite, Zenon
  <2> HIDE DEF A, B
  <2>4. Cardinality(B) <= Cardinality(A)
    BY <2>2, <2>3, FS_Subset, Zenon
  <2>5. Cardinality(B) <= tab[c].ref
    <3>1. tab[c].ref \in Nat
      BY Zenon
    <3> QED BY <2>3, <2>4, <3>1
  <2> QED BY <2>5, Zenon DEF B
<1> QED
  BY <1>0, <1>3, <1>4, <1>5, <1>6, Zenon DEF LeaseInv

\* Files come and go in a container that is not being given back.
LEMMA DataLease ==
  ASSUME NEW P, NEW rv, NEW sd, NEW tab, NEW dirs, NEW dt, NEW dt2,
         LeaseInv(tab, dirs, dt, P, rv, sd), DOMAIN dt2 = Containers,
         \A c \in Containers :
           \/ dt2[c] = dt[c]
           \/ dt2[c] = {}
           \/ /\ tab[c].owner # 0
              /\ \A i \in 1..Len(rv) : rv[i].op = "CONTAINER_RELEASE" => rv[i].arg # c
  PROVE  LeaseInv(tab, dirs, dt2, P, rv, sd)
<1>1. \A c \in Containers : tab[c].owner = 0 => dt2[c] = {}
  BY Zenon DEF LeaseInv
<1>2. \A i \in 1..Len(rv) : RequestOK(rv[i], tab, dirs, dt2)
  BY Zenon DEF LeaseInv, RequestOK, Acquired
<1> QED
  BY <1>1, <1>2, Zenon DEF LeaseInv

\* A process that works undisturbed on its channel x.
Clear(p, x) == Owns(proc, p, x) /\ Cleared(recv, send, send', x)

\* One that takes an answer.
LEMMA ReplyClear ==
  ASSUME ProtocolInv, NEW p \in Procs, NEW pc \in DOMAIN Awaited, Dequeue(p, pc),
         NEW x, x = proc[p].chan
  PROVE  /\ Live(proc[p]) /\ proc[p].pc = pc
         /\ Clear(p, x)
         /\ Answer(p) = send[x][1] /\ send[x] # <<>>
         /\ NoRequestOf(recv, x)
<1>1. proc[p].pc = pc /\ Live(proc[p])
  BY WaitingFacts, Zenon DEF Dequeue
<1>2. Owns(proc, p, proc[p].chan)
  BY <1>1, OtherChannels, Zenon DEF ProtocolInv
<1>3. OnItsWay(proc[p], recv, send)
  BY <1>1, Zenon DEF ProtocolInv, MessagesInv
<1>4. /\ Cleared(recv, send, send', proc[p].chan)
      /\ Answer(p) = send[proc[p].chan][1] /\ send[proc[p].chan] # <<>>
  BY <1>1, <1>2, <1>3, DequeueEffect, Zenon DEF ProtocolInv, Owns
<1> QED
  BY <1>1, <1>2, <1>4, Zenon DEF Clear, Cleared

\* One that waits for nothing.
LEMMA IdleClear ==
  ASSUME ProtocolInv, NEW p \in Procs, Live(proc[p]), proc[p].pc \notin DOMAIN Awaited,
         send' = send, NEW x, x = proc[p].chan
  PROVE  Clear(p, x)
<1>1. Owns(proc, p, proc[p].chan)
  BY OtherChannels, Zenon DEF ProtocolInv
<1>2. OnItsWay(proc[p], recv, send)
  BY Zenon DEF ProtocolInv, MessagesInv
<1> QED
  BY <1>1, <1>2, Zenon DEF ProtocolInv, RingsOK, OnItsWay, Clear, Cleared

\* One that starts on the first number of id_gen.
LEMMA MountClear ==
  ASSUME Plain("overlap"), ProtocolInv, NEW p \in Procs, Mount(p), NEW x, x = Head(ids)
  PROVE  Clear(p, x)
<1>1. ~Live(proc[p]) /\ \A r \in Procs \ {p} : proc[r].pc \notin Changing
  BY Zenon DEF Mount, Gone, Live, Undisturbed, Changing
<1>2. ids # <<>> /\ send' = send
  BY Zenon DEF Mount, GetChannelId
<1>3. /\ x = ids[1] /\ x \in ChannelIds /\ 1 \in 1..Len(ids) /\ ChannelsInv(proc, ids)
      /\ RingsOK(recv, send) /\ MessagesInv(proc, recv, send, ids)
  BY <1>2, TakenNumber, Zenon DEF ProtocolInv, ChannelsInv
<1>4. \A r \in Procs : Live(proc[r]) => proc[r].chan # x /\ proc[r].chan \in ChannelIds
  BY <1>1, <1>3, Zenon DEF ChannelsInv, Changing, Stopping
<1>5. send[x] = <<>> /\ NoRequestOf(recv, x)
  BY <1>3, <1>4, Zenon DEF MessagesInv
<1> QED
  BY <1>1, <1>2, <1>3, <1>4, <1>5, Zenon DEF Clear, Owns, Cleared, RingsOK

\* The leases of a running control plane, with the files dt.
Leased(dt) == ControlOK(cp) /\ LeaseInv(cp.tab, cp.dirs, dt, proc, recv, send)

\* The same after the step.
LeasedNext(dt) == LeaseInv(cp.tab, cp.dirs, dt, proc', recv', send')

\* A process goes on and sends nothing.
LEMMA DoneLease ==
  ASSUME ProtocolInv, NEW dt, Leased(dt), NEW p \in Procs, NEW x, Clear(p, x),
         NEW q, NEW free, NoRequest(p, q, free), Keeps(proc[p], q, x, cp.tab, send)
  PROVE  LeasedNext(dt)
<1>1. proc' = [proc EXCEPT ![p] = q] /\ recv' = recv /\ ProcsOK(proc) /\ IsSequence(recv)
  BY Zenon DEF NoRequest, ProtocolInv, RingsOK
<1>2. proc'[p] = q /\ \A r \in Procs \ {p} : proc'[r] = proc[r]
  BY <1>1, Zenon DEF ProcsOK
<1>3. Goes(proc, proc', recv, recv', p, x, cp.tab, cp.dirs, dt, send)
  BY <1>1, <1>2, Zenon DEF Goes
<1>4. \A c \in Containers : cp.tab[c].ref \in Nat
  BY ControlShape, Zenon DEF Leased
<1>5. PICK tab, dirs : tab = cp.tab /\ dirs = cp.dirs
  BY Zenon
<1>6. LeaseInv(tab, dirs, dt, proc', recv', send')
  <2>1. LeaseInv(tab, dirs, dt, proc, recv, send)
    BY <1>5, Zenon DEF Leased
  <2>2. Goes(proc, proc', recv, recv', p, x, tab, dirs, dt, send)
    BY <1>3, <1>5, Zenon
  <2>3. \A c \in Containers : tab[c].ref \in Nat
    BY <1>4, <1>5, Zenon
  <2> QED BY <1>1, <2>1, <2>2, <2>3, MovedLease, Zenon DEF Clear
<1> QED
  BY <1>5, <1>6, Zenon DEF LeasedNext

\* A process goes on and sends a request, or panics.
LEMMA RequestLease ==
  ASSUME ProtocolInv, NEW dt, Leased(dt), NEW p \in Procs, NEW x, Clear(p, x),
         NEW q, NEW free, NEW op, NEW arg, Request(p, q, free, op, arg),
         DOMAIN q = Fields, q.chan = x, Keeps(proc[p], q, x, cp.tab, send),
         NEW m, m = [op |-> op, chan |-> q.chan, arg |-> arg],
         Fits(proc[p], q, m, cp.tab, cp.dirs, dt, send)
  PROVE  LeasedNext(dt)
<1>1. CASE free = 0
  <2> DEFINE r == [q EXCEPT !.pc = "panic_pool"]
  <2>1. NoRequest(p, r, 0)
    BY <1>1, Zenon DEF Request, NoRequest
  <2>2. r.pc = "panic_pool"
    BY Zenon DEF Fields
  <2>3. Keeps(proc[p], r, x, cp.tab, send)
    BY <2>2, Zenon DEF Keeps, Live, Panics
  <2> HIDE DEF r
  <2> QED BY <2>1, <2>3, DoneLease, Zenon
<1>2. CASE free # 0
  <2>1. /\ proc' = [proc EXCEPT ![p] = q] /\ recv' = Append(recv, m)
        /\ ProcsOK(proc) /\ IsSequence(recv)
    BY <1>2, Zenon DEF Request, ProtocolInv, RingsOK
  <2>2. proc'[p] = q /\ \A r \in Procs \ {p} : proc'[r] = proc[r]
    BY <2>1, Zenon DEF ProcsOK
  <2>3. m.chan = x
    <3>1. m.chan = q.chan
      BY Zenon
    <3> QED BY <3>1, Zenon
  <2>4. PICK tab, dirs : tab = cp.tab /\ dirs = cp.dirs
    BY Zenon
  <2>5. Goes(proc, proc', recv, recv', p, x, tab, dirs, dt, send)
    BY <2>1, <2>2, <2>3, <2>4, Zenon DEF Goes
  <2>6. \A c \in Containers : tab[c].ref \in Nat
    BY <2>4, ControlShape, Zenon DEF Leased
  <2>7. LeaseInv(tab, dirs, dt, proc, recv, send)
    BY <2>4, Zenon DEF Leased
  <2>8. LeaseInv(tab, dirs, dt, proc', recv', send')
    BY <2>1, <2>5, <2>6, <2>7, MovedLease, Zenon DEF Clear
  <2> QED BY <2>4, <2>8, Zenon DEF LeasedNext
<1> QED
  BY <1>1, <1>2, Zenon

\* The requests that give nothing back and reserve nothing.
PlainOps == {"BUFFER_ALLOC", "APP_REGISTER", "SUPERBLOCK_COPY", "CONTAINER_ALLOC",
             "HEALTH_CHECK", "BUFFER_FREE", "APP_UNREGISTER"}

\* A process that has not more than before, but for what it has just got.
Modest(q, q2, tab) ==
  /\ q2.chan = q.chan
  /\ \A c \in q2.bgs : c \in q.bgs \/ Acquired(tab, c, q.chan)
  /\ q2.held \subseteq q.held
  /\ q2.pc \in Stopping => q2.bgs = {} /\ q2.held = {}
  /\ q2.pc = "unreserve" => q2.held = {}

\* Such a process takes only what is its own.
LEMMA ModestKeeps ==
  ASSUME NEW dt, Leased(dt), NEW p \in Procs, Live(proc[p]), proc[p].pc # "reserve",
         NEW x, x = proc[p].chan, NEW q, Live(q) => Modest(proc[p], q, cp.tab)
  PROVE  Keeps(proc[p], q, x, cp.tab, send)
<1>1. \A c \in proc[p].bgs : Acquired(cp.tab, c, x)
  BY Zenon DEF Leased, LeaseInv, LeaseOK
<1>2. \A c \in proc[p].held : Claims(proc[p], send, c)
  BY Zenon DEF Claims
<1> QED
  BY <1>1, <1>2, Zenon DEF Keeps, Modest

\* A process that waits for nothing, or takes an answer, and sends a request.
LEMMA PlainRequest ==
  ASSUME ProtocolInv, NEW dt, Leased(dt), NEW p \in Procs, NEW x, Clear(p, x),
         x = proc[p].chan, Live(proc[p]), proc[p].pc # "reserve",
         NEW q, NEW free, NEW op \in PlainOps, NEW arg, Request(p, q, free, op, arg),
         DOMAIN q = Fields, Modest(proc[p], q, cp.tab)
  PROVE  LeasedNext(dt)
<1>1. Keeps(proc[p], q, x, cp.tab, send) /\ q.chan = x
  BY ModestKeeps, Zenon DEF Modest
<1>2. PICK m : m = [op |-> op, chan |-> q.chan, arg |-> arg]
  BY Zenon
<1>3. m.op = op
  BY <1>2, Zenon
<1>4. Fits(proc[p], q, m, cp.tab, cp.dirs, dt, send)
  BY <1>3, Zenon DEF Fits, RequestOK, PlainOps
<1> QED
  BY <1>1, <1>2, <1>4, RequestLease, Zenon

\* An answer is taken and another request follows.
LEMMA ReplyRequestLease ==
  ASSUME ProtocolInv, NEW dt, Leased(dt), NEW p \in Procs,
         NEW pc \in DOMAIN Awaited, pc # "reserve", Dequeue(p, pc),
         NEW q, NEW free, NEW op \in PlainOps, NEW arg, Request(p, q, free, op, arg),
         DOMAIN q = Fields, Modest(proc[p], q, cp.tab)
  PROVE  LeasedNext(dt)
<1>1. PICK x : x = proc[p].chan
  BY Zenon
<1>2. Live(proc[p]) /\ proc[p].pc = pc /\ Clear(p, x)
  BY <1>1, ReplyClear, Zenon
<1> QED
  BY <1>1, <1>2, PlainRequest, Zenon

\* An answer is taken and nothing follows.
LEMMA ReplyDoneLease ==
  ASSUME ProtocolInv, NEW dt, Leased(dt), NEW p \in Procs,
         NEW pc \in DOMAIN Awaited, pc # "reserve", Dequeue(p, pc),
         NEW q, NEW free, NoRequest(p, q, free),
         Live(q) => Modest(proc[p], q, cp.tab)
  PROVE  LeasedNext(dt)
<1>1. PICK x : x = proc[p].chan
  BY Zenon
<1>2. Live(proc[p]) /\ proc[p].pc = pc /\ Clear(p, x)
  BY <1>1, ReplyClear, Zenon
<1>3. Keeps(proc[p], q, x, cp.tab, send)
  BY <1>1, <1>2, ModestKeeps, Zenon
<1> QED
  BY <1>2, <1>3, DoneLease, Zenon

\* A mounted process asks for something.
LEMMA AskLease ==
  ASSUME ProtocolInv, NEW dt, Leased(dt), NEW p \in Procs, InService(p), send' = send,
         NEW q, NEW free, NEW op \in PlainOps, NEW arg, Request(p, q, free, op, arg),
         DOMAIN q = Fields, Modest(proc[p], q, cp.tab)
  PROVE  LeasedNext(dt)
<1>1. PICK x : x = proc[p].chan
  BY Zenon
<1>2. Live(proc[p]) /\ proc[p].pc \notin DOMAIN Awaited /\ proc[p].pc # "reserve"
  BY Zenon DEF InService, Live, Panics, Awaited
<1>3. Clear(p, x)
  BY <1>1, <1>2, IdleClear, Zenon
<1> QED
  BY <1>1, <1>2, <1>3, PlainRequest, Zenon

\* Only pc changes, to one that gives nothing up.
LEMMA SameModest ==
  ASSUME NEW q, NEW q2, NEW tab, q2.chan = q.chan, q2.bgs = q.bgs, q2.held = q.held,
         q2.pc \notin Stopping \cup {"unreserve"}
  PROVE  Modest(q, q2, tab)
  BY Zenon DEF Modest

\* The container in an answer.
LEMMA AnswerAcquired ==
  ASSUME ProtocolInv, NEW dt, Leased(dt), NEW p \in Procs,
         NEW pc \in {"fetch", "prealloc", "need"}, Dequeue(p, pc), NEW c, c = Answer(p).ret
  PROVE  c = 0 \/ Acquired(cp.tab, c, proc[p].chan)
<1>1. pc \in DOMAIN Awaited
  BY Zenon DEF Awaited
<1>2. PICK x : x = proc[p].chan
  BY Zenon
<1>3. Live(proc[p]) /\ proc[p].pc = pc /\ Answer(p) = send[x][1] /\ send[x] # <<>>
  BY <1>1, <1>2, ReplyClear, Zenon
<1>4. LeaseOK(proc[p], cp.tab, recv, send)
  BY <1>3, Zenon DEF Leased, LeaseInv
<1> QED
  BY <1>2, <1>3, <1>4, Zenon DEF LeaseOK

\* A process with one more container.
LEMMA AddBgModest ==
  ASSUME NEW q, DOMAIN q = Fields, NEW c, NEW tab, c = 0 \/ Acquired(tab, c, q.chan)
  PROVE  /\ \A d \in AddBg(q, c).bgs : d \in q.bgs \/ Acquired(tab, d, q.chan)
         /\ AddBg(q, c).held = q.held
<1>1. CASE c = 0
  BY <1>1, Zenon DEF AddBg
<1>2. CASE c # 0
  <2>1. AddBg(q, c).bgs = q.bgs \cup {c} /\ AddBg(q, c).held = q.held
    BY <1>2, Zenon DEF AddBg, Fields
  <2> QED BY <1>2, <2>1, Zenon
<1> QED
  BY <1>1, <1>2, Zenon

\* The answers to the first three requests of a mount.
LEMMA MountBuffersLease ==
  ASSUME ProtocolInv, Leased(data), NEW p \in Procs, MountBuffers(p)
  PROVE  LeasedNext(data)
<1> DEFINE q == [proc[p] EXCEPT !.pc = "register", !.buf = Answer(p).ret]
<1>1. /\ DOMAIN q = Fields /\ q.pc = "register" /\ q.chan = proc[p].chan
      /\ q.bgs = proc[p].bgs /\ q.held = proc[p].held
  BY ShapeOf, Zenon DEF Fields
<1>2. /\ Dequeue(p, "buffer")
      /\ NoRequest(p, NoProc, pool + 1) \/ Request(p, q, pool + 1, "APP_REGISTER", Name(p))
  BY Zenon DEF MountBuffers
<1>3. /\ "buffer" \in DOMAIN Awaited /\ "APP_REGISTER" \in PlainOps
      /\ "register" \notin Stopping \cup {"unreserve"}
  BY Zenon DEF Awaited, PlainOps, Stopping
<1> HIDE DEF q
<1>4. Modest(proc[p], q, cp.tab)
  BY <1>1, <1>3, SameModest, Zenon
<1>5. CASE NoRequest(p, NoProc, pool + 1)
  BY <1>2, <1>3, <1>5, NoProcFacts, ReplyDoneLease, Zenon
<1>6. CASE Request(p, q, pool + 1, "APP_REGISTER", Name(p))
  BY <1>1, <1>2, <1>3, <1>4, <1>6, ReplyRequestLease, Zenon
<1> QED
  BY <1>2, <1>5, <1>6, Zenon

\* The application is registered.
LEMMA MountRegisteredLease ==
  ASSUME ProtocolInv, Leased(data), NEW p \in Procs, MountRegistered(p)
  PROVE  LeasedNext(data)
<1> DEFINE q == [proc[p] EXCEPT !.pc = "copy"]
<1>1. /\ DOMAIN q = Fields /\ q.pc = "copy" /\ q.chan = proc[p].chan
      /\ q.bgs = proc[p].bgs /\ q.held = proc[p].held
  BY ShapeOf, Zenon DEF Fields
<1>2. Dequeue(p, "register") /\ Request(p, q, pool + 1, "SUPERBLOCK_COPY", Name(p))
  BY Zenon DEF MountRegistered
<1>3. /\ "register" \in DOMAIN Awaited /\ "SUPERBLOCK_COPY" \in PlainOps
      /\ "copy" \notin Stopping \cup {"unreserve"}
  BY Zenon DEF Awaited, PlainOps, Stopping
<1> HIDE DEF q
<1>4. Modest(proc[p], q, cp.tab)
  BY <1>1, <1>3, SameModest, Zenon
<1> QED
  BY <1>1, <1>2, <1>3, <1>4, ReplyRequestLease, Zenon

\* The process has the superblock.
LEMMA MountCopiedLease ==
  ASSUME ProtocolInv, Leased(data), NEW p \in Procs, MountCopied(p)
  PROVE  LeasedNext(data)
<1> DEFINE q == [proc[p] EXCEPT !.pc = "fetch", !.root = Answer(p).copy.root,
                                !.state = Answer(p).copy.state]
           r == [q EXCEPT !.pc = "assert_root"]
<1>1. /\ DOMAIN q = Fields /\ q.pc = "fetch" /\ q.chan = proc[p].chan
      /\ q.bgs = proc[p].bgs /\ q.held = proc[p].held
  BY ShapeOf, Zenon DEF Fields
<1>2. r.pc = "assert_root"
  BY <1>1, Zenon DEF Fields
<1>3. /\ Dequeue(p, "copy")
      /\ \/ NoRequest(p, r, pool + 1)
         \/ Request(p, q, pool + 1, "CONTAINER_ALLOC", "ALLOCATED")
  BY Zenon DEF MountCopied
<1>4. /\ "copy" \in DOMAIN Awaited /\ "CONTAINER_ALLOC" \in PlainOps
      /\ "fetch" \notin Stopping \cup {"unreserve"} /\ "assert_root" \in Panics
  BY Zenon DEF Awaited, PlainOps, Stopping, Panics
<1> HIDE DEF q, r
<1>5. Modest(proc[p], q, cp.tab)
  BY <1>1, <1>4, SameModest, Zenon
<1>6. ~Live(r)
  BY <1>2, <1>4, Zenon DEF Live
<1>7. CASE NoRequest(p, r, pool + 1)
  BY <1>3, <1>4, <1>6, <1>7, ReplyDoneLease, Zenon
<1>8. CASE Request(p, q, pool + 1, "CONTAINER_ALLOC", "ALLOCATED")
  BY <1>1, <1>3, <1>4, <1>5, <1>8, ReplyRequestLease, Zenon
<1> QED
  BY <1>3, <1>7, <1>8, Zenon

\* What a process has after an answer with a container.
LEMMA FetchedModest ==
  ASSUME ProtocolInv, Leased(data), NEW p \in Procs,
         NEW pc \in {"fetch", "prealloc"}, Dequeue(p, pc),
         NEW q, q = [AddBg(proc[p], Answer(p).ret) EXCEPT !.count = @ + 1]
  PROVE  /\ DOMAIN q = Fields /\ q.chan = proc[p].chan /\ q.pc = pc
         /\ \A c \in q.bgs : c \in proc[p].bgs \/ Acquired(cp.tab, c, proc[p].chan)
         /\ q.held = proc[p].held
<1>1. PICK c, a : c = Answer(p).ret /\ a = AddBg(proc[p], c)
  BY Zenon
<1>2. DOMAIN proc[p] = Fields
  BY ShapeOf, Zenon
<1>3. c = 0 \/ Acquired(cp.tab, c, proc[p].chan)
  BY <1>1, AnswerAcquired, Zenon
<1>4. /\ DOMAIN a = Fields /\ a.pc = proc[p].pc /\ a.chan = proc[p].chan
  BY <1>1, <1>2, AddBgShape, Zenon
<1>5. /\ \A d \in a.bgs : d \in proc[p].bgs \/ Acquired(cp.tab, d, proc[p].chan)
      /\ a.held = proc[p].held
  BY <1>1, <1>2, <1>3, AddBgModest, Zenon
<1>6. /\ DOMAIN q = Fields /\ q.chan = a.chan /\ q.pc = a.pc /\ q.bgs = a.bgs
      /\ q.held = a.held
  <2>1. q = [a EXCEPT !.count = @ + 1]
    BY <1>1, Zenon
  <2> QED BY <1>4, <2>1 DEF Fields
<1>7. proc[p].pc = pc
  BY Zenon DEF Dequeue
<1> QED
  BY <1>4, <1>5, <1>6, <1>7, Zenon

\* The next request of a mount that has its containers, or asks for more.
LEMMA MountNextLease ==
  ASSUME ProtocolInv, Leased(data), NEW p \in Procs, NEW pc \in {"fetch", "prealloc"},
         Dequeue(p, pc), NEW q, MountNext(p, q),
         DOMAIN q = Fields, q.chan = proc[p].chan,
         \A c \in q.bgs : c \in proc[p].bgs \/ Acquired(cp.tab, c, proc[p].chan),
         q.held = proc[p].held
  PROVE  LeasedNext(data)
<1> DEFINE a == [q EXCEPT !.pc = "prealloc"]
           b == [q EXCEPT !.pc = "health"]
<1>1. /\ DOMAIN a = Fields /\ a.pc = "prealloc" /\ a.chan = q.chan
      /\ a.bgs = q.bgs /\ a.held = q.held
      /\ DOMAIN b = Fields /\ b.pc = "health" /\ b.chan = q.chan
      /\ b.bgs = q.bgs /\ b.held = q.held
  BY Zenon DEF Fields
<1>2. \/ Request(p, a, pool + PutBack(p), "CONTAINER_ALLOC", "NEW")
      \/ Request(p, b, pool + PutBack(p), "HEALTH_CHECK", 0)
  BY Zenon DEF MountNext
<1>3. /\ pc \in DOMAIN Awaited /\ pc # "reserve"
      /\ "CONTAINER_ALLOC" \in PlainOps /\ "HEALTH_CHECK" \in PlainOps
      /\ "prealloc" \notin Stopping \cup {"unreserve"}
      /\ "health" \notin Stopping \cup {"unreserve"}
  BY Zenon DEF Awaited, PlainOps, Stopping
<1> HIDE DEF a, b
<1>4. Modest(proc[p], a, cp.tab) /\ Modest(proc[p], b, cp.tab)
  BY <1>1, <1>3, Zenon DEF Modest
<1>5. CASE Request(p, a, pool + PutBack(p), "CONTAINER_ALLOC", "NEW")
  BY <1>1, <1>3, <1>4, <1>5, ReplyRequestLease, Zenon
<1>6. CASE Request(p, b, pool + PutBack(p), "HEALTH_CHECK", 0)
  BY <1>1, <1>3, <1>4, <1>6, ReplyRequestLease, Zenon
<1> QED
  BY <1>2, <1>5, <1>6, Zenon

\* A container of an earlier run, or none is left.
LEMMA MountFetchedLease ==
  ASSUME ProtocolInv, Leased(data), NEW p \in Procs, MountFetched(p)
  PROVE  LeasedNext(data)
<1>1. PICK q : q = [AddBg(proc[p], Answer(p).ret) EXCEPT !.count = @ + 1]
  BY Zenon
<1>2. /\ Dequeue(p, "fetch")
      /\ \/ Request(p, q, pool + 1, "CONTAINER_ALLOC", "ALLOCATED")
         \/ MountNext(p, q)
  BY <1>1, Zenon DEF MountFetched
<1>3. /\ DOMAIN q = Fields /\ q.chan = proc[p].chan /\ q.pc = "fetch"
      /\ \A c \in q.bgs : c \in proc[p].bgs \/ Acquired(cp.tab, c, proc[p].chan)
      /\ q.held = proc[p].held
  BY <1>1, <1>2, FetchedModest
<1>4. /\ "fetch" \in DOMAIN Awaited /\ "CONTAINER_ALLOC" \in PlainOps
      /\ "fetch" \notin Stopping \cup {"unreserve"} /\ "fetch" # "reserve"
  BY Zenon DEF Awaited, PlainOps, Stopping
<1>5. Modest(proc[p], q, cp.tab)
  BY <1>3, <1>4, Zenon DEF Modest
<1>6. CASE Request(p, q, pool + 1, "CONTAINER_ALLOC", "ALLOCATED")
  BY <1>2, <1>3, <1>4, <1>5, <1>6, ReplyRequestLease, Zenon
<1>7. CASE MountNext(p, q)
  BY <1>2, <1>3, <1>7, MountNextLease, Zenon
<1> QED
  BY <1>2, <1>6, <1>7, Zenon

\* A preallocated container, or a refusal.
LEMMA MountPreallocatedLease ==
  ASSUME ProtocolInv, Leased(data), NEW p \in Procs, MountPreallocated(p)
  PROVE  LeasedNext(data)
<1>1. PICK q : q = [AddBg(proc[p], Answer(p).ret) EXCEPT !.count = @ + 1]
  BY Zenon
<1>2. Dequeue(p, "prealloc") /\ MountNext(p, q)
  BY <1>1, Zenon DEF MountPreallocated
<1>3. /\ DOMAIN q = Fields /\ q.chan = proc[p].chan
      /\ \A c \in q.bgs : c \in proc[p].bgs \/ Acquired(cp.tab, c, proc[p].chan)
      /\ q.held = proc[p].held
  BY <1>1, <1>2, FetchedModest
<1> QED
  BY <1>2, <1>3, MountNextLease, Zenon

\* The health check, and the assertion on the state.
LEMMA MountCheckedLease ==
  ASSUME ProtocolInv, Leased(data), NEW p \in Procs, MountChecked(p)
  PROVE  LeasedNext(data)
<1> DEFINE ok == StateAssert => proc[p].state = "INITIALIZED"
           q == [proc[p] EXCEPT !.pc = IF ok THEN "attach" ELSE "assert_state",
                                !.state = "MOUNTED", !.count = 0]
<1>1. /\ q.pc \in {"attach", "assert_state"} /\ q.chan = proc[p].chan
      /\ q.bgs = proc[p].bgs /\ q.held = proc[p].held
  BY ShapeOf, Zenon DEF Fields
<1>2. Dequeue(p, "health") /\ NoRequest(p, q, pool + 1)
  BY Zenon DEF MountChecked
<1>3. /\ "health" \in DOMAIN Awaited /\ "health" # "reserve"
      /\ \A pc \in {"attach", "assert_state"} : pc \notin Stopping \cup {"unreserve"}
  BY Zenon DEF Awaited, Stopping
<1> HIDE DEF q, ok
<1>4. Modest(proc[p], q, cp.tab)
  BY <1>1, <1>3, SameModest, Zenon
<1> QED
  BY <1>2, <1>3, <1>4, ReplyDoneLease, Zenon

\* A process starts with nothing.
LEMMA MountLease ==
  ASSUME Plain("overlap"), ProtocolInv, Leased(data), NEW p \in Procs, Mount(p)
  PROVE  LeasedNext(data)
<1>1. PICK x : x = Head(ids)
  BY Zenon
<1> DEFINE q == [NoProc EXCEPT !.pc = "buffer", !.chan = x]
<1>2. /\ DOMAIN q = Fields /\ q.pc = "buffer" /\ q.chan = x /\ q.bgs = {} /\ q.held = {}
  BY NoProcFacts, Zenon DEF Fields
<1>3. PICK arg : Request(p, q, pool + 1, "BUFFER_ALLOC", arg)
  BY <1>1, Zenon DEF Mount
<1> HIDE DEF q
<1>4. Clear(p, x)
  BY <1>1, MountClear, Zenon
<1>5. Keeps(proc[p], q, x, cp.tab, send)
  BY <1>2, Zenon DEF Keeps
<1>6. PICK m : m = [op |-> "BUFFER_ALLOC", chan |-> q.chan, arg |-> arg]
  BY Zenon
<1>7. m.op = "BUFFER_ALLOC"
  BY <1>6, Zenon
<1>8. Fits(proc[p], q, m, cp.tab, cp.dirs, data, send)
  BY <1>7, Zenon DEF Fits, RequestOK
<1> QED
  BY <1>2, <1>3, <1>4, <1>5, <1>6, <1>8, RequestLease, Zenon

=============================================================================
