---------------------- MODULE DataPlaneControlProofs ----------------------
(***************************************************************************)
(* Proofs about the reservation table of the control plane in DataPlane,   *)
(* for any number of processes, channels and containers: ControlInv, which *)
(* relates the table to the leases of the processes and to the messages on *)
(* their channels, and that the control plane preserves it when it looks   *)
(* at a request (PollControl).  DataPlaneMountProofs and                   *)
(* DataPlaneLeaseProofs have the steps of the processes and what follows.  *)
(*                                                                         *)
(* A request is looked at long after it is sent, so ControlInv says what   *)
(* the requests and answers on the rings mean for the table: a container   *)
(* that is being given back is still acquired and empty, one that is on    *)
(* its way is acquired already, and a reservation counts until the request *)
(* that gives it back is looked at.  That nothing else is on the channel   *)
(* of the process is ProtocolInv of DataPlaneProofs.                       *)
(***************************************************************************)
EXTENDS DataPlaneProofs, FiniteSetTheorems, WellFoundedInduction

-----------------------------------------------------------------------------
(* The search for a container.                                             *)

\* The least number of a set of numbers is in it.
LEMMA MinIn ==
  ASSUME NEW S, S \subseteq Nat, S # {}
  PROVE  Min(S) \in S
<1> DEFINE R == OpToRel(<, Nat)
<1>1. IsWellFoundedOn(R, Nat)
  BY NatLessThanWellFounded, Zenon
<1>2. \A x, y \in Nat : y < x => <<y, x>> \in R
  BY Zenon DEF OpToRel
<1> HIDE DEF R
<1>3. PICK x \in S : \A y \in S : ~(<<y, x>> \in R)
  BY <1>1, WFMin, Zenon
<1>4. \A y \in S : ~(y < x)
  BY <1>2, <1>3, Zenon
<1>5. \A y \in S : x <= y
  BY <1>4
<1>6. \E z \in S : \A y \in S : z <= y
  BY <1>5, Zenon
<1> QED
  BY <1>6, Zenon DEF Min

\* What the search finds is there, has the owner it looks for, and is free to
\* be taken.
LEMMA FirstFitIs ==
  ASSUME NEW s, s.last \in Containers, NEW o, FirstFit(s, o) # 0
  PROVE  /\ SearchOrder(s)[FirstFit(s, o)] \in Containers
         /\ s.tab[SearchOrder(s)[FirstFit(s, o)]].owner = o
         /\ s.tab[SearchOrder(s)[FirstFit(s, o)]].status = "UNLOCKED"
<1> DEFINE at == {i \in 1..NrContainers : /\ s.tab[SearchOrder(s)[i]].owner = o
                                          /\ s.tab[SearchOrder(s)[i]].status = "UNLOCKED"}
<1>1. at # {} /\ FirstFit(s, o) = Min(at)
  BY Zenon DEF FirstFit
<1>2. at \subseteq Nat
  OBVIOUS
<1>3. FirstFit(s, o) \in at
  <2> HIDE DEF at
  <2> QED BY <1>1, <1>2, MinIn, Zenon
<1>4. \A i \in 1..NrContainers : SearchOrder(s)[i] \in Containers
  BY ControlAssumption DEF SearchOrder, Containers
<1> QED
  BY <1>3, <1>4, Zenon

-----------------------------------------------------------------------------
(* The leases: the invariant.                                              *)

Statuses == {"UNLOCKED", "ACQUIRED", "READ_LOCKED", "WRITE_LOCKED"}

Entries == [owner : ControlOwner..(Channels - 1), status : Statuses, ref : Nat]

\* The control plane has container 0 and no other, a container without an owner
\* is untouched, and the reference count and the status of a container agree.
EntryOK(e, c) ==
  /\ e \in Entries
  /\ e.owner = ControlOwner <=> c = 0
  /\ e.owner = 0 => e.status = "UNLOCKED"
  /\ e.status = "WRITE_LOCKED" => e.ref = 1
  /\ e.status = "READ_LOCKED" => e.ref > 0
  /\ e.ref > 0 => e.status \in {"READ_LOCKED", "WRITE_LOCKED"}

RootsOf(dirs) == {dirs[n] : n \in DOMAIN dirs}

Acquired(tab, c, x) ==
  c \in Containers /\ tab[c].owner = x /\ tab[c].status = "ACQUIRED"

FreeOf(tab) == {c \in Containers : tab[c].owner = 0}

ControlOK(s) ==
  /\ DOMAIN s = CpFields
  /\ s.stop = "none"
  /\ s.last \in Containers
  /\ DOMAIN s.tab = Containers
  /\ \A c \in Containers : EntryOK(s.tab[c], c)
  /\ s.free = Cardinality(FreeOf(s.tab))
  /\ \A c \in RootsOf(s.dirs) : c \in Containers /\ s.tab[c].owner # 0

\* What a request says of the container it names.
RequestOK(m, tab, dirs, dt) ==
  /\ m.op = "CONTAINER_RELEASE" =>
       Acquired(tab, m.arg, m.chan) /\ dt[m.arg] = {} /\ m.arg \notin RootsOf(dirs)
  /\ m.op = "RESERVATION_ACQUIRE" => m.arg[1] \in RootsOf(dirs)
  /\ m.op = "RESERVATION_RELEASE" => m.arg \in Containers

\* The containers of a live process, those on their way to it included, and
\* what it has given up.
LeaseOK(q, tab, rv, sd) ==
  /\ \A c \in q.bgs : Acquired(tab, c, q.chan)
  /\ q.pc \in Stopping => q.bgs = {} /\ q.held = {}
  /\ q.pc = "unreserve" => q.held = {}
  /\ \A i \in 1..Len(rv) : rv[i].chan = q.chan =>
       /\ rv[i].op = "CONTAINER_RELEASE" => rv[i].arg \notin q.bgs
       /\ rv[i].op = "RESERVATION_ACQUIRE" => q.held = {rv[i].arg[1]}
  /\ q.pc \in {"fetch", "prealloc", "need"} /\ sd[q.chan] # <<>> =>
       sd[q.chan][1].ret = 0 \/ Acquired(tab, sd[q.chan][1].ret, q.chan)

\* The reservations of c that count: those of live processes, and those whose
\* release is on its way.
Claims(q, sd, c) ==
  /\ Live(q)
  /\ c \in q.held
  /\ q.pc = "reserve" => sd[q.chan] # <<>> /\ sd[q.chan][1].ret = 0

Releases(m, c) == m.op = "RESERVATION_RELEASE" /\ m.arg = c

Claimants(c, P, rv, sd) ==
  {x \in ChannelIds : \/ \E p \in Procs : P[p].chan = x /\ Claims(P[p], sd, c)
                      \/ \E i \in 1..Len(rv) : rv[i].chan = x /\ Releases(rv[i], c)}

LeaseInv(tab, dirs, dt, P, rv, sd) ==
  /\ DOMAIN dt = Containers
  /\ \A c \in Containers : tab[c].owner = 0 => dt[c] = {}
  /\ \A i \in 1..Len(rv) : RequestOK(rv[i], tab, dirs, dt)
  /\ \A p \in Procs : Live(P[p]) => LeaseOK(P[p], tab, rv, sd)
  /\ \A c \in Containers : Cardinality(Claimants(c, P, rv, sd)) <= tab[c].ref

ControlInv ==
  /\ ondisk \in {"FORMATTED", "MOUNTED", "UMOUNTED", "CRASHED"}
  /\ primary = "running" =>
       /\ ondisk = "MOUNTED"
       /\ ControlOK(cp)
       /\ LeaseInv(cp.tab, cp.dirs, data, proc, recv, send)
  /\ primary = "off" /\ ondisk = "FORMATTED" =>
       cp = Formatted /\ data = [c \in Containers |-> {}]

-----------------------------------------------------------------------------
(* What a request does to the table.                                       *)

\* One container, at most one change.
EntryStep(e, e2, m, c) ==
  \/ e2 = e
  \/ /\ m.op \in {"APP_REGISTER", "CONTAINER_ALLOC"}
     /\ e.owner \in {0, m.chan} /\ e.status = "UNLOCKED"
     /\ e2.owner = m.chan /\ e2.status \in {"UNLOCKED", "ACQUIRED"} /\ e2.ref = 0
  \/ /\ m.op = "CONTAINER_RELEASE" /\ m.arg = c
     /\ e.owner = m.chan /\ e.ref = 0
     /\ e2 = FreeEntry
  \/ /\ m.op = "APP_UNREGISTER"
     /\ e.owner = m.chan /\ e.ref = 0
     /\ e2.owner = e.owner /\ e2.status = "UNLOCKED" /\ e2.ref = 0
  \/ /\ m.op = "RESERVATION_ACQUIRE" /\ m.arg[1] = c
     /\ e.owner # 0 /\ e2.owner = e.owner /\ e2.ref = e.ref + 1
     /\ \/ e.status = "UNLOCKED" /\ e2.status \in {"READ_LOCKED", "WRITE_LOCKED"}
        \/ e.status = "READ_LOCKED" /\ e2.status = "READ_LOCKED"
  \/ /\ m.op = "RESERVATION_RELEASE" /\ m.arg = c
     /\ e2.owner = e.owner /\ e2.ref = e.ref - 1
     /\ \/ e.status = "WRITE_LOCKED" /\ e2.status = "UNLOCKED"
        \/ /\ e.status = "READ_LOCKED"
           /\ e2.status = IF e.ref = 1 THEN "UNLOCKED" ELSE "READ_LOCKED"

\* The entry stays in order.
LEMMA EntryStepOK ==
  ASSUME NEW e, NEW e2 \in Entries, NEW m, NEW c, m.chan \in ChannelIds,
         EntryOK(e, c), EntryStep(e, e2, m, c)
  PROVE  EntryOK(e2, c)
<1>1. /\ e.owner \in Int /\ e.status \in Statuses /\ e.ref \in Nat
      /\ e2.owner \in Int /\ e2.status \in Statuses /\ e2.ref \in Nat
  BY ControlAssumption DEF EntryOK, Entries, ControlOwner
<1>2. m.chan \in Int /\ m.chan > 0
  BY ControlAssumption DEF ChannelIds
<1>3. FreeEntry.owner = 0 /\ FreeEntry.status = "UNLOCKED" /\ FreeEntry.ref = 0
  BY Zenon DEF FreeEntry
<1> QED
  BY <1>1, <1>2, <1>3 DEF EntryOK, EntryStep, Statuses, ControlOwner

\* The table goes from s to t; the free containers stay counted.
TableStep(s, t, m) ==
  /\ DOMAIN t = CpFields /\ t.stop = "none"
  /\ DOMAIN t.tab = Containers
  /\ \A c \in Containers : t.tab[c] \in Entries /\ EntryStep(s.tab[c], t.tab[c], m, c)
  /\ t.free = Cardinality(FreeOf(t.tab))
  /\ t.last \in Containers

\* Nothing happens to the table.
LEMMA SameTable ==
  ASSUME NEW s, ControlOK(s), NEW t, NEW m, NEW dirs,
         Handled(s, t, s.tab, s.free, dirs), t.last = s.last
  PROVE  TableStep(s, t, m)
<1>1. \A c \in Containers : s.tab[c] \in Entries /\ EntryStep(s.tab[c], s.tab[c], m, c)
  BY Zenon DEF ControlOK, EntryOK, EntryStep
<1> QED
  BY <1>1, Zenon DEF TableStep, Handled, ControlOK

\* The free containers are finitely many.
LEMMA FreeFinite ==
  ASSUME NEW tab
  PROVE  IsFiniteSet(FreeOf(tab)) /\ Cardinality(FreeOf(tab)) \in Nat
<1>1. IsFiniteSet(Containers)
  BY ControlAssumption, FS_Interval DEF Containers
<1>2. FreeOf(tab) \in SUBSET Containers
  BY Zenon DEF FreeOf
<1>3. IsFiniteSet(FreeOf(tab))
  BY <1>1, <1>2, FS_Subset, Zenon
<1> QED
  BY <1>3, FS_CardinalityType, Zenon

\* One entry changes; the count follows its owner.
LEMMA OneEntry ==
  ASSUME NEW s, ControlOK(s), NEW t, NEW m, NEW dirs, NEW c \in Containers, NEW tab, NEW free,
         Handled(s, t, tab, free, dirs), t.last \in Containers,
         DOMAIN tab = Containers, \A d \in Containers \ {c} : tab[d] = s.tab[d],
         tab[c] \in Entries, EntryStep(s.tab[c], tab[c], m, c),
         free = IF s.tab[c].owner = 0 /\ tab[c].owner # 0 THEN s.free - 1
                ELSE IF s.tab[c].owner # 0 /\ tab[c].owner = 0 THEN s.free + 1
                ELSE s.free
  PROVE  TableStep(s, t, m)
<1>1. t.tab = tab /\ t.free = free /\ DOMAIN t = CpFields /\ t.stop = "none"
  BY Zenon DEF Handled, ControlOK
<1>2. \A d \in Containers : tab[d] \in Entries /\ EntryStep(s.tab[d], tab[d], m, d)
  <2>1. \A d \in Containers : s.tab[d] \in Entries
    BY Zenon DEF ControlOK, EntryOK
  <2>2. \A d \in Containers \ {c} : tab[d] \in Entries /\ EntryStep(s.tab[d], tab[d], m, d)
    BY <2>1, Zenon DEF EntryStep
  <2> QED BY <2>2, Zenon
<1>3. free = Cardinality(FreeOf(tab))
  <2>0. s.free = Cardinality(FreeOf(s.tab)) /\ IsFiniteSet(FreeOf(s.tab))
    BY FreeFinite, Zenon DEF ControlOK
  <2>1. CASE s.tab[c].owner = 0 /\ tab[c].owner # 0
    <3>1. FreeOf(tab) = FreeOf(s.tab) \ {c} /\ c \in FreeOf(s.tab)
      <4>1. \A d \in Containers \ {c} : tab[d].owner = s.tab[d].owner
        BY Zenon
      <4> QED BY <2>1, <4>1 DEF FreeOf
    <3> QED BY <2>0, <2>1, <3>1, FS_RemoveElement, Zenon
  <2>2. CASE s.tab[c].owner # 0 /\ tab[c].owner = 0
    <3>1. FreeOf(tab) = FreeOf(s.tab) \cup {c} /\ c \notin FreeOf(s.tab)
      BY <2>2, Zenon DEF FreeOf
    <3> QED BY <2>0, <2>2, <3>1, FS_AddElement, Zenon
  <2>3. CASE s.tab[c].owner = 0 <=> tab[c].owner = 0
    <3>1. FreeOf(tab) = FreeOf(s.tab)
      BY <2>3, Zenon DEF FreeOf
    <3> QED BY <2>0, <2>3, <3>1, Zenon
  <2> QED BY <2>1, <2>2, <2>3, Zenon
<1> QED
  BY <1>1, <1>2, <1>3, Zenon DEF TableStep

\* A control plane in order has the shape that its handlers need.
LEMMA ControlShape ==
  ASSUME NEW s, ControlOK(s)
  PROVE  /\ CpShape(s)
         /\ \A c \in Containers : /\ s.tab[c] \in Entries
                                  /\ DOMAIN s.tab[c] = EntryFields
                                  /\ s.tab[c].owner \in Int /\ s.tab[c].ref \in Nat
<1>1. DOMAIN s = CpFields /\ DOMAIN s.tab = Containers
  BY Zenon DEF ControlOK
<1>2. \A c \in Containers : s.tab[c] \in Entries
  BY Zenon DEF ControlOK, EntryOK
<1>3. \A e \in Entries : DOMAIN e = EntryFields /\ e.owner \in Int /\ e.ref \in Nat
  BY ControlAssumption DEF Entries, EntryFields, ControlOwner
<1> QED
  BY <1>1, <1>2, <1>3, Zenon DEF CpShape

\* An entry for channel x.
LEMMA NewEntry ==
  ASSUME NEW x \in ChannelIds, NEW st \in Statuses, NEW v,
         v = [owner |-> x, status |-> st, ref |-> 0]
  PROVE  v \in Entries /\ v.owner = x /\ v.status = st /\ v.ref = 0 /\ x # 0
<1>1. x \in ControlOwner..(Channels - 1) /\ x # 0
  BY ControlAssumption DEF ChannelIds, ControlOwner
<1> QED
  BY <1>1, Zenon DEF Entries

\* Container c, found as one of owner o, goes to the channel of m.
HandedOut(s, t, m, c, o, st, v, dirs) ==
  /\ m.chan \in ChannelIds /\ o \in {0, m.chan}
  /\ m.op \in {"APP_REGISTER", "CONTAINER_ALLOC"}
  /\ st \in {"UNLOCKED", "ACQUIRED"}
  /\ c = SearchOrder(s)[FirstFit(s, o)] /\ FirstFit(s, o) # 0
  /\ v = [owner |-> m.chan, status |-> st, ref |-> 0]
  /\ Handled(s, t, [s.tab EXCEPT ![c] = v], IF o = 0 THEN s.free - 1 ELSE s.free, dirs)
  /\ t.last = c

\* A container is handed out.
LEMMA GivenStep ==
  ASSUME NEW s, ControlOK(s), NEW t, NEW m, NEW c, NEW o, NEW v, NEW st, NEW dirs,
         HandedOut(s, t, m, c, o, st, v, dirs)
  PROVE  /\ TableStep(s, t, m)
         /\ c \in Containers /\ s.tab[c].owner = o
         /\ t.tab[c] = v
         /\ v.owner = m.chan /\ v.status = st /\ m.chan # 0
<1> USE DEF HandedOut
<1>1. c \in Containers /\ s.tab[c].owner = o /\ s.tab[c].status = "UNLOCKED"
  <2>1. s.last \in Containers
    BY Zenon DEF ControlOK
  <2>2. /\ SearchOrder(s)[FirstFit(s, o)] \in Containers
        /\ s.tab[SearchOrder(s)[FirstFit(s, o)]].owner = o
        /\ s.tab[SearchOrder(s)[FirstFit(s, o)]].status = "UNLOCKED"
    BY <2>1, FirstFitIs, Zenon
  <2> QED BY <2>2
<1>2. /\ v \in Entries /\ v.owner = m.chan /\ v.status = st /\ v.ref = 0 /\ m.chan # 0
  BY NewEntry DEF Statuses
<1> DEFINE tab == [s.tab EXCEPT ![c] = v]
<1>3. DOMAIN tab = Containers /\ tab[c] = v /\ \A d \in Containers \ {c} : tab[d] = s.tab[d]
  BY <1>1, Zenon DEF ControlOK
<1>4. EntryStep(s.tab[c], v, m, c)
  BY <1>1, <1>2, Zenon DEF EntryStep
<1>5. t.tab = tab
  BY Zenon DEF Handled
<1> DEFINE free == IF o = 0 THEN s.free - 1 ELSE s.free
<1>6. Handled(s, t, tab, free, dirs)
  BY Zenon
<1>7. free = IF s.tab[c].owner = 0 /\ tab[c].owner # 0 THEN s.free - 1
             ELSE IF s.tab[c].owner # 0 /\ tab[c].owner = 0 THEN s.free + 1
             ELSE s.free
  BY <1>1, <1>2, <1>3, Zenon
<1> HIDE DEF tab, free
<1>8. TableStep(s, t, m)
  BY <1>1, <1>2, <1>3, <1>4, <1>6, <1>7, OneEntry, Zenon
<1> QED
  BY <1>1, <1>2, <1>3, <1>5, <1>8, Zenon

\* A status and a reference count that a request may leave an entry with.
MayBecome(e, st, ref, m, c) ==
  /\ c \in Containers /\ st \in Statuses /\ ref \in Nat
  /\ \A e2 \in Entries : e2.owner = e.owner /\ e2.status = st /\ e2.ref = ref
                           => EntryStep(e, e2, m, c)

\* A reservation begins or ends.
LEMMA ReservationTable ==
  ASSUME NEW s, ControlOK(s), NEW t, NEW m, NEW c, NEW st, NEW ref,
         Reservation(s, t, c, st, ref),
         MayBecome(s.tab[c], st, ref, m, c)
  PROVE  /\ TableStep(s, t, m)
         /\ t.tab[c].ref = ref
<1>0. c \in Containers /\ st \in Statuses /\ ref \in Nat
  BY Zenon DEF MayBecome
<1>1. PICK tab : /\ tab = [s.tab EXCEPT ![c].status = st, ![c].ref = ref]
                 /\ Handled(s, t, tab, s.free, s.dirs)
  BY Zenon DEF Reservation
<1>2. DOMAIN s.tab = Containers /\ s.tab[c] \in Entries
  BY <1>0, ControlShape, Zenon DEF ControlOK
<1>3. /\ DOMAIN tab = Containers /\ \A d \in Containers \ {c} : tab[d] = s.tab[d]
      /\ tab[c] = [s.tab[c] EXCEPT !.status = st, !.ref = ref]
  BY <1>0, <1>1, <1>2
<1>4. /\ tab[c] \in Entries /\ tab[c].owner = s.tab[c].owner
      /\ tab[c].status = st /\ tab[c].ref = ref
  BY <1>0, <1>2, <1>3, Zenon DEF Entries
<1>5. EntryStep(s.tab[c], tab[c], m, c)
  BY <1>4, Zenon DEF MayBecome
<1>6. t.last \in Containers /\ t.tab = tab
  BY <1>1, Zenon DEF Reservation, Quiet, ControlOK, Handled
<1>7. s.free = IF s.tab[c].owner = 0 /\ tab[c].owner # 0 THEN s.free - 1
               ELSE IF s.tab[c].owner # 0 /\ tab[c].owner = 0 THEN s.free + 1
               ELSE s.free
  BY <1>4, Zenon
<1>8. TableStep(s, t, m)
  BY <1>0, <1>1, <1>3, <1>4, <1>5, <1>6, <1>7, OneEntry, Zenon
<1> QED
  BY <1>4, <1>6, <1>8, Zenon

\* The directories: none goes, and a new one is in a container of its own or
\* in that of the control plane.
DirsStep(s, t) ==
  /\ RootsOf(s.dirs) \subseteq RootsOf(t.dirs)
  /\ \A c \in RootsOf(t.dirs) \ RootsOf(s.dirs) :
       c = 0 \/ (c \in Containers /\ s.tab[c].owner = 0 /\ t.tab[c].owner # 0)

\* One more directory.
LEMMA WithDirRoots ==
  ASSUME NEW dirs, NEW name, name \notin DOMAIN dirs, NEW c
  PROVE  /\ RootsOf(dirs) \subseteq RootsOf(WithDir(dirs, name, c))
         /\ RootsOf(WithDir(dirs, name, c)) \subseteq RootsOf(dirs) \cup {c}
<1> DEFINE d2 == WithDir(dirs, name, c)
<1>1. /\ DOMAIN d2 = DOMAIN dirs \cup {name} /\ d2[name] = c
      /\ \A n \in DOMAIN dirs : d2[n] = dirs[n]
  BY Zenon DEF WithDir
<1> HIDE DEF d2
<1> QED
  BY <1>1, Zenon DEF RootsOf, d2

\* The answers that say something of a container.
AnswerStep(s, t, m, ret) ==
  /\ m.op = "CONTAINER_ALLOC" => ret = 0 \/ Acquired(t.tab, ret, m.chan)
  /\ m.op = "RESERVATION_ACQUIRE" /\ ret = 0 =>
       t.tab[m.arg[1]].ref = s.tab[m.arg[1]].ref + 1
  /\ m.op = "RESERVATION_RELEASE" /\ s.tab[m.arg].ref > 0 =>
       t.tab[m.arg].ref = s.tab[m.arg].ref - 1

\* The containers that a request names are there.
NamesOK(s, m) ==
  /\ m.op \in Ops
  /\ m.chan \in ChannelIds
  /\ m.op = "CONTAINER_RELEASE" => m.arg \in Containers
  /\ m.op = "RESERVATION_ACQUIRE" => m.arg[1] \in Containers /\ s.tab[m.arg[1]].owner # 0
  /\ m.op = "RESERVATION_RELEASE" => m.arg \in Containers

PollEffect(s, t, m, ret) ==
  \/ t.stop # "none"
  \/ TableStep(s, t, m) /\ DirsStep(s, t) /\ AnswerStep(s, t, m, ret)

\* Nothing happens.
LEMMA NothingPolled ==
  ASSUME NEW s, ControlOK(s), NEW t, NEW m, NEW ret,
         Handled(s, t, s.tab, s.free, s.dirs), t.last = s.last,
         AnswerStep(s, t, m, ret)
  PROVE  PollEffect(s, t, m, ret)
<1>1. TableStep(s, t, m)
  BY SameTable, Zenon
<1>2. DirsStep(s, t)
  BY Zenon DEF DirsStep, Handled
<1> QED
  BY <1>1, <1>2, Zenon DEF PollEffect

\* The state that is left as it was.
LEMMA SamePolled ==
  ASSUME NEW s, ControlOK(s), NEW m, NEW ret, AnswerStep(s, s, m, ret)
  PROVE  PollEffect(s, s, m, ret)
<1>1. Handled(s, s, s.tab, s.free, s.dirs)
  BY Zenon DEF Handled, ControlOK
<1> QED
  BY <1>1, NothingPolled, Zenon

\* APP_REGISTER.
LEMMA AddPolled ==
  ASSUME NEW s, ControlOK(s), NEW m, NamesOK(s, m), m.op = "APP_REGISTER",
         NEW x, x = m.chan, NEW name,
         NEW t, t = AppManageTableAdd(s, x, name).s, NEW ret
  PROVE  PollEffect(s, t, m, ret)
<1>1. CpShape(s)
  BY ControlShape, Zenon
<1>2. AnswerStep(s, t, m, ret)
  BY Zenon DEF AnswerStep
<1>3. \/ Handled(s, t, s.tab, s.free, s.dirs) /\ Quiet(s, t)
      \/ t.stop # "none"
      \/ /\ name \notin DOMAIN s.dirs
         /\ Handled(s, t, s.tab, s.free, WithDir(s.dirs, name, 0))
         /\ Quiet(s, t)
      \/ \E c, v :
           /\ name \notin DOMAIN s.dirs
           /\ c = SearchOrder(s)[FirstFit(s, 0)] /\ FirstFit(s, 0) # 0
           /\ v = [owner |-> x, status |-> "UNLOCKED", ref |-> 0]
           /\ Handled(s, t, [s.tab EXCEPT ![c] = v], s.free - 1, WithDir(s.dirs, name, c))
           /\ Stored(s, t)
           /\ t.last = c
  <2>1. AddResult(s, t, x, name)
    BY <1>1, AddEffect, Zenon
  <2> QED BY <2>1, Zenon DEF AddResult
<1>4. CASE Handled(s, t, s.tab, s.free, s.dirs) /\ Quiet(s, t)
  BY <1>2, <1>4, NothingPolled, Zenon DEF Quiet
<1>5. CASE t.stop # "none"
  BY <1>5, Zenon DEF PollEffect
<1>6. CASE /\ name \notin DOMAIN s.dirs
           /\ Handled(s, t, s.tab, s.free, WithDir(s.dirs, name, 0))
           /\ Quiet(s, t)
  <2>1. TableStep(s, t, m)
    BY <1>6, SameTable, Zenon DEF Quiet
  <2>2. t.dirs = WithDir(s.dirs, name, 0)
    BY <1>6, Zenon DEF Handled
  <2>3. DirsStep(s, t)
    BY <1>6, <2>2, WithDirRoots DEF DirsStep
  <2> QED BY <1>2, <2>1, <2>3, Zenon DEF PollEffect
<1>7. ASSUME NEW c, NEW v,
             name \notin DOMAIN s.dirs,
             c = SearchOrder(s)[FirstFit(s, 0)], FirstFit(s, 0) # 0,
             v = [owner |-> x, status |-> "UNLOCKED", ref |-> 0],
             Handled(s, t, [s.tab EXCEPT ![c] = v], s.free - 1, WithDir(s.dirs, name, c)),
             t.last = c
      PROVE  PollEffect(s, t, m, ret)
  <2>0. PICK o : o = 0
    BY Zenon
  <2>1. HandedOut(s, t, m, c, o, "UNLOCKED", v, WithDir(s.dirs, name, c))
    BY <1>7, <2>0, Zenon DEF NamesOK, HandedOut
  <2>2. /\ TableStep(s, t, m) /\ c \in Containers /\ s.tab[c].owner = o /\ t.tab[c] = v
        /\ v.owner = m.chan /\ m.chan # 0
    BY <2>1, GivenStep
  <2>3. s.tab[c].owner = 0 /\ v.owner # 0
    BY <2>0, <2>2, Zenon
  <2>4. t.dirs = WithDir(s.dirs, name, c)
    BY <1>7, Zenon DEF Handled
  <2>5. DirsStep(s, t)
    <3>1. PICK d : d = s.dirs
      BY Zenon
    <3>2. /\ RootsOf(d) \subseteq RootsOf(WithDir(d, name, c))
          /\ RootsOf(WithDir(d, name, c)) \subseteq RootsOf(d) \cup {c}
      BY <1>7, <3>1, WithDirRoots, Zenon
    <3> QED BY <2>2, <2>3, <2>4, <3>1, <3>2, Zenon DEF DirsStep
  <2> QED BY <1>2, <2>2, <2>5, Zenon DEF PollEffect
<1> QED
  BY <1>3, <1>4, <1>5, <1>6, <1>7, Zenon

\* APP_UNREGISTER.
LEMMA RemovePolled ==
  ASSUME NEW s, ControlOK(s), NEW m, NamesOK(s, m), m.op = "APP_UNREGISTER",
         NEW t, t = AppManageTableRemove(s, m.chan).s, NEW ret
  PROVE  PollEffect(s, t, m, ret)
<1>1. CpShape(s)
  BY ControlShape, Zenon
<1>2. AnswerStep(s, t, m, ret) /\ AnswerStep(s, s, m, ret)
  BY Zenon DEF AnswerStep
<1> DEFINE r == AppManageTableRemove(s, m.chan)
<1>3. CASE r = [s |-> s, ret |-> -1]
  <2>1. t = s
    BY <1>3
  <2> QED BY <1>2, <2>1, SamePolled, Zenon
<1>4. CASE r # [s |-> s, ret |-> -1]
  <2>1. PICK tab : /\ Unlocked(s.tab, tab, m.chan)
                   /\ Handled(s, t, tab, s.free, s.dirs)
                   /\ t.last = s.last
    BY <1>1, <1>4, RemoveEffect, Zenon
  <2>2. /\ t.tab = tab /\ t.free = s.free /\ t.dirs = s.dirs /\ DOMAIN t = CpFields
        /\ t.stop = "none" /\ t.last \in Containers /\ DOMAIN tab = Containers
    BY <2>1, Zenon DEF Handled, ControlOK, Unlocked
  <2>3. ASSUME NEW c \in Containers
        PROVE  /\ tab[c] \in Entries /\ EntryStep(s.tab[c], tab[c], m, c)
               /\ tab[c].owner = s.tab[c].owner
    <3>1. s.tab[c] \in Entries
      BY ControlShape, Zenon
    <3>2. CASE tab[c] = s.tab[c]
      BY <3>1, <3>2, Zenon DEF EntryStep
    <3>3. CASE tab[c] # s.tab[c]
      <4>1. /\ s.tab[c].owner = m.chan /\ s.tab[c].ref = 0
            /\ tab[c] = [s.tab[c] EXCEPT !.status = "UNLOCKED"]
        BY <2>1, <3>3, Zenon DEF Unlocked
      <4>2. /\ tab[c] \in Entries /\ tab[c].owner = s.tab[c].owner
            /\ tab[c].status = "UNLOCKED" /\ tab[c].ref = 0
        BY <3>1, <4>1, Zenon DEF Entries, Statuses
      <4> QED BY <4>1, <4>2, Zenon DEF EntryStep
    <3> QED BY <3>2, <3>3, Zenon
  <2>4. FreeOf(tab) = FreeOf(s.tab)
    BY <2>3, Zenon DEF FreeOf
  <2>5. TableStep(s, t, m)
    BY <2>2, <2>3, <2>4, Zenon DEF TableStep, ControlOK
  <2>6. DirsStep(s, t)
    BY <2>2, Zenon DEF DirsStep
  <2> QED BY <1>2, <2>5, <2>6, Zenon DEF PollEffect
<1> QED
  BY <1>3, <1>4, Zenon

\* CONTAINER_ALLOC.
LEMMA AllocPolled ==
  ASSUME NEW s, ControlOK(s), NEW m, NamesOK(s, m), m.op = "CONTAINER_ALLOC",
         NEW x, x = m.chan,
         NEW r, r = AllocNew(s, x, "ACQUIRED") \/ r = AllocAllocated(s, x, "ACQUIRED")
  PROVE  PollEffect(s, r.s, m, r.ret)
<1>1. CpShape(s) /\ m.chan \in ChannelIds
  BY ControlShape, Zenon DEF NamesOK
<1>2. CASE r = [s |-> s, ret |-> 0]
  <2>1. r.s = s /\ r.ret = 0
    BY <1>2, Zenon
  <2>2. AnswerStep(s, s, m, 0)
    BY Zenon DEF AnswerStep
  <2> QED BY <2>1, <2>2, SamePolled, Zenon
<1>3. CASE r.s.stop # "none"
  BY <1>3, Zenon DEF PollEffect
<1>4. ASSUME NEW c, NEW o, NEW v, r.ret = c,
             HandedOut(s, r.s, m, c, o, "ACQUIRED", v, s.dirs)
      PROVE  PollEffect(s, r.s, m, r.ret)
  <2>1. /\ TableStep(s, r.s, m) /\ c \in Containers /\ r.s.tab[c] = v
        /\ v.owner = m.chan /\ v.status = "ACQUIRED"
    BY <1>4, GivenStep
  <2>2. r.s.dirs = s.dirs
    BY <1>4, Zenon DEF HandedOut, Handled
  <2>3. DirsStep(s, r.s)
    BY <2>2, Zenon DEF DirsStep
  <2>4. AnswerStep(s, r.s, m, r.ret)
    BY <1>4, <2>1, Zenon DEF AnswerStep, Acquired
  <2> QED BY <2>1, <2>3, <2>4, Zenon DEF PollEffect
<1>5. CASE r = AllocNew(s, x, "ACQUIRED")
  <2>1. ASSUME NEW c, Given(s, r, 0, x, "ACQUIRED", c)
        PROVE  PollEffect(s, r.s, m, r.ret)
    <3>1. PICK v : /\ v = [owner |-> x, status |-> "ACQUIRED", ref |-> 0]
                   /\ Handled(s, r.s, [s.tab EXCEPT ![c] = v], s.free - 1, s.dirs)
      BY <2>1, Zenon DEF Given
    <3>2. /\ r.ret = c /\ c = SearchOrder(s)[FirstFit(s, 0)] /\ FirstFit(s, 0) # 0
          /\ r.s.last = c
      BY <2>1, Zenon DEF Given
    <3>3. HandedOut(s, r.s, m, c, 0, "ACQUIRED", v, s.dirs)
      BY <1>1, <3>1, <3>2, Zenon DEF HandedOut
    <3> QED BY <1>4, <3>2, <3>3, Zenon
  <2>2. \/ r = [s |-> s, ret |-> 0]
        \/ r.s.stop # "none"
        \/ \E c : Given(s, r, 0, x, "ACQUIRED", c)
    BY <1>1, <1>5, AllocNewEffect, Zenon
  <2> QED BY <1>2, <1>3, <2>1, <2>2, Zenon
<1>6. CASE r = AllocAllocated(s, x, "ACQUIRED")
  <2>1. CASE r # [s |-> s, ret |-> 0] /\ r.s.stop = "none"
    <3>1. PICK c, tab :
            /\ r.ret = c /\ c = SearchOrder(s)[FirstFit(s, x)] /\ FirstFit(s, x) # 0
            /\ tab = [s.tab EXCEPT ![c].status = "ACQUIRED", ![c].ref = 0]
            /\ Handled(s, r.s, tab, s.free, s.dirs)
            /\ r.s.last = c
      BY <1>1, <1>6, <2>1, AllocAllocatedEffect, Zenon
    <3>2. c \in Containers /\ s.tab[c].owner = x
      <4>1. s.last \in Containers
        BY Zenon DEF ControlOK
      <4>2. /\ SearchOrder(s)[FirstFit(s, x)] \in Containers
            /\ s.tab[SearchOrder(s)[FirstFit(s, x)]].owner = x
        BY <3>1, <4>1, FirstFitIs, Zenon
      <4> QED BY <3>1, <4>2
    <3>3. PICK v : v = [owner |-> x, status |-> "ACQUIRED", ref |-> 0]
      BY Zenon
    <3>4. s.tab[c] \in Entries /\ DOMAIN s.tab = Containers
      BY <3>2, ControlShape, Zenon DEF ControlOK
    <3>5. [s.tab[c] EXCEPT !.status = "ACQUIRED", !.ref = 0] = v
      <4>1. ASSUME NEW e \in Entries, e.owner = x
            PROVE  [e EXCEPT !.status = "ACQUIRED", !.ref = 0]
                     = [owner |-> x, status |-> "ACQUIRED", ref |-> 0]
        <5> DEFINE f == [e EXCEPT !.status = "ACQUIRED", !.ref = 0]
        <5>1. f \in Entries /\ f.owner = x /\ f.status = "ACQUIRED" /\ f.ref = 0
          BY <4>1 DEF Entries, Statuses
        <5> HIDE DEF f
        <5>2. f = [owner |-> x, status |-> "ACQUIRED", ref |-> 0]
          BY <5>1 DEF Entries
        <5> QED BY <5>2, Zenon DEF f
      <4> QED BY <3>2, <3>3, <3>4, <4>1, Zenon
    <3>6. tab = [s.tab EXCEPT ![c] = v]
      <4>1. /\ DOMAIN tab = Containers /\ \A d \in Containers \ {c} : tab[d] = s.tab[d]
            /\ tab[c] = [s.tab[c] EXCEPT !.status = "ACQUIRED", !.ref = 0]
        BY <3>1, <3>2, <3>4, Zenon
      <4>2. \A d \in Containers : tab[d] = [s.tab EXCEPT ![c] = v][d]
        BY <3>2, <3>4, <3>5, <4>1, Zenon
      <4>3. tab = [d \in Containers |-> tab[d]]
        BY <3>1, <3>4, Zenon
      <4>4. [s.tab EXCEPT ![c] = v] = [d \in Containers |-> [s.tab EXCEPT ![c] = v][d]]
        BY <3>4, Zenon
      <4> QED BY <4>2, <4>3, <4>4, Zenon
    <3>7. x # 0
      BY <1>1, ControlAssumption DEF ChannelIds
    <3>8. HandedOut(s, r.s, m, c, x, "ACQUIRED", v, s.dirs)
      BY <1>1, <3>1, <3>3, <3>6, <3>7, Zenon DEF HandedOut
    <3> QED BY <1>4, <3>1, <3>8, Zenon
  <2> QED BY <1>2, <1>3, <2>1, Zenon
<1> QED
  BY <1>5, <1>6, Zenon

\* CONTAINER_RELEASE.
LEMMA ReleasePolled ==
  ASSUME NEW s, ControlOK(s), NEW m, NamesOK(s, m), m.op = "CONTAINER_RELEASE",
         NEW x, x = m.chan, NEW c, c = m.arg,
         NEW r, r = ContainerRelease(s, x, c)
  PROVE  PollEffect(s, r.s, m, r.ret)
<1>1. CpShape(s) /\ m.chan \in ChannelIds /\ c \in Containers
  BY ControlShape, Zenon DEF NamesOK
<1>2. AnswerStep(s, r.s, m, r.ret) /\ AnswerStep(s, s, m, r.ret)
  BY Zenon DEF AnswerStep
<1>3. CASE r = [s |-> s, ret |-> -1]
  <2>1. r.s = s
    BY <1>3
  <2> QED BY <1>2, <2>1, SamePolled, Zenon
<1>4. CASE r # [s |-> s, ret |-> -1]
  <2>1. /\ s.tab[c].owner = x /\ s.tab[c].ref = 0
        /\ Handled(s, r.s, [s.tab EXCEPT ![c] = FreeEntry], s.free + 1, s.dirs)
        /\ r.s.last = s.last
    BY <1>1, <1>4, ReleaseEffect
  <2>2. FreeEntry \in Entries /\ FreeEntry.owner = 0 /\ x # 0
    <3>1. 0 \in ControlOwner..(Channels - 1) /\ x # 0 /\ 0 \in Nat
      BY <1>1, ControlAssumption DEF ControlOwner, ChannelIds
    <3> QED BY <3>1, Zenon DEF FreeEntry, Entries, Statuses
  <2> DEFINE tab == [s.tab EXCEPT ![c] = FreeEntry]
             free == s.free + 1
  <2>3. /\ DOMAIN tab = Containers /\ tab[c] = FreeEntry
        /\ \A d \in Containers \ {c} : tab[d] = s.tab[d]
    BY <1>1, Zenon DEF ControlOK
  <2>4. EntryStep(s.tab[c], FreeEntry, m, c)
    BY <2>1, Zenon DEF EntryStep
  <2>5. Handled(s, r.s, tab, free, s.dirs) /\ r.s.last \in Containers
    BY <2>1, Zenon DEF ControlOK
  <2>6. free = IF s.tab[c].owner = 0 /\ tab[c].owner # 0 THEN s.free - 1
               ELSE IF s.tab[c].owner # 0 /\ tab[c].owner = 0 THEN s.free + 1
               ELSE s.free
    BY <2>1, <2>2, <2>3, Zenon
  <2> HIDE DEF tab, free
  <2>7. TableStep(s, r.s, m)
    BY <1>1, <2>2, <2>3, <2>4, <2>5, <2>6, OneEntry, Zenon
  <2>8. DirsStep(s, r.s)
    BY <2>5, Zenon DEF DirsStep, Handled
  <2> QED BY <1>2, <2>7, <2>8, Zenon DEF PollEffect
<1> QED
  BY <1>3, <1>4, Zenon

\* RESERVATION_ACQUIRE.
LEMMA AcquirePolled ==
  ASSUME NEW s, ControlOK(s), NEW m, NamesOK(s, m), m.op = "RESERVATION_ACQUIRE",
         NEW c, c = m.arg[1], NEW type,
         NEW r, r = ReservationAcquire(s, c, type)
  PROVE  PollEffect(s, r.s, m, r.ret)
<1>1. CpShape(s) /\ c \in Containers /\ s.tab[c].owner # 0
  BY ControlShape, Zenon DEF NamesOK
<1>2. CASE r = [s |-> s, ret |-> -1]
  <2>1. r.s = s /\ r.ret # 0
    BY <1>2
  <2>2. AnswerStep(s, s, m, r.ret)
    BY <2>1, Zenon DEF AnswerStep
  <2> QED BY <2>1, <2>2, SamePolled, Zenon
<1>3. CASE r # [s |-> s, ret |-> -1]
  <2>1. PICK st \in {"READ_LOCKED", "WRITE_LOCKED"} :
              /\ \/ s.tab[c].status = "UNLOCKED"
                 \/ s.tab[c].status = "READ_LOCKED" /\ st = "READ_LOCKED"
              /\ Reservation(s, r.s, c, st, s.tab[c].ref + 1)
    BY <1>1, <1>3, AcquireEffect
  <2>2. PICK ref : ref = s.tab[c].ref + 1
    BY Zenon
  <2>3. ref \in Nat /\ st \in Statuses
    BY <1>1, <2>2, ControlShape DEF Statuses
  <2>4. Reservation(s, r.s, c, st, ref)
    BY <2>1, <2>2, Zenon
  <2>5. MayBecome(s.tab[c], st, ref, m, c)
    BY <1>1, <2>1, <2>2, <2>3, Zenon DEF MayBecome, EntryStep
  <2>6. TableStep(s, r.s, m) /\ r.s.tab[c].ref = ref
    <3>1. PICK t : t = r.s
      BY Zenon
    <3>2. Reservation(s, t, c, st, ref)
      BY <2>4, <3>1, Zenon
    <3>3. TableStep(s, t, m) /\ t.tab[c].ref = ref
      BY <2>5, <3>2, ReservationTable
    <3> QED BY <3>1, <3>3, Zenon
  <2>7. AnswerStep(s, r.s, m, r.ret)
    BY <2>2, <2>6, Zenon DEF AnswerStep
  <2>8. DirsStep(s, r.s)
    BY <2>4, Zenon DEF Reservation, Handled, DirsStep
  <2> QED BY <2>6, <2>7, <2>8, Zenon DEF PollEffect
<1> QED
  BY <1>2, <1>3, Zenon

\* RESERVATION_RELEASE.
LEMMA UnreservePolled ==
  ASSUME NEW s, ControlOK(s), NEW m, NamesOK(s, m), m.op = "RESERVATION_RELEASE",
         NEW c, c = m.arg,
         NEW r, r = ReservationRelease(s, c)
  PROVE  PollEffect(s, r.s, m, r.ret)
<1>1. CpShape(s) /\ c \in Containers
  BY ControlShape, Zenon DEF NamesOK
<1>2. EntryOK(s.tab[c], c) /\ s.tab[c].ref \in Nat
  BY <1>1, ControlShape, Zenon DEF ControlOK
<1>3. CASE r.s = s /\ s.tab[c].status \notin {"READ_LOCKED", "WRITE_LOCKED"}
  <2>1. ~(s.tab[c].ref > 0)
    BY <1>2, <1>3, Zenon DEF EntryOK
  <2>2. AnswerStep(s, s, m, r.ret)
    BY <2>1, Zenon DEF AnswerStep
  <2> QED BY <1>3, <2>2, SamePolled, Zenon
<1>4. CASE r.s.stop # "none"
  BY <1>4, Zenon DEF PollEffect
<1>5. ASSUME NEW st, NEW ref,
             Reservation(s, r.s, c, st, ref),
             \/ /\ s.tab[c].status = "WRITE_LOCKED" /\ s.tab[c].ref = 1
                /\ st = "UNLOCKED" /\ ref = 0
             \/ /\ s.tab[c].status = "READ_LOCKED"
                /\ st = IF s.tab[c].ref = 1 THEN "UNLOCKED" ELSE "READ_LOCKED"
                /\ ref = s.tab[c].ref - 1
      PROVE  PollEffect(s, r.s, m, r.ret)
  <2>1. ref = s.tab[c].ref - 1 /\ ref \in Nat /\ st \in Statuses
    BY <1>2, <1>5 DEF EntryOK, Statuses
  <2>2. \/ s.tab[c].status = "WRITE_LOCKED" /\ st = "UNLOCKED"
        \/ /\ s.tab[c].status = "READ_LOCKED"
           /\ st = IF s.tab[c].ref = 1 THEN "UNLOCKED" ELSE "READ_LOCKED"
    BY <1>5, Zenon
  <2>3. MayBecome(s.tab[c], st, ref, m, c)
    BY <1>1, <2>1, <2>2, Zenon DEF MayBecome, EntryStep
  <2>4. TableStep(s, r.s, m) /\ r.s.tab[c].ref = ref
    <3>1. PICK t : t = r.s
      BY Zenon
    <3>2. Reservation(s, t, c, st, ref)
      BY <1>5, <3>1, Zenon
    <3>3. TableStep(s, t, m) /\ t.tab[c].ref = ref
      BY <2>3, <3>2, ReservationTable, Zenon
    <3> QED BY <3>1, <3>3, Zenon
  <2>5. AnswerStep(s, r.s, m, r.ret)
    BY <2>1, <2>4, Zenon DEF AnswerStep
  <2>6. DirsStep(s, r.s)
    BY <1>5, Zenon DEF Reservation, Handled, DirsStep
  <2> QED BY <2>4, <2>5, <2>6, Zenon DEF PollEffect
<1> QED
  BY <1>1, <1>3, <1>4, <1>5, UnreserveEffect, Zenon

\* Every request.
LEMMA AllPolled ==
  ASSUME NEW s, ControlOK(s), NEW m, NamesOK(s, m)
  PROVE  PollEffect(s, PrimaryPollCore(s, m).s, m, PrimaryPollCore(s, m).cpl.ret)
<1> DEFINE t == PrimaryPollCore(s, m).s
           ret == PrimaryPollCore(s, m).cpl.ret
<1>a. Polls(s, m)
  BY PollHandlers, Zenon
<1>1. CASE m.op = "APP_REGISTER"
  <2>1. t = AppManageTableAdd(s, m.chan, m.arg).s
    BY <1>1, <1>a, Zenon DEF Polls, Does
  <2> HIDE DEF t, ret
  <2>2. PollEffect(s, t, m, ret)
    BY <1>1, <2>1, AddPolled, Zenon
  <2> QED BY <2>2, Zenon DEF t, ret
<1>2. CASE m.op = "APP_UNREGISTER"
  <2>1. t = AppManageTableRemove(s, m.chan).s
    BY <1>2, <1>a, Zenon DEF Polls, Does
  <2> HIDE DEF t, ret
  <2>2. PollEffect(s, t, m, ret)
    BY <1>2, <2>1, RemovePolled, Zenon
  <2> QED BY <2>2, Zenon DEF t, ret
<1>3. CASE m.op \in {"SUPERBLOCK_COPY", "HEALTH_CHECK"}
  <2>1. t = s
    BY <1>3, <1>a, Zenon DEF Polls, Does
  <2> HIDE DEF t, ret
  <2>2. AnswerStep(s, s, m, ret)
    BY <1>3, Zenon DEF AnswerStep
  <2>3. PollEffect(s, t, m, ret)
    BY <2>1, <2>2, SamePolled, Zenon
  <2> QED BY <2>3, Zenon DEF t, ret
<1>4. CASE m.op \in {"BUFFER_ALLOC", "BUFFER_FREE"}
  <2>1. PICK size : t = BufferAlloc(s, size).s \/ t = BufferFree(s, size).s
    BY <1>4, <1>a, Zenon DEF Polls, Does
  <2>2. CpShape(s)
    BY ControlShape, Zenon
  <2> HIDE DEF t, ret
  <2>3. Handled(s, t, s.tab, s.free, s.dirs) /\ t.last = s.last
    BY <2>1, <2>2, BufferEffect DEF Quiet
  <2>4. AnswerStep(s, t, m, ret)
    BY <1>4, Zenon DEF AnswerStep
  <2>5. PollEffect(s, t, m, ret)
    BY <2>3, <2>4, NothingPolled, Zenon
  <2> QED BY <2>5, Zenon DEF t, ret
<1>5. CASE m.op = "CONTAINER_ALLOC"
  <2>1. PICK r : /\ t = r.s /\ ret = r.ret
                 /\ \/ r = AllocNew(s, m.chan, "ACQUIRED")
                    \/ r = AllocAllocated(s, m.chan, "ACQUIRED")
    BY <1>5, <1>a, Zenon DEF Polls, Does, ContainerAlloc
  <2> HIDE DEF t, ret
  <2>2. PollEffect(s, r.s, m, r.ret)
    BY <1>5, <2>1, AllocPolled, Zenon
  <2> QED BY <2>1, <2>2, Zenon DEF t, ret
<1>6. CASE m.op = "CONTAINER_RELEASE"
  <2>1. PICK r : t = r.s /\ ret = r.ret /\ r = ContainerRelease(s, m.chan, m.arg)
    BY <1>6, <1>a, Zenon DEF Polls, Does
  <2> HIDE DEF t, ret
  <2>2. PollEffect(s, r.s, m, r.ret)
    BY <1>6, <2>1, ReleasePolled, Zenon
  <2> QED BY <2>1, <2>2, Zenon DEF t, ret
<1>7. CASE m.op = "RESERVATION_ACQUIRE"
  <2>1. PICK r : t = r.s /\ ret = r.ret /\ r = ReservationAcquire(s, m.arg[1], m.arg[2])
    BY <1>7, <1>a, Zenon DEF Polls, Does
  <2> HIDE DEF t, ret
  <2>2. PollEffect(s, r.s, m, r.ret)
    BY <1>7, <2>1, AcquirePolled, Zenon
  <2> QED BY <2>1, <2>2 DEF t, ret
<1>8. CASE m.op = "RESERVATION_RELEASE"
  <2>1. PICK r : t = r.s /\ ret = r.ret /\ r = ReservationRelease(s, m.arg)
    BY <1>8, <1>a, Zenon DEF Polls, Does
  <2> HIDE DEF t, ret
  <2>2. PollEffect(s, r.s, m, r.ret)
    BY <1>8, <2>1, UnreservePolled, Zenon
  <2> QED BY <2>1, <2>2 DEF t, ret
<1>9. m.op \in Ops
  BY Zenon DEF NamesOK
<1> QED
  BY <1>1, <1>2, <1>3, <1>4, <1>5, <1>6, <1>7, <1>8, <1>9, OpsAre, Zenon

\* The control plane stays in order.
LEMMA ControlStep ==
  ASSUME NEW s, ControlOK(s), NEW t, NEW m, m.chan \in ChannelIds,
         m.op = "CONTAINER_RELEASE" => m.arg \notin RootsOf(s.dirs),
         TableStep(s, t, m), DirsStep(s, t)
  PROVE  ControlOK(t)
<1>1. \A c \in Containers : EntryOK(t.tab[c], c)
  BY EntryStepOK, Zenon DEF TableStep, ControlOK
<1>2. ASSUME NEW c \in RootsOf(s.dirs)
      PROVE  c \in Containers /\ t.tab[c].owner # 0
  <2>1. c \in Containers /\ s.tab[c].owner # 0
    BY <1>2, Zenon DEF ControlOK
  <2>2. EntryStep(s.tab[c], t.tab[c], m, c)
    BY <2>1, Zenon DEF TableStep
  <2>3. m.chan # 0
    BY DEF ChannelIds
  <2>4. t.tab[c].owner \in {s.tab[c].owner, m.chan}
    BY <1>2, <2>2, Zenon DEF EntryStep
  <2> QED BY <2>1, <2>3, <2>4, Zenon
<1>3. 0 \in Containers /\ ControlOwner # 0
  BY ControlAssumption DEF Containers, ControlOwner
<1>4. \A c \in RootsOf(t.dirs) : c \in Containers /\ t.tab[c].owner # 0
  BY <1>1, <1>2, <1>3, Zenon DEF DirsStep, EntryOK
<1> QED
  BY <1>1, <1>4, Zenon DEF TableStep, ControlOK

\* A container stays with its channel, unless the channel itself gives it back
\* or goes.
LEMMA AcquiredKept ==
  ASSUME NEW s, ControlOK(s), NEW t, NEW m, TableStep(s, t, m),
         NEW c, NEW y, Acquired(s.tab, c, y),
         ~(m.op = "CONTAINER_RELEASE" /\ m.arg = c /\ y = m.chan),
         ~(m.op = "APP_UNREGISTER" /\ y = m.chan)
  PROVE  Acquired(t.tab, c, y)
<1>1. c \in Containers /\ s.tab[c].owner = y /\ s.tab[c].status = "ACQUIRED"
  BY Zenon DEF Acquired
<1>2. EntryStep(s.tab[c], t.tab[c], m, c)
  BY <1>1, Zenon DEF TableStep
<1>3. t.tab[c] = s.tab[c]
  BY <1>1, <1>2, Zenon DEF EntryStep
<1> QED
  BY <1>1, <1>3, Zenon DEF Acquired

\* The reference count of a container falls only when a reservation of it is
\* given back.
LEMMA RefKept ==
  ASSUME NEW s, ControlOK(s), NEW t, NEW m, TableStep(s, t, m), NEW c \in Containers,
         ~(m.op = "RESERVATION_RELEASE" /\ m.arg = c)
  PROVE  s.tab[c].ref \in Nat /\ t.tab[c].ref \in Nat /\ s.tab[c].ref <= t.tab[c].ref
<1>1. EntryStep(s.tab[c], t.tab[c], m, c) /\ t.tab[c] \in Entries
  BY Zenon DEF TableStep
<1>2. EntryOK(s.tab[c], c) /\ s.tab[c] \in Entries
  BY Zenon DEF ControlOK, EntryOK
<1>3. s.tab[c].ref \in Nat /\ t.tab[c].ref \in Nat
  BY <1>1, <1>2 DEF Entries
<1>4. FreeEntry.ref = 0
  BY Zenon DEF FreeEntry
<1>5. s.tab[c].status = "UNLOCKED" => s.tab[c].ref = 0
  BY <1>2, <1>3 DEF EntryOK
<1>6. \/ t.tab[c].ref = s.tab[c].ref
      \/ t.tab[c].ref = s.tab[c].ref + 1
  BY <1>1, <1>4, <1>5, Zenon DEF EntryStep
<1> QED
  BY <1>3, <1>6

\* A container without an owner has not had one, or was just given back.
LEMMA FreeKept ==
  ASSUME NEW s, ControlOK(s), NEW t, NEW m, m.chan \in ChannelIds, TableStep(s, t, m),
         NEW c \in Containers, t.tab[c].owner = 0
  PROVE  s.tab[c].owner = 0 \/ (m.op = "CONTAINER_RELEASE" /\ m.arg = c)
<1>1. EntryStep(s.tab[c], t.tab[c], m, c)
  BY Zenon DEF TableStep
<1>2. m.chan # 0
  BY DEF ChannelIds
<1> QED
  BY <1>1, <1>2, Zenon DEF EntryStep

\* The first request m of rv is answered with ret.
Answering(P, rv, rv2, sd, sd2, m, ret) ==
  /\ m.chan \in ChannelIds /\ m.op \in Ops
  /\ \E i \in 1..Len(rv) : rv[i] = m
  /\ \A i \in 1..Len(rv2) : \E j \in 1..Len(rv) : rv2[i] = rv[j]
  /\ NoRequestOf(rv2, m.chan)
  /\ \A i \in 1..Len(rv2) : rv2[i].chan \in ChannelIds
  /\ \A y \in ChannelIds \ {m.chan} : sd2[y] = sd[y]
  /\ \A p \in Procs : Live(P[p]) => P[p].chan \in ChannelIds
  /\ \A p \in Procs : Live(P[p]) /\ P[p].chan = m.chan =>
       /\ P[p].pc \in DOMAIN Awaited /\ m.op = Requested[P[p].pc]
       /\ sd[m.chan] = <<>> /\ sd2[m.chan][1].ret = ret

\* What the process that waits for the answer to m is at.
LEMMA WaitsFor ==
  ASSUME NEW q, q.pc \in DOMAIN Awaited
  PROVE  /\ Requested[q.pc] = "APP_UNREGISTER" <=> q.pc = "unregister"
         /\ Requested[q.pc] = "RESERVATION_ACQUIRE" <=> q.pc = "reserve"
         /\ Requested[q.pc] = "RESERVATION_RELEASE" <=> q.pc = "unreserve"
         /\ Requested[q.pc] = "CONTAINER_ALLOC" <=> q.pc \in {"fetch", "prealloc", "need"}
  BY DEF Awaited, Requested

\* The requests that are left stay right.
LEMMA PolledRequests ==
  ASSUME NEW s, ControlOK(s), NEW t, NEW m, m.chan \in ChannelIds,
         TableStep(s, t, m), DirsStep(s, t),
         NEW dt, NEW r, r.chan \in ChannelIds, r.chan # m.chan,
         RequestOK(r, s.tab, s.dirs, dt)
  PROVE  RequestOK(r, t.tab, t.dirs, dt)
<1>1. ASSUME r.op = "CONTAINER_RELEASE"
      PROVE  Acquired(t.tab, r.arg, r.chan) /\ dt[r.arg] = {} /\ r.arg \notin RootsOf(t.dirs)
  <2>1. /\ Acquired(s.tab, r.arg, r.chan) /\ dt[r.arg] = {} /\ r.arg \notin RootsOf(s.dirs)
    BY <1>1, Zenon DEF RequestOK
  <2>2. PICK c, y : c = r.arg /\ y = r.chan
    BY Zenon
  <2>3. Acquired(s.tab, c, y) /\ y # m.chan
    BY <2>1, <2>2, Zenon
  <2>4. Acquired(t.tab, c, y)
    BY <2>3, AcquiredKept, Zenon
  <2>5. c \in Containers /\ s.tab[c].owner = y
    BY <2>3, Zenon DEF Acquired
  <2>6. y # 0 /\ y # ControlOwner
    BY <2>2 DEF ChannelIds, ControlOwner
  <2>7. c # 0
    BY <2>5, <2>6, Zenon DEF ControlOK, EntryOK
  <2>8. c \notin RootsOf(t.dirs)
    BY <2>1, <2>2, <2>5, <2>6, <2>7, Zenon DEF DirsStep
  <2> QED BY <2>1, <2>2, <2>4, <2>8, Zenon
<1>2. r.op = "RESERVATION_ACQUIRE" => r.arg[1] \in RootsOf(t.dirs)
  BY Zenon DEF RequestOK, DirsStep
<1>3. r.op = "RESERVATION_RELEASE" => r.arg \in Containers
  BY Zenon DEF RequestOK
<1> QED
  BY <1>1, <1>2, <1>3, Zenon DEF RequestOK

\* What a process has stays its own.
LEMMA PolledLease ==
  ASSUME NEW s, ControlOK(s), NEW t, NEW m, NEW ret,
         TableStep(s, t, m), AnswerStep(s, t, m, ret),
         NEW P, NEW rv, NEW rv2, NEW sd, NEW sd2, Answering(P, rv, rv2, sd, sd2, m, ret),
         NEW p \in Procs, Live(P[p]), LeaseOK(P[p], s.tab, rv, sd)
  PROVE  LeaseOK(P[p], t.tab, rv2, sd2)
<1>0. PICK q, y : q = P[p] /\ y = q.chan
  BY Zenon
<1>1. /\ \A c \in q.bgs : Acquired(s.tab, c, y)
      /\ q.pc \in Stopping => q.bgs = {} /\ q.held = {}
      /\ q.pc = "unreserve" => q.held = {}
      /\ \A i \in 1..Len(rv) : rv[i].chan = y =>
           /\ rv[i].op = "CONTAINER_RELEASE" => rv[i].arg \notin q.bgs
           /\ rv[i].op = "RESERVATION_ACQUIRE" => q.held = {rv[i].arg[1]}
      /\ q.pc \in {"fetch", "prealloc", "need"} /\ sd[y] # <<>> =>
           sd[y][1].ret = 0 \/ Acquired(s.tab, sd[y][1].ret, y)
  BY <1>0, Zenon DEF LeaseOK
<1>2. /\ \E i \in 1..Len(rv) : rv[i] = m
      /\ \A i \in 1..Len(rv2) : \E j \in 1..Len(rv) : rv2[i] = rv[j]
      /\ y # m.chan => sd2[y] = sd[y]
      /\ y = m.chan => /\ q.pc \in DOMAIN Awaited /\ m.op = Requested[q.pc]
                       /\ sd2[y][1].ret = ret
  BY <1>0, Zenon DEF Answering
<1>3. y = m.chan =>
        /\ m.op = "APP_UNREGISTER" => q.pc = "unregister"
        /\ q.pc \in {"fetch", "prealloc", "need"} => m.op = "CONTAINER_ALLOC"
  BY <1>2, WaitsFor, Zenon
<1>4. \A c \in q.bgs : Acquired(t.tab, c, y)
  <2> SUFFICES ASSUME NEW c \in q.bgs PROVE Acquired(t.tab, c, y)
    BY Zenon
  <2>1. ~(m.op = "CONTAINER_RELEASE" /\ m.arg = c /\ y = m.chan)
    BY <1>1, <1>2, Zenon
  <2>2. ~(m.op = "APP_UNREGISTER" /\ y = m.chan)
    BY <1>1, <1>3, Zenon DEF Stopping
  <2> QED BY <1>1, <2>1, <2>2, AcquiredKept, Zenon
<1>5. \A i \in 1..Len(rv2) : rv2[i].chan = y =>
           /\ rv2[i].op = "CONTAINER_RELEASE" => rv2[i].arg \notin q.bgs
           /\ rv2[i].op = "RESERVATION_ACQUIRE" => q.held = {rv2[i].arg[1]}
  <2> SUFFICES ASSUME NEW i \in 1..Len(rv2), rv2[i].chan = y
               PROVE  /\ rv2[i].op = "CONTAINER_RELEASE" => rv2[i].arg \notin q.bgs
                      /\ rv2[i].op = "RESERVATION_ACQUIRE" => q.held = {rv2[i].arg[1]}
    BY Zenon
  <2>1. PICK j \in 1..Len(rv) : rv2[i] = rv[j]
    BY <1>2, Zenon
  <2> QED BY <1>1, <2>1, Zenon
<1>6. ASSUME q.pc \in {"fetch", "prealloc", "need"}, sd2[y] # <<>>
      PROVE  sd2[y][1].ret = 0 \/ Acquired(t.tab, sd2[y][1].ret, y)
  <2>1. CASE y = m.chan
    BY <1>2, <1>3, <1>6, <2>1, Zenon DEF AnswerStep
  <2>2. CASE y # m.chan
    <3>1. PICK c : c = sd[y][1].ret
      BY Zenon
    <3>2. c = 0 \/ Acquired(s.tab, c, y)
      BY <1>1, <1>2, <1>6, <2>2, <3>1, Zenon
    <3>3. c = 0 \/ Acquired(t.tab, c, y)
      BY <2>2, <3>2, AcquiredKept, Zenon
    <3> QED BY <1>2, <2>2, <3>1, <3>3, Zenon
  <2> QED BY <2>1, <2>2, Zenon
<1>7. LeaseOK(q, t.tab, rv2, sd2)
  BY <1>0, <1>1, <1>4, <1>5, <1>6, Zenon DEF LeaseOK
<1> QED
  BY <1>0, <1>7, Zenon

\* The processes that have a claim on a container are finitely many.
LEMMA ClaimantsFinite ==
  ASSUME NEW c, NEW P, NEW rv, NEW sd
  PROVE  /\ IsFiniteSet(Claimants(c, P, rv, sd))
         /\ Cardinality(Claimants(c, P, rv, sd)) \in Nat
<1>1. IsFiniteSet(ChannelIds)
  BY ControlAssumption, FS_Interval DEF ChannelIds
<1>2. Claimants(c, P, rv, sd) \in SUBSET ChannelIds
  BY Zenon DEF Claimants
<1>3. IsFiniteSet(Claimants(c, P, rv, sd))
  BY <1>1, <1>2, FS_Subset, Zenon
<1> QED
  BY <1>3, FS_CardinalityType, Zenon

\* The claim of x on container c is one of those in A, or a new one.
OldOrGranted(x, A, c, m, ret) ==
  /\ \/ x \in A
     \/ x = m.chan /\ m.op = "RESERVATION_ACQUIRE" /\ ret = 0 /\ m.arg[1] = c
  /\ m.op = "RESERVATION_RELEASE" => x # m.chan

\* No claim arises but from the answer to a request for it.
LEMMA PolledClaims ==
  ASSUME NEW m, NEW ret, NEW P, NEW rv, NEW rv2, NEW sd, NEW sd2, NEW tab,
         Answering(P, rv, rv2, sd, sd2, m, ret),
         \A p \in Procs : Live(P[p]) => LeaseOK(P[p], tab, rv, sd),
         NEW c, NEW x \in Claimants(c, P, rv2, sd2)
  PROVE  OldOrGranted(x, Claimants(c, P, rv, sd), c, m, ret)
<1>1. x \in ChannelIds
  BY Zenon DEF Claimants
<1>2. ASSUME NEW i \in 1..Len(rv2), rv2[i].chan = x, Releases(rv2[i], c)
      PROVE  x \in Claimants(c, P, rv, sd) /\ x # m.chan
  <2>1. PICK j \in 1..Len(rv) : rv2[i] = rv[j]
    BY Zenon DEF Answering
  <2>2. x # m.chan
    BY <1>2, Zenon DEF Answering, NoRequestOf
  <2> QED BY <1>1, <1>2, <2>1, <2>2, Zenon DEF Claimants
<1>3. ASSUME NEW p \in Procs, P[p].chan = x, Claims(P[p], sd2, c), x # m.chan
      PROVE  x \in Claimants(c, P, rv, sd)
  <2>1. sd2[x] = sd[x]
    BY <1>1, <1>3, Zenon DEF Answering
  <2>2. Claims(P[p], sd, c)
    BY <1>3, <2>1, Zenon DEF Claims
  <2> QED BY <1>1, <1>3, <2>2, Zenon DEF Claimants
<1>4. ASSUME NEW p \in Procs, P[p].chan = x, Claims(P[p], sd2, c), x = m.chan
      PROVE  /\ \/ x \in Claimants(c, P, rv, sd)
                \/ m.op = "RESERVATION_ACQUIRE" /\ ret = 0 /\ m.arg[1] = c
             /\ m.op # "RESERVATION_RELEASE"
  <2>0. PICK q : q = P[p]
    BY Zenon
  <2>1. /\ Live(q) /\ c \in q.held
        /\ q.pc = "reserve" => sd2[x][1].ret = 0
    BY <1>4, <2>0, Zenon DEF Claims
  <2>2. /\ q.pc \in DOMAIN Awaited /\ m.op = Requested[q.pc] /\ sd2[x][1].ret = ret
    BY <1>4, <2>0, <2>1, Zenon DEF Answering
  <2>3. /\ m.op = "RESERVATION_ACQUIRE" <=> q.pc = "reserve"
        /\ m.op = "RESERVATION_RELEASE" <=> q.pc = "unreserve"
    BY <2>2, WaitsFor, Zenon
  <2>4. /\ q.pc = "unreserve" => q.held = {}
        /\ \A i \in 1..Len(rv) : rv[i].chan = x =>
             (rv[i].op = "RESERVATION_ACQUIRE" => q.held = {rv[i].arg[1]})
    BY <1>4, <2>0, <2>1, Zenon DEF LeaseOK
  <2>5. m.op = "RESERVATION_ACQUIRE" => q.held = {m.arg[1]}
    BY <1>4, <2>4, Zenon DEF Answering
  <2>6. q.pc # "reserve" => x \in Claimants(c, P, rv, sd)
    BY <1>1, <1>4, <2>0, <2>1, Zenon DEF Claimants, Claims
  <2> QED BY <2>1, <2>2, <2>3, <2>4, <2>5, <2>6, Zenon
<1> QED
  BY <1>2, <1>3, <1>4, Zenon DEF Claimants, OldOrGranted

\* The claims stay covered by the reference count.
LEMMA PolledCount ==
  ASSUME NEW s, ControlOK(s), NEW t, NEW m, NEW ret,
         TableStep(s, t, m), AnswerStep(s, t, m, ret),
         NEW P, NEW rv, NEW rv2, NEW sd, NEW sd2,
         Answering(P, rv, rv2, sd, sd2, m, ret),
         \A p \in Procs : Live(P[p]) => LeaseOK(P[p], s.tab, rv, sd),
         NEW c \in Containers,
         Cardinality(Claimants(c, P, rv, sd)) <= s.tab[c].ref
  PROVE  Cardinality(Claimants(c, P, rv2, sd2)) <= t.tab[c].ref
<1> DEFINE A == Claimants(c, P, rv, sd)
           B == Claimants(c, P, rv2, sd2)
           x == m.chan
<1>1. /\ IsFiniteSet(A) /\ Cardinality(A) \in Nat
      /\ IsFiniteSet(B) /\ Cardinality(B) \in Nat
  BY ClaimantsFinite, Zenon
<1>2. \A y \in B : /\ \/ y \in A
                      \/ y = x /\ m.op = "RESERVATION_ACQUIRE" /\ ret = 0 /\ m.arg[1] = c
                   /\ m.op = "RESERVATION_RELEASE" => y # x
  <2>1. PICK tab : tab = s.tab
    BY Zenon
  <2>2. \A p \in Procs : Live(P[p]) => LeaseOK(P[p], tab, rv, sd)
    BY <2>1, Zenon
  <2>3. \A y \in B : OldOrGranted(y, A, c, m, ret)
    BY <2>2, PolledClaims, Zenon
  <2> QED BY <2>3, Zenon DEF OldOrGranted
<1>3. s.tab[c].ref \in Nat
  BY ControlShape, Zenon
<1>4. m.op = "RESERVATION_RELEASE" /\ m.arg = c => x \in A
  BY Zenon DEF Answering, Claimants, Releases
<1> HIDE DEF A, B, x
<1>5. CASE m.op = "RESERVATION_RELEASE" /\ m.arg = c
  <2>1. B \subseteq A \ {x} /\ x \in A
    BY <1>2, <1>4, <1>5, Zenon
  <2>2. IsFiniteSet(A \ {x}) /\ Cardinality(A \ {x}) = Cardinality(A) - 1
    BY <1>1, <2>1, FS_RemoveElement, Zenon
  <2>3. Cardinality(B) <= Cardinality(A \ {x})
    BY <2>1, <2>2, FS_Subset, Zenon
  <2>4. Cardinality(A) <= s.tab[c].ref
    BY Zenon DEF A
  <2>5. Cardinality(A) >= 1
    <3>1. Cardinality(A \ {x}) \in Nat
      BY <2>2, FS_CardinalityType, Zenon
    <3> QED BY <1>1, <2>2, <3>1
  <2>6. s.tab[c].ref > 0
    BY <1>1, <1>3, <2>4, <2>5
  <2>7. t.tab[c].ref = s.tab[c].ref - 1
    BY <1>5, <2>6, Zenon DEF AnswerStep
  <2>8. Cardinality(B) <= t.tab[c].ref
    BY <1>1, <1>3, <2>2, <2>3, <2>4, <2>7
  <2> QED BY <2>8, Zenon DEF B
<1>6. CASE m.op = "RESERVATION_ACQUIRE" /\ ret = 0 /\ m.arg[1] = c
  <2>1. B \subseteq A \cup {x}
    BY <1>2, Zenon
  <2>2. IsFiniteSet(A \cup {x}) /\ Cardinality(A \cup {x}) <= Cardinality(A) + 1
    <3>1. CASE x \in A
      <4>1. A \cup {x} = A
        BY <3>1, Zenon
      <4> QED BY <1>1, <4>1
    <3>2. CASE x \notin A
      <4>1. IsFiniteSet(A \cup {x}) /\ Cardinality(A \cup {x}) = Cardinality(A) + 1
        BY <1>1, <3>2, FS_AddElement, Zenon
      <4> QED BY <1>1, <4>1
    <3> QED BY <3>1, <3>2, Zenon
  <2>3. Cardinality(B) <= Cardinality(A \cup {x}) /\ Cardinality(A \cup {x}) \in Nat
    BY <2>1, <2>2, FS_Subset, FS_CardinalityType, Zenon
  <2>4. Cardinality(A) <= s.tab[c].ref
    BY Zenon DEF A
  <2>5. t.tab[c].ref = s.tab[c].ref + 1
    BY <1>6, Zenon DEF AnswerStep
  <2>6. Cardinality(B) <= t.tab[c].ref
    BY <1>1, <1>3, <2>2, <2>3, <2>4, <2>5
  <2> QED BY <2>6, Zenon DEF B
<1>7. CASE /\ ~(m.op = "RESERVATION_RELEASE" /\ m.arg = c)
           /\ ~(m.op = "RESERVATION_ACQUIRE" /\ ret = 0 /\ m.arg[1] = c)
  <2>1. B \subseteq A
    BY <1>2, <1>7, Zenon
  <2>2. Cardinality(B) <= Cardinality(A)
    BY <1>1, <2>1, FS_Subset, Zenon
  <2>3. Cardinality(A) <= s.tab[c].ref
    BY Zenon DEF A
  <2>4. t.tab[c].ref \in Nat /\ s.tab[c].ref <= t.tab[c].ref
    BY <1>7, RefKept, Zenon
  <2>5. Cardinality(B) <= t.tab[c].ref
    BY <1>1, <1>3, <2>2, <2>3, <2>4
  <2> QED BY <2>5, Zenon DEF B
<1> QED
  BY <1>5, <1>6, <1>7, Zenon

\* The primary process answers the first request.
LEMMA PollRings ==
  ASSUME ProtocolInv, PrimaryPoll, primary' = "running",
         NEW m, m = recv[1]
  PROVE  /\ cp' = PrimaryPollCore(cp, m).s
         /\ Answering(proc, recv, recv', send, send', m, PrimaryPollCore(cp, m).cpl.ret)
<1> DEFINE a == PrimaryPollCore(cp, m).cpl
           x == m.chan
<1>1. /\ recv # <<>> /\ recv' = Tail(recv)
      /\ RingsOK(recv, send)
      /\ IsSequence(recv)
  BY Zenon DEF PrimaryPoll, ProtocolInv, RingsOK
<1>2. /\ Len(recv) \in Nat \ {0} /\ Len(recv') = Len(recv) - 1
      /\ \A i \in 1..Len(recv') : recv'[i] = recv[i + 1]
      /\ Head(recv) = m
  BY <1>1, TailEffect, Zenon
<1>3. 1 \in 1..Len(recv) /\ \A i \in 1..Len(recv') : i + 1 \in 1..Len(recv) /\ i + 1 # 1
  BY <1>2
<1>4. x \in ChannelIds /\ m.op \in Ops
  BY <1>1, <1>3, Zenon DEF RingsOK
<1>5. \A i \in 1..Len(recv') : /\ \E j \in 1..Len(recv) : recv'[i] = recv[j]
                               /\ recv'[i].chan \in ChannelIds
                               /\ recv'[i].chan # x
  <2> SUFFICES ASSUME NEW i \in 1..Len(recv')
               PROVE  /\ \E j \in 1..Len(recv) : recv'[i] = recv[j]
                      /\ recv'[i].chan \in ChannelIds
                      /\ recv'[i].chan # x
    BY Zenon
  <2>1. recv'[i] = recv[i + 1] /\ i + 1 \in 1..Len(recv) /\ i + 1 # 1
    BY <1>2, <1>3, Zenon
  <2> QED BY <1>1, <1>3, <2>1, Zenon DEF RingsOK
<1>6. a.chan = x
  BY <1>4, PollAnswers, Zenon
<1>7. cp' = PrimaryPollCore(cp, m).s /\ send' = [send EXCEPT ![x] = Append(@, a)]
  BY <1>2, <1>6, Zenon DEF PrimaryPoll
<1>8. PICK S : send \in [ChannelIds -> Seq(S)]
  BY <1>1, Zenon DEF RingsOK, AreSequences
<1>9. \A y \in ChannelIds \ {x} : send'[y] = send[y]
  BY <1>7, <1>8, Zenon
<1>10. send[x] = <<>> => send'[x][1] = a
  <2>1. send'[x] = Append(send[x], a)
    BY <1>4, <1>7, <1>8, Zenon
  <2> HIDE DEF a, x
  <2> QED BY <2>1
<1>11. ASSUME NEW p \in Procs, Live(proc[p])
       PROVE  /\ proc[p].chan \in ChannelIds
              /\ proc[p].chan = x => /\ proc[p].pc \in DOMAIN Awaited
                                     /\ m.op = Requested[proc[p].pc]
                                     /\ send[x] = <<>>
  <2>1. proc[p].chan \in ChannelIds /\ OnItsWay(proc[p], recv, send)
    BY <1>11, Zenon DEF ProtocolInv, ChannelsInv, MessagesInv
  <2>2. ~NoRequestOf(recv, x)
    BY <1>3, Zenon DEF NoRequestOf
  <2> QED BY <1>3, <2>1, <2>2, Zenon DEF OnItsWay
<1>12. \A p \in Procs : Live(proc[p]) /\ proc[p].chan = x => send'[x][1].ret = a.ret
  BY <1>10, <1>11, Zenon
<1> HIDE DEF a
<1>13. Answering(proc, recv, recv', send, send', m, a.ret)
  BY <1>3, <1>4, <1>5, <1>9, <1>11, <1>12, Zenon DEF Answering, NoRequestOf
<1> QED
  BY <1>7, <1>13, Zenon DEF a

\* One turn of primary_poll.
LEMMA PollControl ==
  ASSUME ProtocolInv, ControlInv, PrimaryPoll
  PROVE  ControlInv'
<1>0. /\ primary = "running" /\ ondisk' = ondisk /\ data' = data /\ proc' = proc
      /\ primary' \in {"running", "stopped"} /\ recv # <<>>
  BY Zenon DEF PrimaryPoll
<1>1. CASE primary' # "running"
  BY <1>0, <1>1, Zenon DEF ControlInv
<1>2. CASE primary' = "running"
  <2>0. /\ ControlOK(cp) /\ LeaseInv(cp.tab, cp.dirs, data, proc, recv, send)
        /\ ondisk = "MOUNTED"
    BY <1>0, Zenon DEF ControlInv
  <2>1. PICK m : m = recv[1]
    BY Zenon
  <2>2. PICK ret : ret = PrimaryPollCore(cp, m).cpl.ret
    BY Zenon
  <2>3. /\ cp' = PrimaryPollCore(cp, m).s
        /\ Answering(proc, recv, recv', send, send', m, ret)
    BY <1>2, <2>1, <2>2, PollRings, Zenon
  <2>4. m.chan \in ChannelIds /\ m.op \in Ops /\ RequestOK(m, cp.tab, cp.dirs, data)
    BY <2>0, <2>3, Zenon DEF Answering, LeaseInv
  <2>5. NamesOK(cp, m)
    BY <2>0, <2>4, Zenon DEF NamesOK, RequestOK, Acquired, ControlOK
  <2>6. cp'.stop = "none"
    <3>1. Head(recv) = m
      BY <1>0, <2>1, TailEffect, Zenon DEF ProtocolInv, RingsOK
    <3> QED BY <1>2, <2>3, <3>1, Zenon DEF PrimaryPoll
  <2>7. TableStep(cp, cp', m) /\ DirsStep(cp, cp') /\ AnswerStep(cp, cp', m, ret)
    <3>1. PollEffect(cp, PrimaryPollCore(cp, m).s, m, PrimaryPollCore(cp, m).cpl.ret)
      BY <2>0, <2>5, AllPolled, Zenon
    <3>2. PollEffect(cp, cp', m, ret)
      BY <2>2, <2>3, <3>1, Zenon
    <3> QED BY <2>6, <3>2, Zenon DEF PollEffect
  <2> PICK s, t : s = cp /\ t = cp'
    BY Zenon
  <2>8. ControlOK(t)
    BY <2>0, <2>4, <2>7, ControlStep, Zenon DEF RequestOK
  <2>9. /\ DOMAIN data = Containers
        /\ \A c \in Containers : s.tab[c].owner = 0 => data[c] = {}
        /\ \A i \in 1..Len(recv) : RequestOK(recv[i], s.tab, s.dirs, data)
        /\ \A p \in Procs : Live(proc[p]) => LeaseOK(proc[p], s.tab, recv, send)
        /\ \A c \in Containers : Cardinality(Claimants(c, proc, recv, send)) <= s.tab[c].ref
    BY <2>0, Zenon DEF LeaseInv
  <2>10. \A c \in Containers : t.tab[c].owner = 0 => data[c] = {}
    <3> SUFFICES ASSUME NEW c \in Containers, t.tab[c].owner = 0 PROVE data[c] = {}
      BY Zenon
    <3>1. s.tab[c].owner = 0 \/ (m.op = "CONTAINER_RELEASE" /\ m.arg = c)
      BY <2>0, <2>4, <2>7, FreeKept
    <3> QED BY <2>4, <2>9, <3>1, Zenon DEF RequestOK
  <2>11. \A i \in 1..Len(recv') : RequestOK(recv'[i], t.tab, t.dirs, data)
    <3> SUFFICES ASSUME NEW i \in 1..Len(recv') PROVE RequestOK(recv'[i], t.tab, t.dirs, data)
      BY Zenon
    <3>1. PICK r : r = recv'[i]
      BY Zenon
    <3>2. r.chan \in ChannelIds /\ r.chan # m.chan /\ \E j \in 1..Len(recv) : r = recv[j]
      BY <2>3, <3>1, Zenon DEF Answering, NoRequestOf
    <3>3. RequestOK(r, s.tab, s.dirs, data)
      BY <2>9, <3>2, Zenon
    <3>4. RequestOK(r, t.tab, t.dirs, data)
      BY <2>0, <2>4, <2>7, <3>2, <3>3, PolledRequests, Zenon
    <3> QED BY <3>1, <3>4, Zenon
  <2>12. \A p \in Procs : Live(proc[p]) => LeaseOK(proc[p], t.tab, recv', send')
    BY <2>0, <2>3, <2>7, <2>9, PolledLease, Zenon
  <2>13. \A c \in Containers : Cardinality(Claimants(c, proc, recv', send')) <= t.tab[c].ref
    BY <2>0, <2>3, <2>7, <2>9, PolledCount, Zenon
  <2>14. LeaseInv(t.tab, t.dirs, data, proc, recv', send')
    BY <2>9, <2>10, <2>11, <2>12, <2>13, Zenon DEF LeaseInv
  <2> QED BY <1>0, <1>2, <2>0, <2>8, <2>14, Zenon DEF ControlInv
<1> QED
  BY <1>0, <1>1, <1>2, Zenon

=============================================================================
