----------------------- MODULE DataPlaneLeaseProofs -----------------------
(***************************************************************************)
(* Proofs about the leases of the processes of DataPlane, for any number   *)
(* of processes, channels and containers: the steps of a process in        *)
(* service, of an umount, a crash and a start keep ControlInv of           *)
(* DataPlaneControlProofs, so that the containers and reservations of the  *)
(* processes are what the table of the control plane says                  *)
(* (LeasesAreSound).  LeasesSound itself is not inductive.                 *)
(***************************************************************************)
EXTENDS DataPlaneMountProofs

-----------------------------------------------------------------------------
(* A process in service, and its end.                                      *)

\* A mounted process asks for a container or a buffer.
LEMMA NeedLease ==
  ASSUME ProtocolInv, Leased(data), NEW p \in Procs, NeedContainer(p) \/ NeedBuffer(p)
  PROVE  LeasedNext(data)
<1> DEFINE a == [proc[p] EXCEPT !.pc = "need"]
           b == [proc[p] EXCEPT !.pc = "more"]
<1>1. /\ DOMAIN a = Fields /\ a.pc = "need" /\ a.chan = proc[p].chan
      /\ a.bgs = proc[p].bgs /\ a.held = proc[p].held
      /\ DOMAIN b = Fields /\ b.pc = "more" /\ b.chan = proc[p].chan
      /\ b.bgs = proc[p].bgs /\ b.held = proc[p].held
  BY ShapeOf, Zenon DEF Fields
<1>2. /\ InService(p) /\ send' = send
      /\ Request(p, a, pool, "CONTAINER_ALLOC", "NEW") \/ Request(p, b, pool, "BUFFER_ALLOC", 1)
  BY Zenon DEF NeedContainer, NeedBuffer, Ask
<1>3. /\ "CONTAINER_ALLOC" \in PlainOps /\ "BUFFER_ALLOC" \in PlainOps
      /\ "need" \notin Stopping \cup {"unreserve"} /\ "more" \notin Stopping \cup {"unreserve"}
  BY Zenon DEF PlainOps, Stopping
<1> HIDE DEF a, b
<1>4. Modest(proc[p], a, cp.tab) /\ Modest(proc[p], b, cp.tab)
  BY <1>1, <1>3, SameModest, Zenon
<1>5. CASE Request(p, a, pool, "CONTAINER_ALLOC", "NEW")
  BY <1>1, <1>2, <1>3, <1>4, <1>5, AskLease, Zenon
<1>6. CASE Request(p, b, pool, "BUFFER_ALLOC", 1)
  BY <1>1, <1>2, <1>3, <1>4, <1>6, AskLease, Zenon
<1> QED
  BY <1>2, <1>5, <1>6, Zenon

\* The answers that leave a process with what it had.
LEMMA AnsweredLease ==
  ASSUME ProtocolInv, Leased(data), NEW p \in Procs,
         GotBuffer(p) \/ RemovedBg(p) \/ Unreserved(p)
  PROVE  LeasedNext(data)
<1> DEFINE a == [proc[p] EXCEPT !.pc = "idle", !.buf = @ + Answer(p).ret]
           b == [proc[p] EXCEPT !.pc = "panic_release"]
           d == [proc[p] EXCEPT !.pc = "idle"]
<1>1. /\ a.pc = "idle" /\ a.chan = proc[p].chan /\ a.bgs = proc[p].bgs /\ a.held = proc[p].held
      /\ b.pc = "panic_release"
      /\ d.pc = "idle" /\ d.chan = proc[p].chan /\ d.bgs = proc[p].bgs /\ d.held = proc[p].held
  BY ShapeOf, Zenon DEF Fields
<1>2. \E pc \in {"more", "give", "unreserve"} :
        /\ Dequeue(p, pc)
        /\ \/ NoRequest(p, a, pool + 1)
           \/ NoRequest(p, b, pool)
           \/ NoRequest(p, d, pool + 1)
  BY Zenon DEF GotBuffer, RemovedBg, Unreserved
<1>3. /\ \A pc \in {"more", "give", "unreserve"} : pc \in DOMAIN Awaited /\ pc # "reserve"
      /\ "idle" \notin Stopping \cup {"unreserve"} /\ "panic_release" \in Panics
  BY Zenon DEF Awaited, Stopping, Panics
<1> HIDE DEF a, b, d
<1>4. /\ Modest(proc[p], a, cp.tab) /\ Modest(proc[p], d, cp.tab)
  BY <1>1, <1>3, SameModest
<1>5. ~Live(b)
  BY <1>1, <1>3, Zenon DEF Live
<1>6. PICK pc \in {"more", "give", "unreserve"} :
        /\ Dequeue(p, pc)
        /\ \/ NoRequest(p, a, pool + 1)
           \/ NoRequest(p, b, pool)
           \/ NoRequest(p, d, pool + 1)
  BY <1>2, Zenon
<1>7. CASE NoRequest(p, a, pool + 1)
  BY <1>3, <1>4, <1>6, <1>7, ReplyDoneLease, Zenon
<1>8. CASE NoRequest(p, b, pool)
  BY <1>3, <1>5, <1>6, <1>8, ReplyDoneLease, Zenon
<1>9. CASE NoRequest(p, d, pool + 1)
  BY <1>3, <1>4, <1>6, <1>9, ReplyDoneLease, Zenon
<1> QED
  BY <1>6, <1>7, <1>8, <1>9, Zenon

\* A process that stops gives nothing back, and has nothing any more.
LEMMA UmountLease ==
  ASSUME ProtocolInv, Leased(data), NEW p \in Procs, Umount(p)
  PROVE  LeasedNext(data)
<1> DEFINE q == [proc[p] EXCEPT !.pc = "free", !.state = "UMOUNTED", !.bgs = {}, !.buf = 0]
<1>1. /\ DOMAIN q = Fields /\ q.pc = "free" /\ q.chan = proc[p].chan
      /\ q.bgs = {} /\ q.held = proc[p].held
  BY ShapeOf, Zenon DEF Fields
<1>2. /\ InService(p) /\ send' = send /\ proc[p].held = {}
      /\ Request(p, q, pool, "BUFFER_FREE", proc[p].buf)
  BY Zenon DEF Umount
<1>3. "BUFFER_FREE" \in PlainOps /\ "free" # "unreserve"
  BY Zenon DEF PlainOps
<1> HIDE DEF q
<1>4. Modest(proc[p], q, cp.tab)
  BY <1>1, <1>2, <1>3, Zenon DEF Modest
<1> QED
  BY <1>1, <1>2, <1>3, <1>4, AskLease, Zenon

\* The answers at the end of a process.
LEMMA UmountFreedLease ==
  ASSUME ProtocolInv, Leased(data), NEW p \in Procs, UmountFreed(p)
  PROVE  LeasedNext(data)
<1> DEFINE q == [proc[p] EXCEPT !.pc = "unregister"]
           r == [proc[p] EXCEPT !.pc = "panic_free"]
<1>1. /\ DOMAIN q = Fields /\ q.pc = "unregister" /\ q.chan = proc[p].chan
      /\ q.bgs = proc[p].bgs /\ q.held = proc[p].held
      /\ r.pc = "panic_free"
  BY ShapeOf, Zenon DEF Fields
<1>2. /\ Dequeue(p, "free")
      /\ NoRequest(p, r, pool) \/ Request(p, q, pool + 1, "APP_UNREGISTER", 0)
  BY Zenon DEF UmountFreed
<1>3. /\ "free" \in DOMAIN Awaited /\ "free" # "reserve" /\ "APP_UNREGISTER" \in PlainOps
      /\ "free" \in Stopping /\ "unregister" # "unreserve" /\ "panic_free" \in Panics
  BY Zenon DEF Awaited, PlainOps, Stopping, Panics
<1> HIDE DEF q, r
<1>4. Live(proc[p]) /\ proc[p].pc = "free"
  BY <1>2, <1>3, ReplyClear, Zenon
<1>5. proc[p].bgs = {} /\ proc[p].held = {}
  BY <1>3, <1>4, Zenon DEF Leased, LeaseInv, LeaseOK
<1>6. Modest(proc[p], q, cp.tab)
  BY <1>1, <1>3, <1>5, Zenon DEF Modest
<1>7. ~Live(r)
  BY <1>1, <1>3, Zenon DEF Live
<1>8. CASE NoRequest(p, r, pool)
  BY <1>2, <1>3, <1>7, <1>8, ReplyDoneLease, Zenon
<1>9. CASE Request(p, q, pool + 1, "APP_UNREGISTER", 0)
  BY <1>1, <1>2, <1>3, <1>6, <1>9, ReplyRequestLease, Zenon
<1> QED
  BY <1>2, <1>8, <1>9, Zenon

\* The channel is given back.
LEMMA UmountDoneLease ==
  ASSUME ProtocolInv, Leased(data), NEW p \in Procs, UmountDone(p)
  PROVE  LeasedNext(data)
<1> DEFINE q == [proc[p] EXCEPT !.pc = "detach"]
<1>1. /\ q.pc = "detach" /\ q.chan = proc[p].chan
      /\ q.bgs = proc[p].bgs /\ q.held = proc[p].held
  BY ShapeOf, Zenon DEF Fields
<1>2. Dequeue(p, "unregister") /\ NoRequest(p, q, pool)
  BY Zenon DEF UmountDone
<1>3. /\ "unregister" \in DOMAIN Awaited /\ "unregister" # "reserve"
      /\ "unregister" \in Stopping /\ "detach" # "unreserve"
  BY Zenon DEF Awaited, Stopping
<1> HIDE DEF q
<1>4. Live(proc[p]) /\ proc[p].pc = "unregister"
  BY <1>2, <1>3, ReplyClear, Zenon
<1>5. proc[p].bgs = {} /\ proc[p].held = {}
  BY <1>3, <1>4, Zenon DEF Leased, LeaseInv, LeaseOK
<1>6. Modest(proc[p], q, cp.tab)
  BY <1>1, <1>3, <1>5, Zenon DEF Modest
<1> QED
  BY <1>2, <1>3, <1>6, ReplyDoneLease, Zenon

\* A process between nvfuse_mount and its service, or at its very end.
LEMMA AttachLease ==
  ASSUME ProtocolInv, Leased(data), NEW p \in Procs, IpcInit(p) \/ IpcExit(p)
  PROVE  LeasedNext(data)
<1> DEFINE q == [proc[p] EXCEPT !.pc = "idle"]
           r == [proc[p] EXCEPT !.pc = "panic_pool"]
<1>1. /\ q.pc = "idle" /\ q.chan = proc[p].chan
      /\ q.bgs = proc[p].bgs /\ q.held = proc[p].held
      /\ r.pc = "panic_pool"
  BY ShapeOf, Zenon DEF Fields
<1>2. /\ proc[p].pc \in {"attach", "detach"} /\ send' = send
      /\ \/ NoRequest(p, q, pool + 1)
         \/ NoRequest(p, r, 0)
         \/ NoRequest(p, NoProc, pool - 1)
  BY Zenon DEF IpcInit, IpcExit
<1>3. /\ "idle" \notin Stopping \cup {"unreserve"} /\ "panic_pool" \in Panics
      /\ \A pc \in {"attach", "detach"} :
           pc \notin Panics /\ pc \notin DOMAIN Awaited /\ pc # "reserve"
  BY Zenon DEF Awaited, Stopping, Panics
<1> HIDE DEF q, r
<1>4. Live(proc[p]) /\ proc[p].pc \notin DOMAIN Awaited /\ proc[p].pc # "reserve"
  BY <1>2, <1>3, Zenon DEF Live
<1>5. PICK x : x = proc[p].chan
  BY Zenon
<1>6. Clear(p, x)
  BY <1>2, <1>4, <1>5, IdleClear, Zenon
<1>7. Modest(proc[p], q, cp.tab)
  BY <1>1, <1>3, SameModest, Zenon
<1>8. ~Live(r) /\ ~Live(NoProc)
  BY <1>1, <1>3, NoProcFacts, Zenon DEF Live
<1>9. /\ Keeps(proc[p], q, x, cp.tab, send) /\ Keeps(proc[p], r, x, cp.tab, send)
      /\ Keeps(proc[p], NoProc, x, cp.tab, send)
  BY <1>4, <1>5, <1>7, <1>8, ModestKeeps, Zenon
<1> QED
  BY <1>2, <1>6, <1>9, DoneLease, Zenon

\* A reservation is granted or refused.
LEMMA ReservedLease ==
  ASSUME ProtocolInv, Leased(data), NEW p \in Procs, Reserved(p)
  PROVE  LeasedNext(data)
<1> DEFINE q == [proc[p] EXCEPT !.pc = "idle", !.held = IF Answer(p).ret = 0 THEN @ ELSE {}]
<1>1. /\ q.pc = "idle" /\ q.chan = proc[p].chan /\ q.bgs = proc[p].bgs
      /\ q.held = IF Answer(p).ret = 0 THEN proc[p].held ELSE {}
  BY ShapeOf, Zenon DEF Fields
<1>2. Dequeue(p, "reserve") /\ NoRequest(p, q, pool + 1)
  BY Zenon DEF Reserved
<1>3. /\ "reserve" \in DOMAIN Awaited
      /\ "idle" \notin Stopping \cup {"unreserve"}
  BY Zenon DEF Awaited, Stopping
<1> HIDE DEF q
<1>4. PICK x : x = proc[p].chan
  BY Zenon
<1>5. /\ Live(proc[p]) /\ Clear(p, x)
      /\ Answer(p) = send[x][1] /\ send[x] # <<>>
  BY <1>2, <1>3, <1>4, ReplyClear, Zenon
<1>6. \A c \in q.held : Claims(proc[p], send, c)
  BY <1>1, <1>4, <1>5, Zenon DEF Claims
<1>7. \A c \in q.bgs : Acquired(cp.tab, c, x)
  BY <1>1, <1>4, <1>5, Zenon DEF Leased, LeaseInv, LeaseOK
<1>8. Keeps(proc[p], q, x, cp.tab, send)
  BY <1>1, <1>3, <1>4, <1>6, <1>7, Zenon DEF Keeps
<1> QED
  BY <1>2, <1>5, <1>8, DoneLease, Zenon

\* The containers of a mounted process, and its channel.
LEMMA ServingFacts ==
  ASSUME ProtocolInv, NEW dt, Leased(dt), NEW p \in Procs, InService(p), send' = send,
         NEW x, x = proc[p].chan
  PROVE  /\ Clear(p, x)
         /\ \A c \in proc[p].bgs : Acquired(cp.tab, c, x)
         /\ \A c \in proc[p].held : Claims(proc[p], send, c)
<1>1. Live(proc[p]) /\ proc[p].pc \notin DOMAIN Awaited /\ proc[p].pc # "reserve"
  BY Zenon DEF InService, Live, Panics, Awaited
<1>2. Clear(p, x)
  BY <1>1, IdleClear, Zenon
<1>3. \A c \in proc[p].bgs : Acquired(cp.tab, c, x)
  BY <1>1, Zenon DEF Leased, LeaseInv, LeaseOK
<1>4. \A c \in proc[p].held : Claims(proc[p], send, c)
  BY <1>1, Zenon DEF Claims
<1> QED
  BY <1>2, <1>3, <1>4, Zenon

\* A process asks for a reservation of a container of a directory.
LEMMA ReserveLease ==
  ASSUME Plain("reserve_any"), ProtocolInv, Leased(data), NEW p \in Procs,
         NEW c \in Containers, NEW type \in {"READ", "WRITE"}, Reserve(p, c, type)
  PROVE  LeasedNext(data)
<1> DEFINE q == [proc[p] EXCEPT !.pc = "reserve", !.held = {c}]
<1>1. /\ DOMAIN q = Fields /\ q.pc = "reserve" /\ q.chan = proc[p].chan
      /\ q.bgs = proc[p].bgs /\ q.held = {c}
  BY ShapeOf, Zenon DEF Fields
<1>2. /\ InService(p) /\ send' = send /\ c \in RootsOf(cp.dirs)
      /\ Request(p, q, pool, "RESERVATION_ACQUIRE", <<c, type>>)
  BY Zenon DEF Reserve, Ask, Roots, RootsOf
<1>3. "reserve" \notin Stopping \cup {"unreserve"}
  BY Zenon DEF Stopping
<1> HIDE DEF q
<1>4. PICK x : x = proc[p].chan
  BY Zenon
<1>5. Clear(p, x) /\ \A d \in proc[p].bgs : Acquired(cp.tab, d, x)
  BY <1>2, <1>4, ServingFacts, Zenon
<1>6. Keeps(proc[p], q, x, cp.tab, send)
  BY <1>1, <1>3, <1>4, <1>5, Zenon DEF Keeps
<1>7. PICK a, m : a = <<c, type>> /\ m = [op |-> "RESERVATION_ACQUIRE", chan |-> q.chan, arg |-> a]
  BY Zenon
<1>8. m.op = "RESERVATION_ACQUIRE" /\ m.arg = a /\ a[1] = c
  BY <1>7, Zenon
<1>9. m.arg[1] = c
  BY <1>8, Zenon
<1>10. Fits(proc[p], q, m, cp.tab, cp.dirs, data, send)
  <2>1. RequestOK(m, cp.tab, cp.dirs, data)
    BY <1>2, <1>8, <1>9, Zenon DEF RequestOK
  <2> QED BY <1>1, <1>8, <1>9, <2>1, Zenon DEF Fits
<1>11. Request(p, q, pool, "RESERVATION_ACQUIRE", a) /\ q.chan = x
  BY <1>1, <1>2, <1>4, <1>7, Zenon
<1> QED
  BY <1>1, <1>5, <1>6, <1>7, <1>10, <1>11, RequestLease, Zenon

\* A process gives its reservation back.
LEMMA UnreserveLease ==
  ASSUME ProtocolInv, Leased(data), NEW p \in Procs, NEW c \in Containers, Unreserve(p, c)
  PROVE  LeasedNext(data)
<1> DEFINE q == [proc[p] EXCEPT !.pc = "unreserve", !.held = {}]
<1>1. /\ DOMAIN q = Fields /\ q.pc = "unreserve" /\ q.chan = proc[p].chan
      /\ q.bgs = proc[p].bgs /\ q.held = {}
  BY ShapeOf, Zenon DEF Fields
<1>2. /\ InService(p) /\ send' = send /\ c \in proc[p].held
      /\ Request(p, q, pool, "RESERVATION_RELEASE", c)
  BY Zenon DEF Unreserve
<1>3. "unreserve" \notin Stopping
  BY Zenon DEF Stopping
<1> HIDE DEF q
<1>4. PICK x : x = proc[p].chan
  BY Zenon
<1>5. /\ Clear(p, x) /\ \A d \in proc[p].bgs : Acquired(cp.tab, d, x)
      /\ Claims(proc[p], send, c)
  BY <1>2, <1>4, ServingFacts, Zenon
<1>6. Keeps(proc[p], q, x, cp.tab, send)
  BY <1>1, <1>3, <1>4, <1>5, Zenon DEF Keeps
<1>7. PICK m : m = [op |-> "RESERVATION_RELEASE", chan |-> q.chan, arg |-> c]
  BY Zenon
<1>8. m.op = "RESERVATION_RELEASE" /\ m.arg = c
  BY <1>7, Zenon
<1>9. Fits(proc[p], q, m, cp.tab, cp.dirs, data, send)
  BY <1>5, <1>8, Zenon DEF Fits, RequestOK
<1> QED
  BY <1>1, <1>2, <1>4, <1>5, <1>6, <1>7, <1>9, RequestLease, Zenon

\* A process gives back a container that holds nothing any more.
LEMMA RemoveBgLease ==
  ASSUME ProtocolInv, Leased(data), NEW p \in Procs, NEW c \in Containers, RemoveBg(p, c)
  PROVE  LeasedNext(data')
<1> DEFINE q == [proc[p] EXCEPT !.pc = "give", !.bgs = @ \ {c}]
<1>1. /\ DOMAIN q = Fields /\ q.pc = "give" /\ q.chan = proc[p].chan
      /\ q.bgs = proc[p].bgs \ {c} /\ q.held = proc[p].held
  BY ShapeOf, Zenon DEF Fields
<1>2. /\ InService(p) /\ send' = send /\ c \in proc[p].bgs /\ c \notin RootsOf(cp.dirs)
      /\ data' = [data EXCEPT ![c] = {}]
      /\ Request(p, q, pool, "CONTAINER_RELEASE", c)
  BY Zenon DEF RemoveBg, Ask, Removable, Roots, RootsOf
<1>3. "give" \notin Stopping \cup {"unreserve"} /\ "give" # "reserve"
  BY Zenon DEF Stopping
<1> HIDE DEF q
<1>4. PICK x, dt, tab, dirs : x = proc[p].chan /\ dt = data' /\ tab = cp.tab /\ dirs = cp.dirs
  BY Zenon
<1>5. DOMAIN data = Containers /\ LeaseInv(tab, dirs, data, proc, recv, send)
  BY <1>4, Zenon DEF Leased, LeaseInv
<1>6. /\ DOMAIN dt = Containers /\ dt[c] = {}
      /\ \A d \in Containers : dt[d] = data[d] \/ dt[d] = {}
  BY <1>2, <1>4, <1>5, Zenon
<1>7. LeaseInv(tab, dirs, dt, proc, recv, send)
  BY <1>5, <1>6, DataLease, Zenon
<1>8. Leased(dt)
  BY <1>4, <1>7, Zenon DEF Leased
<1>9. /\ Clear(p, x) /\ \A d \in proc[p].bgs : Acquired(cp.tab, d, x)
      /\ \A d \in proc[p].held : Claims(proc[p], send, d)
  BY <1>2, <1>4, ServingFacts, Zenon
<1>10. Keeps(proc[p], q, x, cp.tab, send)
  BY <1>1, <1>3, <1>4, <1>9, Zenon DEF Keeps
<1>11. PICK m : m = [op |-> "CONTAINER_RELEASE", chan |-> q.chan, arg |-> c]
  BY Zenon
<1>12. m.op = "CONTAINER_RELEASE" /\ m.arg = c /\ m.chan = x
  BY <1>1, <1>4, <1>11, Zenon
<1>13. Fits(proc[p], q, m, cp.tab, cp.dirs, dt, send)
  BY <1>1, <1>2, <1>6, <1>9, <1>12, Zenon DEF Fits, RequestOK
<1>14. LeasedNext(dt)
  BY <1>1, <1>2, <1>4, <1>8, <1>9, <1>10, <1>11, <1>13, RequestLease, Zenon
<1> QED
  BY <1>4, <1>14, Zenon

\* A process gets a container in service and has a file in it.
LEMMA GotContainerLease ==
  ASSUME ProtocolInv, Leased(data), NEW p \in Procs, GotContainer(p)
  PROVE  LeasedNext(data')
<1>1. PICK c, x, dt, tab, dirs : /\ c = Answer(p).ret /\ x = proc[p].chan /\ dt = data'
                                 /\ tab = cp.tab /\ dirs = cp.dirs
  BY Zenon
<1> DEFINE a == [proc[p] EXCEPT !.pc = IF c = 0 THEN "assert_space" ELSE "idle"]
           q == AddBg(a, c)
<1>2. /\ DOMAIN a = Fields /\ a.pc = (IF c = 0 THEN "assert_space" ELSE "idle")
      /\ a.chan = proc[p].chan /\ a.bgs = proc[p].bgs /\ a.held = proc[p].held
  BY ShapeOf, Zenon DEF Fields
<1>3. /\ Dequeue(p, "need") /\ NoRequest(p, q, pool + PutBack(p))
      /\ data' = [d \in Containers |-> IF d = c /\ c # 0 THEN data[d] \cup {Name(p)} ELSE data[d]]
  BY <1>1, Zenon DEF GotContainer
<1>4. "need" \in DOMAIN Awaited /\ "need" # "reserve"
  BY Zenon DEF Awaited
<1>5. /\ Live(proc[p]) /\ Clear(p, x) /\ NoRequestOf(recv, x)
  BY <1>1, <1>3, <1>4, ReplyClear, Zenon
<1>6. c = 0 \/ Acquired(tab, c, x)
  BY <1>1, <1>3, AnswerAcquired, Zenon
<1>7. x # 0
  <2>1. x \in ChannelIds
    BY <1>5, Zenon DEF Clear, Owns
  <2> QED BY <2>1, ControlAssumption DEF ChannelIds
<1> HIDE DEF a
<1>8. /\ DOMAIN q = Fields /\ q.pc = a.pc /\ q.chan = x
      /\ \A d \in q.bgs : d \in proc[p].bgs \/ Acquired(tab, d, x)
      /\ q.held = proc[p].held
  <2>1. DOMAIN q = Fields /\ q.pc = a.pc /\ q.chan = a.chan
    BY <1>2, AddBgShape, Zenon
  <2>2. c = 0 \/ Acquired(tab, c, a.chan)
    BY <1>1, <1>2, <1>6, Zenon
  <2>3. /\ \A d \in q.bgs : d \in a.bgs \/ Acquired(tab, d, a.chan)
        /\ q.held = a.held
    BY <1>2, <2>2, AddBgModest, Zenon
  <2> HIDE DEF q
  <2> QED BY <1>1, <1>2, <2>1, <2>3, Zenon
<1> HIDE DEF q
<1>9. Live(q) => Modest(proc[p], q, cp.tab)
  <2>1. q.pc \notin Stopping \cup {"unreserve"}
    BY <1>2, <1>8, Zenon DEF Stopping
  <2> QED BY <1>1, <1>8, <2>1, Zenon DEF Modest
<1>10. LeaseInv(tab, dirs, data, proc, recv, send)
  BY <1>1, Zenon DEF Leased
<1>11. \A d \in Containers :
         \/ dt[d] = data[d]
         \/ /\ tab[d].owner # 0
            /\ \A i \in 1..Len(recv) : recv[i].op = "CONTAINER_RELEASE" => recv[i].arg # d
  <2> SUFFICES ASSUME NEW d \in Containers, dt[d] # data[d]
               PROVE  /\ tab[d].owner # 0
                      /\ \A i \in 1..Len(recv) :
                           recv[i].op = "CONTAINER_RELEASE" => recv[i].arg # d
    BY Zenon
  <2>1. Acquired(tab, d, x)
    BY <1>1, <1>3, <1>6, Zenon
  <2>2. ASSUME NEW i \in 1..Len(recv), recv[i].op = "CONTAINER_RELEASE", recv[i].arg = d
        PROVE  FALSE
    <3>1. Acquired(tab, d, recv[i].chan) /\ recv[i].chan # x
      BY <1>5, <1>10, <2>2, Zenon DEF LeaseInv, RequestOK, NoRequestOf
    <3> QED BY <2>1, <3>1, Zenon DEF Acquired
  <2> QED BY <1>7, <2>1, <2>2, Zenon DEF Acquired
<1>12. DOMAIN dt = Containers
  BY <1>1, <1>3, Zenon
<1>13. LeaseInv(tab, dirs, dt, proc, recv, send)
  BY <1>10, <1>11, <1>12, DataLease, Zenon
<1>14. Leased(dt)
  BY <1>1, <1>13, Zenon DEF Leased
<1>15. LeasedNext(dt)
  BY <1>3, <1>4, <1>9, <1>14, ReplyDoneLease, Zenon
<1> QED
  BY <1>1, <1>15, Zenon

\* A process that crashes leaves its claims to nobody.
LEMMA CrashLease ==
  ASSUME ProtocolInv, Leased(data), NEW p \in Procs, Crash(p)
  PROVE  LeasedNext(data)
<1>1. PICK tab, dirs : tab = cp.tab /\ dirs = cp.dirs
  BY Zenon
<1>2. proc' = [proc EXCEPT ![p] = NoProc] /\ recv' = recv /\ send' = send
  BY Zenon DEF Crash
<1>3. \A r \in Procs : Live(proc'[r]) => proc'[r] = proc[r] /\ Live(proc[r])
  BY <1>2, NoProcFacts, Zenon DEF ProtocolInv, ProcsOK
<1>4. LeaseInv(tab, dirs, data, proc, recv, send) /\ \A c \in Containers : tab[c].ref \in Nat
  BY <1>1, ControlShape, Zenon DEF Leased
<1>5. ASSUME NEW c \in Containers
      PROVE  Cardinality(Claimants(c, proc', recv', send')) <= tab[c].ref
  <2> DEFINE A == Claimants(c, proc, recv, send)
             B == Claimants(c, proc', recv', send')
  <2>1. B \subseteq A
    BY <1>2, <1>3, Zenon DEF Claimants, Claims
  <2>2. /\ IsFiniteSet(A) /\ Cardinality(A) \in Nat /\ Cardinality(B) \in Nat
        /\ Cardinality(A) <= tab[c].ref
    BY <1>4, <1>5, ClaimantsFinite, Zenon DEF LeaseInv
  <2> HIDE DEF A, B
  <2>3. Cardinality(B) <= Cardinality(A)
    BY <2>1, <2>2, FS_Subset, Zenon
  <2>4. Cardinality(B) <= tab[c].ref
    <3>1. tab[c].ref \in Nat
      BY <1>4, <1>5, Zenon
    <3> QED BY <2>2, <2>3, <3>1
  <2> QED BY <2>4, Zenon DEF B
<1>6. \A r \in Procs : Live(proc'[r]) => LeaseOK(proc'[r], tab, recv', send')
  BY <1>2, <1>3, <1>4, Zenon DEF LeaseInv
<1>7. LeaseInv(tab, dirs, data, proc', recv', send')
  BY <1>2, <1>4, <1>5, <1>6, Zenon DEF LeaseInv
<1> QED
  BY <1>1, <1>7, Zenon DEF LeasedNext

\* The steps that leave the files alone.
LEMMA ProcessData ==
  ASSUME NEW p \in Procs, Process(p)
  PROVE  \/ data' = data
         \/ GotContainer(p)
         \/ \E c \in Containers : RemoveBg(p, c)
<1>1. CASE Receive(p)
  BY <1>1, Zenon
  DEF Receive, MountBuffers, MountRegistered, MountCopied, MountFetched,
     MountPreallocated, MountChecked, GotBuffer, RemovedBg,
     Reserved, Unreserved, UmountFreed, UmountDone
<1>2. CASE \/ Mount(p) \/ IpcInit(p) \/ NeedContainer(p) \/ NeedBuffer(p)
           \/ Umount(p) \/ IpcExit(p) \/ Crash(p)
  BY <1>2, Zenon
  DEF Mount, IpcInit, NeedContainer, NeedBuffer, Umount, IpcExit, Crash
<1>3. CASE \E c \in Containers : RemoveBg(p, c) \/ Unreserve(p, c)
  BY <1>3, Zenon DEF Unreserve
<1>4. CASE \E c \in Containers, type \in {"READ", "WRITE"} : Reserve(p, c, type)
  BY <1>4, Zenon DEF Reserve
<1> QED
  BY <1>1, <1>2, <1>3, <1>4, Zenon DEF Process

\* Every step of a process leaves the leases in order.
LEMMA ProcessLease ==
  ASSUME Plain("overlap"), Plain("reserve_any"), ProtocolInv, Leased(data),
         NEW p \in Procs, Process(p)
  PROVE  LeasedNext(data')
<1>1. CASE GotContainer(p) \/ \E c \in Containers : RemoveBg(p, c)
  BY <1>1, GotContainerLease, RemoveBgLease, Zenon
<1>2. CASE data' = data /\ ~GotContainer(p) /\ ~\E c \in Containers : RemoveBg(p, c)
  <2> SUFFICES LeasedNext(data)
    BY <1>2, Zenon
  <2>1. CASE Receive(p)
    BY <1>2, <2>1, MountBuffersLease, MountRegisteredLease, MountCopiedLease,
       MountFetchedLease, MountPreallocatedLease, MountCheckedLease, AnsweredLease,
       ReservedLease, UmountFreedLease, UmountDoneLease, Zenon DEF Receive
  <2>2. CASE \/ Mount(p) \/ IpcInit(p) \/ NeedContainer(p) \/ NeedBuffer(p)
             \/ Umount(p) \/ IpcExit(p) \/ Crash(p)
    BY <2>2, MountLease, AttachLease, NeedLease, UmountLease, CrashLease, Zenon
  <2>3. CASE \E c \in Containers : Unreserve(p, c)
    BY <2>3, UnreserveLease, Zenon
  <2>4. CASE \E c \in Containers, type \in {"READ", "WRITE"} : Reserve(p, c, type)
    BY <2>4, ReserveLease, Zenon
  <2> QED BY <1>2, <2>1, <2>2, <2>3, <2>4, Zenon DEF Process
<1> QED
  BY <1>1, <1>2, ProcessData, Zenon

\* A control plane that has just started for the first time.
LEMMA FreshControl ==
  ASSUME NEW s, Fresh(s)
  PROVE  /\ ControlOK(s)
         /\ RootsOf(s.dirs) = {}
         /\ \A c \in Containers : s.tab[c].ref = 0
<1> DEFINE first == [FreeEntry EXCEPT !.owner = ControlOwner]
<1>1. /\ DOMAIN s = CpFields /\ s.stop = "none" /\ s.last = 0 /\ s.free = NrContainers - 1
      /\ s.dirs = <<>>
      /\ s.tab = [c \in Containers |-> IF c = 0 THEN first ELSE FreeEntry]
  BY Zenon DEF Fresh
<1>2. /\ first \in Entries /\ first.owner = ControlOwner /\ first.status = "UNLOCKED"
      /\ first.ref = 0
      /\ FreeEntry \in Entries /\ FreeEntry.owner = 0 /\ FreeEntry.status = "UNLOCKED"
      /\ FreeEntry.ref = 0 /\ ControlOwner # 0
  BY ControlAssumption DEF FreeEntry, Entries, Statuses, ControlOwner
<1> HIDE DEF first
<1>3. EntryOK(first, 0) /\ \A c \in Containers \ {0} : EntryOK(FreeEntry, c)
  <2>1. ~(0 > 0)
    OBVIOUS
  <2> QED BY <1>2, <2>1, Zenon DEF EntryOK
<1>4. /\ DOMAIN s.tab = Containers
      /\ \A c \in Containers : s.tab[c] = IF c = 0 THEN first ELSE FreeEntry
  BY <1>1, Zenon
<1>5. \A c \in Containers : EntryOK(s.tab[c], c) /\ s.tab[c].ref = 0
  BY <1>2, <1>3, <1>4, Zenon
<1>6. FreeOf(s.tab) = 1..(NrContainers - 1)
  <2>1. \A c \in Containers : s.tab[c].owner = 0 <=> c # 0
    BY <1>2, <1>4, Zenon
  <2>2. FreeOf(s.tab) = {c \in Containers : c # 0}
    BY <2>1, Zenon DEF FreeOf
  <2>3. {c \in Containers : c # 0} = 1..(NrContainers - 1)
    BY ControlAssumption DEF Containers
  <2> QED BY <2>2, <2>3, Zenon
<1>7. s.free = Cardinality(FreeOf(s.tab))
  <2>1. Cardinality(1..(NrContainers - 1)) = NrContainers - 1
    BY ControlAssumption, FS_Interval
  <2> QED BY <1>1, <1>6, <2>1, Zenon
<1>8. RootsOf(s.dirs) = {}
  <2>1. DOMAIN <<>> = {}
    OBVIOUS
  <2> QED BY <1>1, <2>1, Zenon DEF RootsOf
<1>9. s.last \in Containers
  BY <1>1, ControlAssumption DEF Containers
<1> QED
  BY <1>1, <1>4, <1>5, <1>7, <1>8, <1>9, Zenon DEF ControlOK

\* The primary process starts with everything free.
LEMMA StartControl ==
  ASSUME Plain("restart"), ProtocolInv, ControlInv, PrimaryStart
  PROVE  ControlInv'
<1>1. CASE primary' # "running"
  <2>1. primary' = "stopped" /\ ondisk' = ondisk
    BY <1>1, Zenon DEF PrimaryStart
  <2> QED BY <2>1, Zenon DEF ControlInv
<1>2. CASE primary' = "running"
  <2>1. Fresh(cp') /\ ondisk' = "MOUNTED" /\ ondisk = "FORMATTED"
    BY <1>2, StartFresh, Zenon DEF ControlInv
  <2>2. /\ primary = "off" /\ data' = data /\ proc' = proc /\ recv' = <<>>
        /\ send' = [ch \in ChannelIds |-> <<>>]
    BY <1>2, Zenon DEF PrimaryStart, NvfuseIpcInit
  <2>3. data' = [c \in Containers |-> {}] /\ proc' = [p \in Procs |-> NoProc]
    BY <2>1, <2>2, Zenon DEF ControlInv, ProtocolInv
  <2>4. \A p \in Procs : ~Live(proc'[p])
    BY <2>3, NoProcFacts, Zenon
  <2>5. 1..Len(recv') = {}
    BY <2>2
  <2>6. /\ ControlOK(cp')
        /\ \A c \in Containers : cp'.tab[c].ref = 0
    BY <2>1, FreshControl, Zenon
  <2>7. PICK tab, dirs : tab = cp'.tab /\ dirs = cp'.dirs
    BY Zenon
  <2>8. \A c \in Containers : Cardinality(Claimants(c, proc', recv', send')) <= tab[c].ref
    <3> SUFFICES ASSUME NEW c \in Containers
                 PROVE  Cardinality(Claimants(c, proc', recv', send')) <= tab[c].ref
      BY Zenon
    <3>1. Claimants(c, proc', recv', send') = {}
      BY <2>4, <2>5, Zenon DEF Claimants, Claims
    <3>2. tab[c].ref = 0
      BY <2>6, <2>7, Zenon
    <3>3. Cardinality({}) = 0 /\ 0 <= 0
      BY FS_EmptySet
    <3> QED BY <3>1, <3>2, <3>3, Zenon
  <2>9. LeaseInv(tab, dirs, data', proc', recv', send')
    BY <2>3, <2>4, <2>5, <2>8, Zenon DEF LeaseInv
  <2> QED BY <1>2, <2>1, <2>6, <2>7, <2>9, Zenon DEF ControlInv
<1> QED
  BY <1>1, <1>2, Zenon

\* The only step of a process that is not there.
LEMMA OnlyMount ==
  ASSUME NEW p \in Procs, Process(p), proc[p] = NoProc
  PROVE  Mount(p)
<1>1. proc[p].pc = "off"
  BY NoProcFacts, Zenon
<1>2. ~Receive(p)
  BY <1>1, Zenon
  DEF Receive, MountBuffers, MountRegistered, MountCopied, MountFetched,
     MountPreallocated, MountChecked, GotContainer, GotBuffer, RemovedBg,
     Reserved, Unreserved, UmountFreed, UmountDone, Dequeue
<1>3. ~(\/ IpcInit(p) \/ NeedContainer(p) \/ NeedBuffer(p) \/ Umount(p) \/ IpcExit(p) \/ Crash(p))
  BY <1>1, Zenon
  DEF IpcInit, NeedContainer, NeedBuffer, Umount, IpcExit, Crash, Ask, InService, Gone
<1>4. ~ \E c \in Containers : RemoveBg(p, c) \/ Unreserve(p, c)
  BY <1>1, Zenon DEF RemoveBg, Unreserve, Ask, InService
<1>5. ~ \E c \in Containers, type \in {"READ", "WRITE"} : Reserve(p, c, type)
  BY <1>1, Zenon DEF Reserve, Ask, InService
<1> QED
  BY <1>2, <1>3, <1>4, <1>5, Zenon DEF Process

\* Every step leaves the table and the leases in order.
LEMMA NextControl ==
  ASSUME Plain("overlap"), Plain("reserve_any"), Plain("restart"),
         ProtocolInv, ControlInv, [Next]_vars
  PROVE  ControlInv'
<1>1. CASE UNCHANGED vars
  BY <1>1, Zenon DEF ControlInv, vars
<1>2. CASE NvfuseFormat
  BY <1>2, Zenon DEF ControlInv, NvfuseFormat
<1>3. CASE MountRefused
  BY <1>3, Zenon DEF ControlInv, MountRefused
<1>4. CASE PrimaryStart
  BY <1>4, StartControl, Zenon
<1>5. CASE PrimaryStop \/ PrimaryCrash
  <2>1. primary' = "off" /\ ondisk' \in {"MOUNTED", "UMOUNTED"}
    BY <1>5, Zenon DEF ControlInv, PrimaryStop, PrimaryCrash
  <2> QED BY <2>1, Zenon DEF ControlInv
<1>6. CASE PrimaryPoll
  BY <1>6, PollControl, Zenon
<1>7. ASSUME NEW p \in Procs, Process(p)
      PROVE  ControlInv'
  <2>1. cp' = cp /\ ondisk' = ondisk /\ primary' = primary
    BY <1>7, ProcessOutside, Zenon DEF world
  <2>2. CASE primary = "running"
    <3>1. Leased(data) /\ ondisk = "MOUNTED"
      BY <2>2, Zenon DEF ControlInv, Leased
    <3>2. LeasedNext(data')
      BY <1>7, <3>1, ProcessLease, Zenon
    <3> QED BY <2>1, <2>2, <3>1, <3>2, Zenon DEF ControlInv, Leased, LeasedNext
  <2>3. CASE primary = "stopped"
    BY <2>1, <2>3, Zenon DEF ControlInv
  <2>4. CASE primary = "off"
    <3>1. proc[p] = NoProc
      BY <1>7, <2>4, Zenon DEF ProtocolInv
    <3>2. Mount(p)
      BY <1>7, <3>1, OnlyMount, Zenon
    <3> QED BY <2>4, <3>2, Zenon DEF Mount
  <2> QED BY <2>2, <2>3, <2>4, Zenon DEF ProtocolInv
<1> QED
  BY <1>1, <1>2, <1>3, <1>4, <1>5, <1>6, <1>7, Zenon DEF Next

\* The processes that have a reservation are claimants on their channels.
LEMMA HoldersClaim ==
  ASSUME ProtocolInv, NEW c
  PROVE  /\ Cardinality(Holders(c)) \in Nat
         /\ Cardinality(Holders(c)) <= Cardinality(Claimants(c, proc, recv, send))
<1>1. PICK S, T : S = Holders(c) /\ T = Claimants(c, proc, recv, send)
  BY Zenon
<1> DEFINE f == [p \in S |-> proc[p].chan]
<1>2. \A p \in S : /\ p \in Procs /\ Live(proc[p]) /\ proc[p].chan \in ChannelIds
                   /\ Claims(proc[p], send, c)
  BY <1>1, Zenon DEF Holders, Gone, Live, Claims, ProtocolInv, ChannelsInv
<1>3. \A p \in S : proc[p].chan \in T
  BY <1>1, <1>2, Zenon DEF Claimants
<1>4. \A p, q \in S : proc[p].chan = proc[q].chan => p = q
  BY <1>2, Zenon DEF ProtocolInv, ChannelsInv
<1>5. f \in [S -> T] /\ \A p, q \in S : f[p] = f[q] => p = q
  BY <1>3, <1>4, Zenon
<1> HIDE DEF f
<1>6. f \in Injection(S, T)
  BY <1>5, Zenon DEF Injection, IsInjective
<1>7. IsFiniteSet(T)
  BY <1>1, ClaimantsFinite, Zenon
<1>8. IsFiniteSet(S) /\ Cardinality(S) <= Cardinality(T)
  BY <1>6, <1>7, FS_Injection, Zenon
<1> QED
  BY <1>1, <1>8, FS_CardinalityType, Zenon

\* What the invariant says of the leases.
LEMMA LeasesFollow ==
  ASSUME ProtocolInv, ControlInv
  PROVE  LeasesSound
<1> SUFFICES ASSUME primary = "running"
             PROVE  LeasesSound
  BY Zenon
  DEF LeasesSound, ContainersLeased, FreeContainersEmpty, ContainersCounted,
               ReservationsCounted
<1>1. ControlOK(cp) /\ LeaseInv(cp.tab, cp.dirs, data, proc, recv, send)
  BY Zenon DEF ControlInv
<1>2. \A p \in Procs : ~Gone(p) => Live(proc[p])
  BY Zenon DEF Gone, Live
<1>3. \A p \in Procs : ~Gone(p) => \A c \in proc[p].bgs : Acquired(cp.tab, c, proc[p].chan)
  BY <1>1, <1>2, Zenon DEF LeaseInv, LeaseOK
<1>4. ContainersLeased
  <2>1. ASSUME NEW p \in Procs, NEW q \in Procs, ~Gone(p), ~Gone(q), p # q
        PROVE  proc[p].bgs \cap proc[q].bgs = {}
    <3>1. proc[p].chan # proc[q].chan
      BY <1>2, <2>1, Zenon DEF ProtocolInv, ChannelsInv
    <3> QED BY <1>3, <2>1, <3>1, Zenon DEF Acquired
  <2> QED BY <1>3, <2>1, Zenon DEF ContainersLeased, Acquired
<1>5. FreeContainersEmpty
  <2>1. \A c \in Containers : cp.tab[c].owner = 0 => data[c] = {} /\ c \notin RootsOf(cp.dirs)
    BY <1>1, Zenon DEF ControlOK, LeaseInv
  <2> QED BY <2>1, Zenon DEF FreeContainersEmpty, Roots, RootsOf
<1>6. ContainersCounted
  BY <1>1, Zenon DEF ContainersCounted, ControlOK, FreeOf
<1>7. ReservationsCounted
  <2>1. ASSUME NEW c \in Containers
        PROVE  Cardinality(Holders(c)) <= cp.tab[c].ref
    <3>1. PICK h, n : h = Cardinality(Holders(c)) /\ n = Cardinality(Claimants(c, proc, recv, send))
      BY Zenon
    <3>2. h <= n
      BY <3>1, HoldersClaim, Zenon
    <3>3. n \in Nat /\ n <= cp.tab[c].ref /\ cp.tab[c].ref \in Nat
      BY <1>1, <2>1, <3>1, ClaimantsFinite, ControlShape, Zenon DEF LeaseInv
    <3>4. h \in Nat
      BY <3>1, HoldersClaim, Zenon
    <3>5. h <= cp.tab[c].ref
      BY <3>2, <3>3, <3>4
    <3> QED BY <3>1, <3>5, Zenon
  <2>2. \A c \in Containers : EntryOK(cp.tab[c], c)
    BY <1>1, Zenon DEF ControlOK
  <2> QED BY <2>1, <2>2, Zenon DEF ReservationsCounted, EntryOK
<1> QED
  BY <1>4, <1>5, <1>6, <1>7, Zenon DEF LeasesSound

\* Starts and ends of processes that do not overlap, crashes only in service,
\* a primary process that starts only after mkfs, and reservations only of
\* the containers of directories: however many containers, channels and
\* processes there are, and whatever they ask for, a container is in the list
\* of one live process at most and the table of the control plane has its
\* channel as the owner, a container that may be handed out holds no file and
\* no directory, the count of free containers is right, and the reference
\* count of a container covers its reservations.
THEOREM LeasesAreSound ==
  ASSUME Plain("overlap"), Plain("crash_start"), Plain("reserve_any"), Plain("restart")
  PROVE  Spec => []LeasesSound
<1>1. Init => ControlInv
  BY Zenon DEF Init, ControlInv
<1>2. ProtocolInv /\ ControlInv /\ [Next]_vars => ControlInv'
  BY NextControl, Zenon
<1>3. ProtocolInv /\ ControlInv => LeasesSound
  BY LeasesFollow, Zenon
<1>4. Spec => []ProtocolInv
  BY Protocol, Zenon
<1> QED
  BY <1>1, <1>2, <1>3, <1>4, PTL DEF Spec

=============================================================================
