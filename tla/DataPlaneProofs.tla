-------------------------- MODULE DataPlaneProofs --------------------------
(***************************************************************************)
(* Proofs about DataPlane, for any number of processes, channels and       *)
(* containers: a process takes the answer to its own request               *)
(* (AnswersAreOwn), a crash of the primary process is detected             *)
(* (CrashesDetected), and every change of an owner is in the log           *)
(* (OwnersAreLogged).                                                      *)
(*                                                                         *)
(* AnswersAreOwn is about the channel numbers.  A start takes two of them  *)
(* and an end returns the first one twice, so the ring id_gen comes to     *)
(* hold numbers twice and the number of a live process once more.  The     *)
(* invariant ProtocolInv says where such numbers can be (ChannelsInv), and *)
(* that on the channel of a process nothing is on its way but the request  *)
(* it waits for or the answer to it (MessagesInv).                         *)
(* OwnersAreLogged is about the two log files: LogInv says that the one    *)
(* that is not next was the last to be written or read, across restarts.   *)
(***************************************************************************)
EXTENDS DataPlane, TLAPS

-----------------------------------------------------------------------------
(* The invariant.                                                          *)

\* A process that has not ended.
Live(q) == q.pc \notin {"off"} \cup Panics

\* Between the start of a mount and its end, or in a umount.
Changing == Starting \cup Stopping

Pcs == {"off"} \cup Starting \cup Serving \cup Stopping \cup Panics

Fields == {"pc", "chan", "root", "state", "bgs", "buf", "count", "held"}

ProcsOK(P) ==
  /\ DOMAIN P = Procs
  /\ P = [p \in Procs |-> P[p]]
  /\ \A p \in Procs : /\ DOMAIN P[p] = Fields
                      /\ P[p].pc \in Pcs

\* Channel numbers.  A number that two entries of id_gen hold is in
\* neighbours; the one of a live process is in no entry but the next one to be
\* taken, while the process starts, or the last one, before it is gone.
ChannelsInv(P, id) ==
  /\ id \in Seq(ChannelIds)
  /\ \A i, j \in 1..Len(id) : i < j /\ id[i] = id[j] => j = i + 1
  /\ \A p, q \in Procs : p # q /\ P[p].pc \in Changing => P[q].pc \notin Changing
  /\ \A p, q \in Procs : p # q /\ Live(P[p]) /\ Live(P[q]) => P[p].chan # P[q].chan
  /\ \A p \in Procs : Live(P[p]) =>
       /\ P[p].chan \in ChannelIds
       /\ \A i \in 1..Len(id) : id[i] = P[p].chan =>
            \/ P[p].pc \in Starting /\ i = 1
            \/ P[p].pc = "detach" /\ i = Len(id)

Requested == [Awaited EXCEPT !.unreserve = "RESERVATION_RELEASE"]

NoRequestOf(rv, x) == \A i \in 1..Len(rv) : rv[i].chan # x

\* Nothing is under way to or from a process but the request it waits for, or
\* the answer to it; nothing at all when it does not wait.
OnItsWay(q, rv, sd) ==
  IF q.pc \in DOMAIN Awaited
  THEN \/ /\ sd[q.chan] = <<>>
          /\ \A i \in 1..Len(rv) : rv[i].chan = q.chan => rv[i].op = Requested[q.pc]
       \/ /\ NoRequestOf(rv, q.chan)
          /\ Len(sd[q.chan]) = 1
          /\ sd[q.chan][1].op = Awaited[q.pc]
  ELSE sd[q.chan] = <<>> /\ NoRequestOf(rv, q.chan)

Ops == {Requested[pc] : pc \in DOMAIN Requested}

IsSequence(s) == \E S : s \in Seq(S)

AreSequences(sd) == \E S : sd \in [ChannelIds -> Seq(S)]

RingsOK(rv, sd) ==
  /\ IsSequence(rv)
  /\ AreSequences(sd)
  /\ \A i \in 1..Len(rv) : rv[i].chan \in ChannelIds /\ rv[i].op \in Ops
  /\ \A i, j \in 1..Len(rv) : rv[i].chan = rv[j].chan => i = j

MessagesInv(P, rv, sd, id) ==
  /\ \A p \in Procs : Live(P[p]) => OnItsWay(P[p], rv, sd)
  /\ \A k \in 1..Len(id) :
       (\A p \in Procs : Live(P[p]) => P[p].chan # id[k])
         => sd[id[k]] = <<>> /\ NoRequestOf(rv, id[k])

ProtocolInv ==
  /\ primary \in {"off", "running", "stopped"}
  /\ primary = "off" => proc = [p \in Procs |-> NoProc]
  /\ ProcsOK(proc)
  /\ ChannelsInv(proc, ids)
  /\ RingsOK(recv, send)
  /\ MessagesInv(proc, recv, send, ids)

-----------------------------------------------------------------------------
(* Processes, rings and records.                                           *)

\* A process that is not there.
LEMMA NoProcFacts ==
  /\ DOMAIN NoProc = Fields
  /\ NoProc.pc = "off"
  /\ NoProc.bgs = {} /\ NoProc.held = {}
  /\ ~Live(NoProc)
  BY Zenon DEF NoProc, Fields, Live

\* A message at the end of a ring.
LEMMA AppendEffect ==
  ASSUME NEW rv, IsSequence(rv), NEW m
  PROVE  /\ IsSequence(Append(rv, m))
         /\ \A i \in 1..Len(Append(rv, m)) :
              \/ i \in 1..Len(rv) /\ Append(rv, m)[i] = rv[i]
              \/ i = Len(rv) + 1 /\ Append(rv, m)[i] = m
         /\ \A i \in 1..Len(rv) :
              i \in 1..Len(Append(rv, m)) /\ Append(rv, m)[i] = rv[i] /\ i # Len(rv) + 1
<1>1. PICK S : rv \in Seq(S)
  BY DEF IsSequence
<1>2. rv \in Seq(S \cup {m})
  BY <1>1
<1>3. Append(rv, m) \in Seq(S \cup {m})
  BY <1>2
<1>4. Len(rv) \in Nat /\ Len(Append(rv, m)) = Len(rv) + 1
  BY <1>2
<1>5. /\ Append(rv, m)[Len(rv) + 1] = m
      /\ \A i \in 1..Len(rv) : Append(rv, m)[i] = rv[i]
  BY <1>2
<1> QED
  BY <1>3, <1>4, <1>5 DEF IsSequence

\* The first message leaves a ring.
LEMMA TailEffect ==
  ASSUME NEW rv, IsSequence(rv), rv # <<>>
  PROVE  /\ IsSequence(Tail(rv))
         /\ Len(rv) \in Nat \ {0}
         /\ Len(Tail(rv)) = Len(rv) - 1
         /\ \A i \in 1..Len(Tail(rv)) : Tail(rv)[i] = rv[i + 1]
         /\ Head(rv) = rv[1]
<1>1. PICK S : rv \in Seq(S)
  BY DEF IsSequence
<1>2. /\ Tail(rv) \in Seq(S) /\ Len(rv) \in Nat \ {0} /\ Len(Tail(rv)) = Len(rv) - 1
      /\ \A i \in 1..Len(Tail(rv)) : Tail(rv)[i] = rv[i + 1]
      /\ Head(rv) = rv[1]
  BY <1>1
<1> QED
  BY <1>2, Zenon DEF IsSequence

\* A request goes out when there is a message for it; without one the process
\* panics.  p works on channel x.
Moved(P, P2, rv, rv2, p, x) ==
  /\ ProcsOK(P2)
  /\ \A r \in Procs \ {p} : P2[r] = P[r]
  /\ \/ /\ rv2 = rv
        /\ Live(P2[p]) => P2[p].chan = x /\ P2[p].pc \notin DOMAIN Awaited
     \/ /\ P2[p].chan = x
        /\ P2[p].pc \in DOMAIN Awaited
        /\ \E m : /\ rv2 = Append(rv, m)
                  /\ m.chan = x
                  /\ m.op = Requested[P2[p].pc]

\* p has channel x to itself.
Owns(P, p, x) ==
  /\ x \in ChannelIds
  /\ Live(P[p]) => P[p].chan = x
  /\ \A r \in Procs \ {p} : Live(P[r]) => P[r].chan # x /\ P[r].chan \in ChannelIds

\* Nothing is on its way on channel x any more, and nothing changes on others.
Cleared(rv, sd, sd2, x) ==
  /\ AreSequences(sd2)
  /\ \A y \in ChannelIds \ {x} : sd2[y] = sd[y]
  /\ sd2[x] = <<>>
  /\ NoRequestOf(rv, x)

\* No channel number but x is new in id_gen.
NumbersFrom(id, id2, x) ==
  /\ id \in Seq(ChannelIds)
  /\ \A k \in 1..Len(id2) : id2[k] = x \/ \E j \in 1..Len(id) : id[j] = id2[k]

\* A request, or the panic for want of a message, is a move.
LEMMA RequestMoves ==
  ASSUME NEW p \in Procs, NEW q, NEW free, NEW op, NEW arg, NEW x,
         ProcsOK(proc), DOMAIN q = Fields, q.pc \in DOMAIN Awaited, q.chan = x,
         op = Requested[q.pc],
         Request(p, q, free, op, arg)
  PROVE  /\ Moved(proc, proc', recv, recv', p, x)
         /\ proc'[p].chan = x
         /\ \/ /\ proc'[p] = q
               /\ recv' = Append(recv, [op |-> op, chan |-> q.chan, arg |-> arg])
            \/ proc'[p] = [q EXCEPT !.pc = "panic_pool"] /\ recv' = recv
<1>1. CASE free = 0
  <2> DEFINE r == [q EXCEPT !.pc = "panic_pool"]
  <2>1. DOMAIN r = Fields /\ r.pc = "panic_pool" /\ r.chan = q.chan
    BY DEF Fields
  <2>2. r.pc \in Pcs /\ ~Live(r)
    BY <2>1, Zenon DEF Pcs, Panics, Live
  <2>3. proc' = [proc EXCEPT ![p] = r] /\ recv' = recv
    BY <1>1, Zenon DEF Request
  <2> HIDE DEF r
  <2>4. ProcsOK(proc') /\ proc'[p] = r /\ \A s \in Procs \ {p} : proc'[s] = proc[s]
    BY <2>1, <2>2, <2>3, Zenon DEF ProcsOK
  <2> QED
    BY <2>1, <2>2, <2>3, <2>4, Zenon DEF Moved, r
<1>2. CASE free # 0
  <2> DEFINE m == [op |-> op, chan |-> q.chan, arg |-> arg]
  <2>1. m.chan = q.chan /\ m.op = op
    BY Zenon
  <2>2. proc' = [proc EXCEPT ![p] = q] /\ recv' = Append(recv, m)
    BY <1>2, Zenon DEF Request
  <2>3. q.pc \in Pcs
    BY Zenon DEF Pcs, Awaited, Starting, Serving, Stopping
  <2>4. ProcsOK(proc') /\ proc'[p] = q /\ \A s \in Procs \ {p} : proc'[s] = proc[s]
    BY <2>2, <2>3, Zenon DEF ProcsOK
  <2> HIDE DEF m
  <2> QED
    BY <2>1, <2>2, <2>4, Zenon DEF Moved, m
<1> QED
  BY <1>1, <1>2, Zenon

\* A step of a process that sends nothing is a move.
LEMMA NoRequestMoves ==
  ASSUME NEW p \in Procs, NEW q, NEW free, NEW x,
         ProcsOK(proc), DOMAIN q = Fields, q.pc \in Pcs,
         Live(q) => q.chan = x /\ q.pc \notin DOMAIN Awaited,
         NoRequest(p, q, free)
  PROVE  /\ Moved(proc, proc', recv, recv', p, x)
         /\ proc'[p] = q
         /\ recv' = recv
<1>1. proc' = [proc EXCEPT ![p] = q] /\ recv' = recv
  BY DEF NoRequest
<1>2. ProcsOK(proc') /\ proc'[p] = q /\ \A s \in Procs \ {p} : proc'[s] = proc[s]
  BY <1>1, Zenon DEF ProcsOK
<1> QED
  BY <1>1, <1>2, Zenon DEF Moved

\* The ring of length 0.
LEMMA EmptyRing ==
  ASSUME NEW S, NEW s \in Seq(S), Len(s) = 0
  PROVE  s = <<>>
  OBVIOUS

\* Nothing is left of a ring with one message.
LEMMA TailOfOne ==
  ASSUME NEW S, NEW s \in Seq(S), Len(s) = 1
  PROVE  Tail(s) \in Seq(S) /\ Tail(s) = <<>>
<1>1. s # <<>>
  OBVIOUS
<1>2. Tail(s) \in Seq(S) /\ Len(Tail(s)) = 0
  BY <1>1
<1> QED
  BY <1>2, EmptyRing, Zenon

\* An answer that is taken leaves nothing on its way to the process.
LEMMA DequeueEffect ==
  ASSUME NEW p \in Procs, NEW pc, Live(proc[p]), pc \in DOMAIN Awaited,
         proc[p].chan \in ChannelIds, RingsOK(recv, send),
         OnItsWay(proc[p], recv, send), Dequeue(p, pc)
  PROVE  /\ proc[p].pc = pc
         /\ Cleared(recv, send, send', proc[p].chan)
         /\ Answer(p) = send[proc[p].chan][1]
         /\ send[proc[p].chan] # <<>>
         /\ Answer(p).op = Awaited[pc]
<1> DEFINE x == proc[p].chan
<1>1. PICK S : send \in [ChannelIds -> Seq(S)]
  BY Zenon DEF RingsOK, AreSequences
<1>2. send[x] # <<>> /\ proc[p].pc = pc /\ send' = [send EXCEPT ![x] = Tail(@)]
  BY Zenon DEF Dequeue
<1>3. NoRequestOf(recv, x) /\ Len(send[x]) = 1 /\ send[x][1].op = Awaited[pc]
  BY <1>2, Zenon DEF OnItsWay
<1>4. Tail(send[x]) \in Seq(S) /\ Tail(send[x]) = <<>> /\ Head(send[x]) = send[x][1]
  <2>1. send[x] \in Seq(S)
    BY <1>1, Zenon
  <2>2. Tail(send[x]) \in Seq(S) /\ Tail(send[x]) = <<>>
    BY <2>1, <1>2, <1>3, TailOfOne, Zenon
  <2>4. Head(send[x]) = send[x][1]
    BY <2>1, <1>2
  <2> QED
    BY <2>2, <2>4, Zenon
<1>5. send' \in [ChannelIds -> Seq(S)]
  BY <1>1, <1>2, <1>4, Zenon
<1>6. send'[x] = <<>> /\ \A y \in ChannelIds \ {x} : send'[y] = send[y]
  BY <1>1, <1>2, <1>4, Zenon
<1> QED
  BY <1>2, <1>3, <1>4, <1>5, <1>6, Zenon DEF Answer, Cleared, AreSequences

\* Process p goes on where nothing is on its way on its channel x.
LEMMA MovedMessages ==
  ASSUME NEW P, NEW P2, NEW rv, NEW rv2, NEW sd, NEW sd2, NEW id, NEW id2,
         NEW p \in Procs, NEW x \in ChannelIds,
         RingsOK(rv, sd), MessagesInv(P, rv, sd, id),
         Owns(P, p, x), Cleared(rv, sd, sd2, x), NumbersFrom(id, id2, x),
         Moved(P, P2, rv, rv2, p, x)
  PROVE  RingsOK(rv2, sd2) /\ MessagesInv(P2, rv2, sd2, id2)
<1>0. /\ Live(P[p]) => P[p].chan = x
      /\ \A r \in Procs \ {p} : Live(P[r]) => P[r].chan # x /\ P[r].chan \in ChannelIds
      /\ \A y \in ChannelIds \ {x} : sd2[y] = sd[y]
      /\ sd2[x] = <<>>
      /\ NoRequestOf(rv, x)
      /\ id \in Seq(ChannelIds)
      /\ \A k \in 1..Len(id2) : id2[k] = x \/ \E j \in 1..Len(id) : id[j] = id2[k]
  BY Zenon DEF Owns, Cleared, NumbersFrom
<1>1. CASE rv2 = rv /\ (Live(P2[p]) => P2[p].chan = x /\ P2[p].pc \notin DOMAIN Awaited)
  <2>1. RingsOK(rv2, sd2)
    BY <1>1, Zenon DEF RingsOK, Cleared
  <2>2. ASSUME NEW r \in Procs, Live(P2[r]) PROVE OnItsWay(P2[r], rv2, sd2)
    <3>1. CASE r = p
      BY <1>0, <2>2, <3>1, <1>1, Zenon DEF OnItsWay
    <3>2. CASE r # p
      <4>1. P2[r] = P[r]
        BY <1>0, <3>2, Zenon DEF Moved
      <4>2. OnItsWay(P[r], rv, sd) /\ P[r].chan # x /\ P[r].chan \in ChannelIds
        BY <1>0, <4>1, <2>2, <3>2, Zenon DEF MessagesInv
      <4> QED
        BY <1>0, <4>1, <4>2, <1>1 DEF OnItsWay
    <3> QED
      BY <1>0, <3>1, <3>2, Zenon
  <2>3. ASSUME NEW k \in 1..Len(id2), \A r \in Procs : Live(P2[r]) => P2[r].chan # id2[k]
        PROVE  sd2[id2[k]] = <<>> /\ NoRequestOf(rv2, id2[k])
    <3>1. CASE id2[k] = x
      BY <1>0, <3>1, <1>1, Zenon
    <3>2. CASE id2[k] # x
      <4>1. PICK j \in 1..Len(id) : id[j] = id2[k]
        BY <1>0, <3>2, Zenon
      <4>2. \A r \in Procs : Live(P[r]) => P[r].chan # id[j]
        BY <1>0, <4>1, <3>2, <2>3, Zenon DEF Moved
      <4>3. sd[id[j]] = <<>> /\ NoRequestOf(rv, id[j]) /\ id[j] \in ChannelIds
        BY <1>0, <4>2 DEF MessagesInv
      <4> QED
        BY <1>0, <4>1, <4>3, <3>2, <1>1, Zenon
    <3> QED
      BY <1>0, <3>1, <3>2, Zenon
  <2> QED
    BY <1>0, <2>1, <2>2, <2>3, Zenon DEF MessagesInv
<1>2. ASSUME NEW m, rv2 = Append(rv, m), m.chan = x, m.op = Requested[P2[p].pc],
             P2[p].chan = x, P2[p].pc \in DOMAIN Awaited
      PROVE  RingsOK(rv2, sd2) /\ MessagesInv(P2, rv2, sd2, id2)
  <2>1. /\ IsSequence(rv2)
        /\ \A i \in 1..Len(rv2) : \/ i \in 1..Len(rv) /\ rv2[i] = rv[i]
                                  \/ i = Len(rv) + 1 /\ rv2[i] = m
    <3>1. IsSequence(rv)
      BY Zenon DEF RingsOK
    <3> QED
      BY <1>0, <3>1, <1>2, AppendEffect
  <2>2. /\ m.chan = x /\ m.op = Requested[P2[p].pc]
        /\ P2[p].chan = x /\ P2[p].pc \in DOMAIN Awaited
    BY <1>0, <1>2, Zenon
  <2>a. m.op \in Ops
    BY <1>0, <2>2, Zenon DEF Ops, Requested, Awaited
  <2>3. RingsOK(rv2, sd2)
    <3>1. \A i \in 1..Len(rv2) : rv2[i].chan \in ChannelIds /\ rv2[i].op \in Ops
      BY <1>0, <2>1, <2>2, <2>a, Zenon DEF RingsOK
    <3>2. \A i, j \in 1..Len(rv2) : rv2[i].chan = rv2[j].chan => i = j
      <4>1. \A i \in 1..Len(rv) : rv[i].chan # x
        BY <1>0, Zenon DEF NoRequestOf
      <4>2. \A i, j \in 1..Len(rv) : rv[i].chan = rv[j].chan => i = j
        BY Zenon DEF RingsOK
      <4>3. SUFFICES ASSUME NEW i \in 1..Len(rv2), NEW j \in 1..Len(rv2),
                            rv2[i].chan = rv2[j].chan
                     PROVE  i = j
        BY Zenon
      <4>4. \/ i \in 1..Len(rv) /\ rv2[i] = rv[i]
            \/ i = Len(rv) + 1 /\ rv2[i] = m
        BY <1>0, <2>1, Zenon
      <4>5. \/ j \in 1..Len(rv) /\ rv2[j] = rv[j]
            \/ j = Len(rv) + 1 /\ rv2[j] = m
        BY <1>0, <2>1, Zenon
      <4> QED
        BY <1>0, <2>2, <4>1, <4>2, <4>3, <4>4, <4>5
    <3> QED
      BY <2>1, <3>1, <3>2, Zenon DEF RingsOK, Cleared
  <2>4. \A y : y # x => (NoRequestOf(rv, y) => NoRequestOf(rv2, y))
    BY <1>0, <2>1, <2>2, Zenon DEF NoRequestOf
  <2>5. ASSUME NEW r \in Procs, Live(P2[r]) PROVE OnItsWay(P2[r], rv2, sd2)
    <3>1. CASE r = p
      <4>1. \A i \in 1..Len(rv2) : rv2[i].chan = x => rv2[i].op = Requested[P2[p].pc]
        BY <1>0, <2>1, <2>2, Zenon DEF NoRequestOf
      <4> QED
        BY <1>0, <3>1, <2>2, <4>1, Zenon DEF OnItsWay
    <3>2. CASE r # p
      <4>1. P2[r] = P[r]
        BY <1>0, <3>2, Zenon DEF Moved
      <4>2. OnItsWay(P[r], rv, sd) /\ P[r].chan # x /\ P[r].chan \in ChannelIds
        BY <1>0, <4>1, <2>5, <3>2, Zenon DEF MessagesInv
      <4>3. sd2[P[r].chan] = sd[P[r].chan]
        BY <1>0, <4>2, Zenon
      <4>4. \A i \in 1..Len(rv2) :
              rv2[i].chan = P[r].chan => i \in 1..Len(rv) /\ rv2[i] = rv[i]
        BY <1>0, <2>1, <2>2, <4>2, Zenon
      <4>5. CASE P[r].pc \in DOMAIN Awaited
        BY <1>0, <4>1, <4>2, <4>3, <4>4, <4>5, <2>4 DEF OnItsWay
      <4>6. CASE P[r].pc \notin DOMAIN Awaited
        BY <1>0, <4>1, <4>2, <4>3, <4>6, <2>4, Zenon DEF OnItsWay
      <4> QED
        BY <1>0, <4>5, <4>6, Zenon
    <3> QED
      BY <1>0, <3>1, <3>2, Zenon
  <2>6. ASSUME NEW k \in 1..Len(id2), \A r \in Procs : Live(P2[r]) => P2[r].chan # id2[k]
        PROVE  sd2[id2[k]] = <<>> /\ NoRequestOf(rv2, id2[k])
    <3>1. Live(P2[p])
      BY <1>0, <2>2, Zenon DEF Live, Awaited, Panics
    <3>2. id2[k] # x
      BY <1>0, <3>1, <2>2, <2>6, Zenon
    <3>3. PICK j \in 1..Len(id) : id[j] = id2[k]
      BY <1>0, <3>2, Zenon
    <3>4. \A r \in Procs : Live(P[r]) => P[r].chan # id[j]
      BY <1>0, <3>3, <3>2, <2>6, Zenon DEF Moved
    <3>5. sd[id[j]] = <<>> /\ NoRequestOf(rv, id[j]) /\ id[j] \in ChannelIds
      BY <1>0, <3>4 DEF MessagesInv
    <3> QED
      BY <1>0, <3>3, <3>5, <3>2, <2>4, Zenon
  <2> QED
    BY <1>0, <2>3, <2>5, <2>6, Zenon DEF MessagesInv
<1> QED
  BY <1>1, <1>2, Zenon DEF Moved

-----------------------------------------------------------------------------
(* A process keeps to the protocol.                                        *)

\* Where a process gets to without a channel number.
LEMMA MovedChannels ==
  ASSUME NEW P, NEW P2, NEW id, NEW p \in Procs, ChannelsInv(P, id),
         \A r \in Procs \ {p} : P2[r] = P[r],
         Live(P2[p]) => /\ Live(P[p]) /\ P2[p].chan = P[p].chan
                        /\ P[p].pc \in Starting => P2[p].pc \in Starting
                        /\ P[p].pc # "detach",
         P2[p].pc \in Changing => \/ P[p].pc \in Changing
                                  \/ \A r \in Procs \ {p} : P[r].pc \notin Changing
  PROVE  ChannelsInv(P2, id)
<1>1. \A r, q \in Procs : r # q /\ P2[r].pc \in Changing => P2[q].pc \notin Changing
  BY Zenon DEF ChannelsInv
<1>2. \A r, q \in Procs : r # q /\ Live(P2[r]) /\ Live(P2[q]) => P2[r].chan # P2[q].chan
  BY DEF ChannelsInv
<1>3. ASSUME NEW r \in Procs, Live(P2[r])
      PROVE  /\ P2[r].chan \in ChannelIds
             /\ \A i \in 1..Len(id) : id[i] = P2[r].chan =>
                  \/ P2[r].pc \in Starting /\ i = 1
                  \/ P2[r].pc = "detach" /\ i = Len(id)
  BY <1>3 DEF ChannelsInv
<1> QED
  BY <1>1, <1>2, <1>3, Zenon DEF ChannelsInv

\* A live process has its channel to itself.
LEMMA OtherChannels ==
  ASSUME NEW P, NEW id, NEW p \in Procs, ChannelsInv(P, id), Live(P[p])
  PROVE  Owns(P, p, P[p].chan)
  BY Zenon DEF ChannelsInv, Owns

\* The answers and the requests that a process may wait for are different
\* from its other states.
LEMMA WaitingFacts ==
  /\ DOMAIN Requested = DOMAIN Awaited
  /\ DOMAIN Awaited = {"buffer", "register", "copy", "fetch", "prealloc", "health",
                       "need", "more", "give", "reserve", "unreserve", "free", "unregister"}
  /\ \A q : q.pc \in DOMAIN Awaited => Live(q)
  BY Zenon DEF Awaited, Requested, Live, Panics

\* An answer is taken, and the process goes on.
LEMMA ReplyInv ==
  ASSUME ProtocolInv, NEW p \in Procs, NEW pc \in DOMAIN Awaited, Dequeue(p, pc),
         Moved(proc, proc', recv, recv', p, proc[p].chan), ids' = ids, primary' = primary,
         Live(proc'[p]) /\ pc \in Starting => proc'[p].pc \in Starting,
         proc'[p].pc \in Changing => pc \in Changing
  PROVE  ProtocolInv'
<1> DEFINE x == proc[p].chan
<1>1. proc[p].pc = pc /\ Live(proc[p])
  BY WaitingFacts, Zenon DEF Dequeue
<1>2. Owns(proc, p, x)
  BY <1>1, OtherChannels, Zenon DEF ProtocolInv
<1>3. OnItsWay(proc[p], recv, send)
  BY <1>1, Zenon DEF ProtocolInv, MessagesInv
<1>4. Cleared(recv, send, send', x)
  BY <1>1, <1>2, <1>3, DequeueEffect, Zenon DEF ProtocolInv, Owns
<1>5. NumbersFrom(ids, ids', x)
  BY Zenon DEF ProtocolInv, ChannelsInv, NumbersFrom
<1>6. RingsOK(recv', send') /\ MessagesInv(proc', recv', send', ids')
  <2>1. RingsOK(recv, send) /\ MessagesInv(proc, recv, send, ids)
    BY Zenon DEF ProtocolInv
  <2>2. Moved(proc, proc', recv, recv', p, x) /\ x \in ChannelIds
    BY <1>2, Zenon DEF Owns
  <2> HIDE DEF x
  <2> QED
    BY <1>2, <1>4, <1>5, <2>1, <2>2, MovedMessages, Zenon
<1>7. /\ ProcsOK(proc') /\ \A r \in Procs \ {p} : proc'[r] = proc[r]
      /\ Live(proc'[p]) => proc'[p].chan = x
  BY Zenon DEF Moved
<1>8. ChannelsInv(proc', ids)
  <2>1. ChannelsInv(proc, ids) /\ pc # "detach"
    BY WaitingFacts, Zenon DEF ProtocolInv
  <2>2. Live(proc'[p]) => /\ Live(proc[p]) /\ proc'[p].chan = proc[p].chan
                          /\ proc[p].pc \in Starting => proc'[p].pc \in Starting
                          /\ proc[p].pc # "detach"
    BY <1>1, <1>7, <2>1, Zenon
  <2> QED
    BY <1>1, <1>7, <2>1, <2>2, MovedChannels, Zenon
<1>9. primary # "off" /\ primary \in {"off", "running", "stopped"}
  BY <1>1, NoProcFacts, Zenon DEF ProtocolInv
<1> QED
  BY <1>6, <1>7, <1>8, <1>9, Zenon DEF ProtocolInv

\* A process that waits for nothing goes on.
LEMMA SendInv ==
  ASSUME ProtocolInv, NEW p \in Procs, Live(proc[p]),
         proc[p].pc \notin DOMAIN Awaited \cup Starting \cup {"detach"},
         Moved(proc, proc', recv, recv', p, proc[p].chan),
         ids' = ids, send' = send, primary' = primary,
         proc'[p].pc \in Changing => \A r \in Procs \ {p} : proc[r].pc \notin Changing
  PROVE  ProtocolInv'
<1> DEFINE x == proc[p].chan
<1>2. Owns(proc, p, x)
  BY OtherChannels, Zenon DEF ProtocolInv
<1>3. OnItsWay(proc[p], recv, send)
  BY Zenon DEF ProtocolInv, MessagesInv
<1>4. Cleared(recv, send, send', x)
  BY <1>3, Zenon DEF ProtocolInv, RingsOK, OnItsWay, Cleared
<1>5. NumbersFrom(ids, ids', x)
  BY Zenon DEF ProtocolInv, ChannelsInv, NumbersFrom
<1>6. RingsOK(recv', send') /\ MessagesInv(proc', recv', send', ids')
  <2>1. RingsOK(recv, send) /\ MessagesInv(proc, recv, send, ids)
    BY Zenon DEF ProtocolInv
  <2>2. Moved(proc, proc', recv, recv', p, x) /\ x \in ChannelIds
    BY <1>2, Zenon DEF Owns
  <2> HIDE DEF x
  <2> QED
    BY <1>2, <1>4, <1>5, <2>1, <2>2, MovedMessages, Zenon
<1>7. /\ ProcsOK(proc') /\ \A r \in Procs \ {p} : proc'[r] = proc[r]
      /\ Live(proc'[p]) => proc'[p].chan = x
  BY Zenon DEF Moved
<1>8. ChannelsInv(proc', ids)
  <2>1. ChannelsInv(proc, ids)
    BY Zenon DEF ProtocolInv
  <2> QED
    BY <1>7, <2>1, MovedChannels, Zenon
<1>9. primary # "off" /\ primary \in {"off", "running", "stopped"}
  BY NoProcFacts, Zenon DEF ProtocolInv
<1> QED
  BY <1>6, <1>7, <1>8, <1>9, Zenon DEF ProtocolInv

\* An answer is taken and another request follows.
LEMMA ReplyRequestInv ==
  ASSUME ProtocolInv, NEW p \in Procs, NEW pc \in DOMAIN Awaited, Dequeue(p, pc),
         NEW q, NEW free, NEW op, NEW arg, Request(p, q, free, op, arg),
         DOMAIN q = Fields, q.chan = proc[p].chan,
         q.pc \in DOMAIN Awaited, op = Requested[q.pc],
         pc \in Starting => q.pc \in Starting, q.pc \in Changing => pc \in Changing,
         ids' = ids, primary' = primary
  PROVE  ProtocolInv'
<1>1. /\ Moved(proc, proc', recv, recv', p, proc[p].chan)
      /\ proc'[p] = q \/ proc'[p] = [q EXCEPT !.pc = "panic_pool"]
  BY RequestMoves, Zenon DEF ProtocolInv
<1>2. CASE proc'[p] = q
  BY <1>1, <1>2, ReplyInv, Zenon
<1>3. CASE proc'[p] = [q EXCEPT !.pc = "panic_pool"]
  <2>1. proc'[p].pc = "panic_pool"
    BY <1>3, Zenon DEF Fields
  <2>2. ~Live(proc'[p]) /\ proc'[p].pc \notin Changing
    BY <2>1, Zenon DEF Live, Panics, Changing, Starting, Stopping
  <2> QED
    BY <1>1, <2>2, ReplyInv, Zenon
<1> QED
  BY <1>1, <1>2, <1>3, Zenon

\* An answer is taken and nothing follows.
LEMMA ReplyDoneInv ==
  ASSUME ProtocolInv, NEW p \in Procs, NEW pc \in DOMAIN Awaited, Dequeue(p, pc),
         NEW q, NEW free, NoRequest(p, q, free),
         DOMAIN q = Fields, q.pc \in Pcs \ DOMAIN Awaited,
         Live(q) => q.chan = proc[p].chan,
         Live(q) /\ pc \in Starting => q.pc \in Starting,
         q.pc \in Changing => pc \in Changing,
         ids' = ids, primary' = primary
  PROVE  ProtocolInv'
<1>1. Moved(proc, proc', recv, recv', p, proc[p].chan) /\ proc'[p] = q
  BY NoRequestMoves, Zenon DEF ProtocolInv
<1> QED
  BY <1>1, ReplyInv, Zenon

\* A mounted process asks for something.
LEMMA RequestInv ==
  ASSUME ProtocolInv, NEW p \in Procs, proc[p].pc = "idle",
         NEW q, NEW free, NEW op, NEW arg, Request(p, q, free, op, arg),
         DOMAIN q = Fields, q.chan = proc[p].chan,
         q.pc \in DOMAIN Awaited, op = Requested[q.pc],
         q.pc \in Changing => \A r \in Procs \ {p} : proc[r].pc \notin Changing,
         ids' = ids, send' = send, primary' = primary
  PROVE  ProtocolInv'
<1>1. /\ Moved(proc, proc', recv, recv', p, proc[p].chan)
      /\ proc'[p] = q \/ proc'[p] = [q EXCEPT !.pc = "panic_pool"]
  BY RequestMoves, Zenon DEF ProtocolInv
<1>2. Live(proc[p]) /\ proc[p].pc \notin DOMAIN Awaited \cup Starting \cup {"detach"}
  BY Zenon DEF Live, Panics, Awaited, Starting
<1>3. CASE proc'[p] = q
  BY <1>1, <1>2, <1>3, SendInv, Zenon
<1>4. CASE proc'[p] = [q EXCEPT !.pc = "panic_pool"]
  <2>1. proc'[p].pc = "panic_pool"
    BY <1>4, Zenon DEF Fields
  <2>2. proc'[p].pc \notin Changing
    BY <2>1, Zenon DEF Changing, Starting, Stopping
  <2> QED
    BY <1>1, <1>2, <2>2, SendInv, Zenon
<1> QED
  BY <1>1, <1>3, <1>4, Zenon

\* A process is a record with the fields of NoProc.
LEMMA ShapeOf ==
  ASSUME ProtocolInv, NEW p \in Procs
  PROVE  DOMAIN proc[p] = Fields
  BY Zenon DEF ProtocolInv, ProcsOK

\* The answer about the buffers; the mount fails without them.
LEMMA MountBuffersInv ==
  ASSUME ProtocolInv, NEW p \in Procs, MountBuffers(p)
  PROVE  ProtocolInv'
<1> DEFINE q == [proc[p] EXCEPT !.pc = "register", !.buf = Answer(p).ret]
<1>1. DOMAIN q = Fields /\ q.pc = "register" /\ q.chan = proc[p].chan
  BY ShapeOf, Zenon DEF Fields
<1>2. Dequeue(p, "buffer") /\ ids' = ids /\ primary' = primary
  BY Zenon DEF MountBuffers, world
<1>3. CASE Answer(p).ret = 0
  <2>1. NoRequest(p, NoProc, pool + 1)
    BY <1>3, Zenon DEF MountBuffers
  <2>2. "off" \in Pcs \ DOMAIN Awaited /\ "off" \notin Changing /\ "buffer" \in DOMAIN Awaited
    BY Zenon DEF Pcs, Awaited, Changing, Starting, Stopping
  <2> QED
    BY <1>2, <2>1, <2>2, NoProcFacts, ReplyDoneInv, Zenon
<1>4. CASE Answer(p).ret # 0
  <2>1. Request(p, q, pool + 1, "APP_REGISTER", Name(p))
    BY <1>4, Zenon DEF MountBuffers
  <2>2. /\ "buffer" \in DOMAIN Awaited /\ "register" \in DOMAIN Awaited
        /\ Requested["register"] = "APP_REGISTER"
        /\ "register" \in Starting /\ "buffer" \in Changing
    BY Zenon DEF Awaited, Requested, Starting, Changing
  <2> HIDE DEF q
  <2> QED
    BY <1>1, <1>2, <2>1, <2>2, ReplyRequestInv, Zenon
<1> QED
  BY <1>3, <1>4, Zenon

\* The steps of a mount that take an answer.
LEMMA MountRegisteredInv ==
  ASSUME ProtocolInv, NEW p \in Procs, MountRegistered(p)
  PROVE  ProtocolInv'
<1> DEFINE q == [proc[p] EXCEPT !.pc = "copy"]
<1>1. DOMAIN q = Fields /\ q.pc = "copy" /\ q.chan = proc[p].chan
  BY ShapeOf, Zenon DEF Fields
<1>2. /\ Dequeue(p, "register") /\ ids' = ids /\ primary' = primary
      /\ Request(p, q, pool + 1, "SUPERBLOCK_COPY", Name(p))
  BY Zenon DEF MountRegistered, world
<1>3. /\ "register" \in DOMAIN Awaited /\ "copy" \in DOMAIN Awaited
      /\ Requested["copy"] = "SUPERBLOCK_COPY"
      /\ "copy" \in Starting /\ "register" \in Changing
  BY Zenon DEF Awaited, Requested, Starting, Changing
<1> HIDE DEF q
<1> QED
  BY <1>1, <1>2, <1>3, ReplyRequestInv, Zenon

\* The process has the superblock and asks for its containers.
LEMMA MountCopiedInv ==
  ASSUME ProtocolInv, NEW p \in Procs, MountCopied(p)
  PROVE  ProtocolInv'
<1> DEFINE q == [proc[p] EXCEPT !.pc = "fetch", !.root = Answer(p).copy.root,
                                !.state = Answer(p).copy.state]
           r == [q EXCEPT !.pc = "assert_root"]
<1>1. DOMAIN q = Fields /\ q.pc = "fetch" /\ q.chan = proc[p].chan
  BY ShapeOf, Zenon DEF Fields
<1>2. DOMAIN r = Fields /\ r.pc = "assert_root"
  BY <1>1, Zenon DEF Fields
<1>3. /\ Dequeue(p, "copy") /\ ids' = ids /\ primary' = primary
      /\ \/ NoRequest(p, r, pool + 1)
         \/ Request(p, q, pool + 1, "CONTAINER_ALLOC", "ALLOCATED")
  BY Zenon DEF MountCopied, world
<1>4. /\ "copy" \in DOMAIN Awaited /\ "fetch" \in DOMAIN Awaited
      /\ Requested["fetch"] = "CONTAINER_ALLOC"
      /\ "fetch" \in Starting /\ "copy" \in Changing
      /\ "assert_root" \in Pcs \ DOMAIN Awaited /\ "assert_root" \notin Changing
      /\ "assert_root" \in Panics
  BY Zenon DEF Awaited, Requested, Starting, Stopping, Changing, Pcs, Panics
<1> HIDE DEF q, r
<1>5. ~Live(r)
  BY <1>2, <1>4, Zenon DEF Live
<1>6. CASE NoRequest(p, r, pool + 1)
  BY <1>2, <1>3, <1>4, <1>5, <1>6, ReplyDoneInv, Zenon
<1>7. CASE Request(p, q, pool + 1, "CONTAINER_ALLOC", "ALLOCATED")
  BY <1>1, <1>3, <1>4, <1>7, ReplyRequestInv, Zenon
<1> QED
  BY <1>3, <1>6, <1>7, Zenon

\* A process with one more container.
LEMMA AddBgShape ==
  ASSUME NEW q, DOMAIN q = Fields, NEW c
  PROVE  /\ DOMAIN AddBg(q, c) = Fields
         /\ AddBg(q, c).pc = q.pc
         /\ AddBg(q, c).chan = q.chan
  BY DEF AddBg, Fields

\* The next request of a mount that has its containers, or asks for more.
LEMMA MountNextInv ==
  ASSUME ProtocolInv, NEW p \in Procs, NEW pc \in {"fetch", "prealloc"},
         Dequeue(p, pc), NEW q, MountNext(p, q), DOMAIN q = Fields,
         q.chan = proc[p].chan, ids' = ids, primary' = primary
  PROVE  ProtocolInv'
<1> DEFINE a == [q EXCEPT !.pc = "prealloc"]
           b == [q EXCEPT !.pc = "health"]
<1>1. /\ DOMAIN a = Fields /\ a.pc = "prealloc" /\ a.chan = proc[p].chan
      /\ DOMAIN b = Fields /\ b.pc = "health" /\ b.chan = proc[p].chan
  BY Zenon DEF Fields
<1>2. \/ Request(p, a, pool + PutBack(p), "CONTAINER_ALLOC", "NEW")
      \/ Request(p, b, pool + PutBack(p), "HEALTH_CHECK", 0)
  BY Zenon DEF MountNext
<1>3. /\ pc \in DOMAIN Awaited /\ pc \in Changing
      /\ "prealloc" \in DOMAIN Awaited /\ "health" \in DOMAIN Awaited
      /\ Requested["prealloc"] = "CONTAINER_ALLOC"
      /\ Requested["health"] = "HEALTH_CHECK"
      /\ "prealloc" \in Starting /\ "health" \in Starting
  BY Zenon DEF Awaited, Requested, Starting, Changing
<1> HIDE DEF a, b
<1>4. CASE Request(p, a, pool + PutBack(p), "CONTAINER_ALLOC", "NEW")
  BY <1>1, <1>3, <1>4, ReplyRequestInv, Zenon
<1>5. CASE Request(p, b, pool + PutBack(p), "HEALTH_CHECK", 0)
  BY <1>1, <1>3, <1>5, ReplyRequestInv, Zenon
<1> QED
  BY <1>2, <1>4, <1>5, Zenon

\* A container of an earlier run, or none is left.
LEMMA MountFetchedInv ==
  ASSUME ProtocolInv, NEW p \in Procs, MountFetched(p)
  PROVE  ProtocolInv'
<1> DEFINE a == AddBg(proc[p], Answer(p).ret)
           q == [a EXCEPT !.count = @ + 1]
<1>1. DOMAIN a = Fields /\ a.pc = proc[p].pc /\ a.chan = proc[p].chan
  BY ShapeOf, AddBgShape, Zenon
<1>2. DOMAIN q = Fields /\ q.pc = proc[p].pc /\ q.chan = proc[p].chan
  <2> HIDE DEF a
  <2> QED BY <1>1, Zenon DEF Fields
<1>3. /\ Dequeue(p, "fetch") /\ ids' = ids /\ primary' = primary
      /\ \/ Request(p, q, pool + 1, "CONTAINER_ALLOC", "ALLOCATED")
         \/ MountNext(p, q)
  BY Zenon DEF MountFetched, world
<1>4. /\ "fetch" \in DOMAIN Awaited /\ "fetch" \in Starting
      /\ Requested["fetch"] = "CONTAINER_ALLOC" /\ "fetch" \in Changing
  BY Zenon DEF Awaited, Requested, Starting, Changing
<1>5. q.pc = "fetch"
  BY <1>2, <1>3, Zenon DEF Dequeue
<1> HIDE DEF q
<1>6. CASE Request(p, q, pool + 1, "CONTAINER_ALLOC", "ALLOCATED")
  BY <1>2, <1>3, <1>4, <1>5, <1>6, ReplyRequestInv, Zenon
<1>7. CASE MountNext(p, q)
  BY <1>2, <1>3, <1>7, MountNextInv, Zenon
<1> QED
  BY <1>3, <1>6, <1>7, Zenon

\* A preallocated container, or a refusal.
LEMMA MountPreallocatedInv ==
  ASSUME ProtocolInv, NEW p \in Procs, MountPreallocated(p)
  PROVE  ProtocolInv'
<1> DEFINE a == AddBg(proc[p], Answer(p).ret)
           q == [a EXCEPT !.count = @ + 1]
<1>1. DOMAIN a = Fields /\ a.pc = proc[p].pc /\ a.chan = proc[p].chan
  BY ShapeOf, AddBgShape, Zenon
<1>2. DOMAIN q = Fields /\ q.pc = proc[p].pc /\ q.chan = proc[p].chan
  <2> HIDE DEF a
  <2> QED BY <1>1, Zenon DEF Fields
<1>3. /\ Dequeue(p, "prealloc") /\ ids' = ids /\ primary' = primary
      /\ MountNext(p, q)
  BY Zenon DEF MountPreallocated, world
<1> HIDE DEF q
<1> QED
  BY <1>2, <1>3, MountNextInv, Zenon

\* The health check, and the assertion on the state.
LEMMA MountCheckedInv ==
  ASSUME ProtocolInv, NEW p \in Procs, MountChecked(p)
  PROVE  ProtocolInv'
<1> DEFINE ok == StateAssert => proc[p].state = "INITIALIZED"
           q == [proc[p] EXCEPT !.pc = IF ok THEN "attach" ELSE "assert_state",
                                !.state = "MOUNTED", !.count = 0]
<1>1. /\ DOMAIN q = Fields /\ q.pc \in {"attach", "assert_state"}
      /\ q.chan = proc[p].chan
  BY ShapeOf, Zenon DEF Fields
<1>2. /\ Dequeue(p, "health") /\ ids' = ids /\ primary' = primary
      /\ NoRequest(p, q, pool + 1)
  BY Zenon DEF MountChecked, world
<1>3. /\ "health" \in DOMAIN Awaited /\ "health" \in Changing
      /\ \A pc \in {"attach", "assert_state"} : pc \in Pcs \ DOMAIN Awaited
      /\ "attach" \in Starting /\ "assert_state" \in Panics
  BY Zenon DEF Awaited, Starting, Changing, Pcs, Panics
<1> HIDE DEF q, ok
<1>4. Live(q) => q.pc \in Starting
  BY <1>1, <1>3, Zenon DEF Live
<1> QED
  BY <1>1, <1>2, <1>3, <1>4, ReplyDoneInv, Zenon

\* A mounted process asks, with another state pc.
LEMMA AskInv ==
  ASSUME ProtocolInv, NEW p \in Procs, InService(p),
         NEW q, DOMAIN q = Fields, q.chan = proc[p].chan,
         q.pc \in {"need", "more", "give", "reserve", "unreserve"},
         NEW free, NEW arg, Request(p, q, free, Requested[q.pc], arg),
         ids' = ids, send' = send, primary' = primary
  PROVE  ProtocolInv'
<1>1. q.pc \in DOMAIN Awaited /\ q.pc \notin Changing
  BY Zenon DEF Awaited, Changing, Starting, Stopping
<1>2. proc[p].pc = "idle"
  BY Zenon DEF InService
<1> DEFINE op == Requested[q.pc]
<1>3. Request(p, q, free, op, arg) /\ op = Requested[q.pc]
  BY Zenon
<1> HIDE DEF op
<1> QED
  BY <1>1, <1>2, <1>3, RequestInv, Zenon

\* A request for a container.
LEMMA NeedContainerInv ==
  ASSUME ProtocolInv, NEW p \in Procs, NeedContainer(p)
  PROVE  ProtocolInv'
<1> DEFINE q == [proc[p] EXCEPT !.pc = "need"]
<1>1. DOMAIN q = Fields /\ q.pc = "need" /\ q.chan = proc[p].chan
  BY ShapeOf, Zenon DEF Fields
<1>2. /\ InService(p) /\ ids' = ids /\ send' = send /\ primary' = primary
      /\ Request(p, q, pool, "CONTAINER_ALLOC", "NEW")
  BY Zenon DEF NeedContainer, Ask, world
<1>3. Requested["need"] = "CONTAINER_ALLOC"
  BY Zenon DEF Requested, Awaited
<1> HIDE DEF q
<1> QED
  BY <1>1, <1>2, <1>3, AskInv, Zenon

\* A request for a buffer.
LEMMA NeedBufferInv ==
  ASSUME ProtocolInv, NEW p \in Procs, NeedBuffer(p)
  PROVE  ProtocolInv'
<1> DEFINE q == [proc[p] EXCEPT !.pc = "more"]
<1>1. DOMAIN q = Fields /\ q.pc = "more" /\ q.chan = proc[p].chan
  BY ShapeOf, Zenon DEF Fields
<1>2. /\ InService(p) /\ ids' = ids /\ send' = send /\ primary' = primary
      /\ Request(p, q, pool, "BUFFER_ALLOC", 1)
  BY Zenon DEF NeedBuffer, Ask, world
<1>3. Requested["more"] = "BUFFER_ALLOC"
  BY Zenon DEF Requested, Awaited
<1> HIDE DEF q
<1> QED
  BY <1>1, <1>2, <1>3, AskInv, Zenon

\* A container is given back.
LEMMA RemoveBgInv ==
  ASSUME ProtocolInv, NEW p \in Procs, NEW c, RemoveBg(p, c)
  PROVE  ProtocolInv'
<1> DEFINE q == [proc[p] EXCEPT !.pc = "give", !.bgs = @ \ {c}]
<1>1. DOMAIN q = Fields /\ q.pc = "give" /\ q.chan = proc[p].chan
  BY ShapeOf, Zenon DEF Fields
<1>2. /\ InService(p) /\ ids' = ids /\ send' = send /\ primary' = primary
      /\ Request(p, q, pool, "CONTAINER_RELEASE", c)
  BY Zenon DEF RemoveBg, Ask, world
<1>3. Requested["give"] = "CONTAINER_RELEASE"
  BY Zenon DEF Requested, Awaited
<1> HIDE DEF q
<1> QED
  BY <1>1, <1>2, <1>3, AskInv, Zenon

\* A request for a reservation.
LEMMA ReserveInv ==
  ASSUME ProtocolInv, NEW p \in Procs, NEW c, NEW type, Reserve(p, c, type)
  PROVE  ProtocolInv'
<1> DEFINE q == [proc[p] EXCEPT !.pc = "reserve", !.held = {c}]
<1>1. DOMAIN q = Fields /\ q.pc = "reserve" /\ q.chan = proc[p].chan
  BY ShapeOf, Zenon DEF Fields
<1>2. /\ InService(p) /\ ids' = ids /\ send' = send /\ primary' = primary
      /\ Request(p, q, pool, "RESERVATION_ACQUIRE", <<c, type>>)
  BY Zenon DEF Reserve, Ask, world
<1>3. Requested["reserve"] = "RESERVATION_ACQUIRE"
  BY Zenon DEF Requested, Awaited
<1> HIDE DEF q
<1> QED
  BY <1>1, <1>2, <1>3, AskInv, Zenon

\* A reservation is given back.
LEMMA UnreserveInv ==
  ASSUME ProtocolInv, NEW p \in Procs, NEW c, Unreserve(p, c)
  PROVE  ProtocolInv'
<1> DEFINE q == [proc[p] EXCEPT !.pc = "unreserve", !.held = {}]
<1>1. DOMAIN q = Fields /\ q.pc = "unreserve" /\ q.chan = proc[p].chan
  BY ShapeOf, Zenon DEF Fields
<1>2. /\ InService(p) /\ ids' = ids /\ send' = send /\ primary' = primary
      /\ Request(p, q, pool, "RESERVATION_RELEASE", c)
  BY Zenon DEF Unreserve, world
<1>3. Requested["unreserve"] = "RESERVATION_RELEASE"
  BY Zenon DEF Requested, Awaited
<1> HIDE DEF q
<1> QED
  BY <1>1, <1>2, <1>3, AskInv, Zenon

\* A umount begins while nobody else starts or stops.
LEMMA UmountInv ==
  ASSUME Plain("overlap"), ProtocolInv, NEW p \in Procs, Umount(p)
  PROVE  ProtocolInv'
<1> DEFINE q == [proc[p] EXCEPT !.pc = "free", !.state = "UMOUNTED", !.bgs = {},
                                !.buf = 0]
<1>1. DOMAIN q = Fields /\ q.pc = "free" /\ q.chan = proc[p].chan
  BY ShapeOf, Zenon DEF Fields
<1>2. /\ proc[p].pc = "idle" /\ ids' = ids /\ send' = send /\ primary' = primary
      /\ Request(p, q, pool, "BUFFER_FREE", proc[p].buf)
      /\ \A r \in Procs \ {p} : proc[r].pc \notin Changing
  BY Zenon DEF Umount, InService, Undisturbed, Changing, world
<1>3. Requested["free"] = "BUFFER_FREE" /\ "free" \in DOMAIN Awaited
  BY Zenon DEF Requested, Awaited
<1> HIDE DEF q
<1> QED
  BY <1>1, <1>2, <1>3, RequestInv, Zenon

\* A mounted process takes an answer and has a state pc or is gone.
LEMMA ServedInv ==
  ASSUME ProtocolInv, NEW p \in Procs,
         NEW pc \in {"need", "more", "give", "reserve", "unreserve", "free"},
         Dequeue(p, pc), NEW q, NEW free, NoRequest(p, q, free),
         DOMAIN q = Fields, q.chan = proc[p].chan, q.pc \in {"idle"} \cup Panics,
         ids' = ids, primary' = primary
  PROVE  ProtocolInv'
<1>1. /\ pc \in DOMAIN Awaited /\ pc \notin Starting
      /\ q.pc \in Pcs \ DOMAIN Awaited /\ q.pc \notin Changing
  BY Zenon DEF Awaited, Starting, Stopping, Serving, Changing, Pcs, Panics
<1> QED
  BY <1>1, ReplyDoneInv, Zenon

\* The answer to a request for a container.
LEMMA GotContainerInv ==
  ASSUME ProtocolInv, NEW p \in Procs, GotContainer(p)
  PROVE  ProtocolInv'
<1> DEFINE c == Answer(p).ret
           a == [proc[p] EXCEPT !.pc = IF c = 0 THEN "assert_space" ELSE "idle"]
           q == AddBg(a, c)
<1>1. /\ DOMAIN a = Fields /\ a.chan = proc[p].chan
      /\ a.pc \in {"assert_space", "idle"}
  BY ShapeOf, Zenon DEF Fields
<1>2. /\ DOMAIN q = Fields /\ q.chan = proc[p].chan
      /\ q.pc \in {"assert_space", "idle"}
  <2> HIDE DEF a
  <2> QED BY <1>1, AddBgShape, Zenon DEF q
<1>3. /\ Dequeue(p, "need") /\ ids' = ids /\ primary' = primary
      /\ NoRequest(p, q, pool + PutBack(p))
  BY Zenon DEF GotContainer, world
<1>4. q.pc \in {"idle"} \cup Panics
  BY <1>2, Zenon DEF Panics
<1> HIDE DEF q
<1> QED
  BY <1>2, <1>3, <1>4, ServedInv, Zenon

\* The answer to a request for a buffer.
LEMMA GotBufferInv ==
  ASSUME ProtocolInv, NEW p \in Procs, GotBuffer(p)
  PROVE  ProtocolInv'
<1> DEFINE q == [proc[p] EXCEPT !.pc = "idle", !.buf = @ + Answer(p).ret]
<1>1. DOMAIN q = Fields /\ q.pc = "idle" /\ q.chan = proc[p].chan
  BY ShapeOf, Zenon DEF Fields
<1>2. /\ Dequeue(p, "more") /\ ids' = ids /\ primary' = primary
      /\ NoRequest(p, q, pool + 1)
  BY Zenon DEF GotBuffer, world
<1> HIDE DEF q
<1> QED
  BY <1>1, <1>2, ServedInv, Zenon

\* The answer to a container that was given back.
LEMMA RemovedBgInv ==
  ASSUME ProtocolInv, NEW p \in Procs, RemovedBg(p)
  PROVE  ProtocolInv'
<1> DEFINE q == [proc[p] EXCEPT !.pc = "idle"]
           r == [proc[p] EXCEPT !.pc = "panic_release"]
<1>1. /\ DOMAIN q = Fields /\ q.pc = "idle" /\ q.chan = proc[p].chan
      /\ DOMAIN r = Fields /\ r.pc = "panic_release" /\ r.chan = proc[p].chan
  BY ShapeOf, Zenon DEF Fields
<1>2. /\ Dequeue(p, "give") /\ ids' = ids /\ primary' = primary
      /\ NoRequest(p, r, pool) \/ NoRequest(p, q, pool + 1)
  BY Zenon DEF RemovedBg, world
<1>3. "panic_release" \in Panics
  BY DEF Panics
<1> HIDE DEF q, r
<1> QED
  BY <1>1, <1>2, <1>3, ServedInv, Zenon

\* The answer to a request for a reservation.
LEMMA ReservedInv ==
  ASSUME ProtocolInv, NEW p \in Procs, Reserved(p)
  PROVE  ProtocolInv'
<1> DEFINE got == Answer(p).ret = 0
           q == [proc[p] EXCEPT !.pc = "idle", !.held = IF got THEN @ ELSE {}]
<1>1. DOMAIN q = Fields /\ q.pc = "idle" /\ q.chan = proc[p].chan
  BY ShapeOf, Zenon DEF Fields
<1>2. /\ Dequeue(p, "reserve") /\ ids' = ids /\ primary' = primary
      /\ NoRequest(p, q, pool + 1)
  BY Zenon DEF Reserved, world
<1> HIDE DEF q
<1> QED
  BY <1>1, <1>2, ServedInv, Zenon

\* The answer to a reservation that was given back.
LEMMA UnreservedInv ==
  ASSUME ProtocolInv, NEW p \in Procs, Unreserved(p)
  PROVE  ProtocolInv'
<1> DEFINE q == [proc[p] EXCEPT !.pc = "idle"]
<1>1. DOMAIN q = Fields /\ q.pc = "idle" /\ q.chan = proc[p].chan
  BY ShapeOf, Zenon DEF Fields
<1>2. /\ Dequeue(p, "unreserve") /\ ids' = ids /\ primary' = primary
      /\ NoRequest(p, q, pool + 1)
  BY Zenon DEF Unreserved, world
<1> HIDE DEF q
<1> QED
  BY <1>1, <1>2, ServedInv, Zenon

\* The answer to the buffers a umount gives back.
LEMMA UmountFreedInv ==
  ASSUME ProtocolInv, NEW p \in Procs, UmountFreed(p)
  PROVE  ProtocolInv'
<1> DEFINE q == [proc[p] EXCEPT !.pc = "unregister"]
           r == [proc[p] EXCEPT !.pc = "panic_free"]
<1>1. /\ DOMAIN q = Fields /\ q.pc = "unregister" /\ q.chan = proc[p].chan
      /\ DOMAIN r = Fields /\ r.pc = "panic_free" /\ r.chan = proc[p].chan
  BY ShapeOf, Zenon DEF Fields
<1>2. /\ Dequeue(p, "free") /\ ids' = ids /\ primary' = primary
      /\ \/ NoRequest(p, r, pool)
         \/ Request(p, q, pool + 1, "APP_UNREGISTER", 0)
  BY Zenon DEF UmountFreed, world
<1>3. /\ "panic_free" \in Panics /\ "free" \in DOMAIN Awaited
      /\ "unregister" \in DOMAIN Awaited /\ "free" \in Changing
      /\ Requested["unregister"] = "APP_UNREGISTER" /\ "free" \notin Starting
  BY Zenon DEF Panics, Awaited, Requested, Changing, Stopping, Starting
<1> HIDE DEF q, r
<1>4. CASE NoRequest(p, r, pool)
  BY <1>1, <1>2, <1>3, <1>4, ServedInv, Zenon
<1>5. CASE Request(p, q, pool + 1, "APP_UNREGISTER", 0)
  BY <1>1, <1>2, <1>3, <1>5, ReplyRequestInv, Zenon
<1> QED
  BY <1>2, <1>4, <1>5, Zenon

-----------------------------------------------------------------------------
(* Steps that take or return a channel number.                             *)

\* The ring id_gen without its first number.
LEMMA TakenNumber ==
  ASSUME NEW id \in Seq(ChannelIds), id # <<>>
  PROVE  /\ Tail(id) \in Seq(ChannelIds)
         /\ Len(id) \in Nat \ {0} /\ Len(Tail(id)) = Len(id) - 1
         /\ \A i \in 1..Len(Tail(id)) : /\ Tail(id)[i] = id[i + 1]
                                        /\ i + 1 \in 1..Len(id)
         /\ 1 \in 1..Len(id) /\ Head(id) = id[1] /\ id[1] \in ChannelIds
  OBVIOUS

\* The ring id_gen with one more number.
LEMMA ReturnedNumber ==
  ASSUME NEW id \in Seq(ChannelIds), NEW x \in ChannelIds
  PROVE  /\ Append(id, x) \in Seq(ChannelIds)
         /\ Len(id) \in Nat /\ Len(Append(id, x)) = Len(id) + 1
         /\ \A i \in 1..Len(Append(id, x)) :
              \/ i \in 1..Len(id) /\ Append(id, x)[i] = id[i]
              \/ i = Len(id) + 1 /\ Append(id, x)[i] = x
  OBVIOUS

\* The first number is taken, by a process that starts, or by one that is
\* about to end its start.
LEMMA TakeChannels ==
  ASSUME NEW P, NEW P2, NEW id, NEW p \in Procs, ChannelsInv(P, id), id # <<>>,
         \A r \in Procs \ {p} : P2[r] = P[r] /\ P[r].pc \notin Changing,
         \/ /\ ~Live(P[p])
            /\ Live(P2[p]) => P2[p].pc \in Starting /\ P2[p].chan = id[1]
         \/ /\ Live(P[p]) /\ P[p].pc \in Starting
            /\ Live(P2[p]) => P2[p].chan = P[p].chan
  PROVE  ChannelsInv(P2, Tail(id))
<1>1. /\ id \in Seq(ChannelIds)
      /\ \A i, j \in 1..Len(id) : i < j /\ id[i] = id[j] => j = i + 1
      /\ \A r, q \in Procs : r # q /\ Live(P[r]) /\ Live(P[q]) => P[r].chan # P[q].chan
      /\ \A r \in Procs : Live(P[r]) =>
           /\ P[r].chan \in ChannelIds
           /\ \A i \in 1..Len(id) : id[i] = P[r].chan =>
                \/ P[r].pc \in Starting /\ i = 1
                \/ P[r].pc = "detach" /\ i = Len(id)
  BY Zenon DEF ChannelsInv
<1>2. /\ Tail(id) \in Seq(ChannelIds)
      /\ Len(id) \in Nat \ {0} /\ Len(Tail(id)) = Len(id) - 1
      /\ \A i \in 1..Len(Tail(id)) : Tail(id)[i] = id[i + 1] /\ i + 1 \in 1..Len(id)
      /\ 1 \in 1..Len(id) /\ id[1] \in ChannelIds
  BY <1>1, TakenNumber, Zenon
<1>3. \A i, j \in 1..Len(Tail(id)) : i < j /\ Tail(id)[i] = Tail(id)[j] => j = i + 1
  <2> SUFFICES ASSUME NEW i \in 1..Len(Tail(id)), NEW j \in 1..Len(Tail(id)),
                      i < j, Tail(id)[i] = Tail(id)[j]
               PROVE  j = i + 1
    BY Zenon
  <2>1. id[i + 1] = id[j + 1] /\ i + 1 \in 1..Len(id) /\ j + 1 \in 1..Len(id)
    BY <1>2, Zenon
  <2>2. i + 1 < j + 1
    OBVIOUS
  <2>3. j + 1 = (i + 1) + 1
    BY <1>1, <2>1, <2>2, Zenon
  <2> QED BY <2>3
<1>4. \A r \in Procs \ {p} : Live(P[r]) => \A i \in 1..Len(id) : id[i] # P[r].chan
  BY <1>1, Zenon DEF Changing, Stopping
<1>5. \A r, q \in Procs : r # q /\ P2[r].pc \in Changing => P2[q].pc \notin Changing
  BY Zenon
<1>6. \A r, q \in Procs : r # q /\ Live(P2[r]) /\ Live(P2[q]) => P2[r].chan # P2[q].chan
  <2>1. \A r \in Procs \ {p} : Live(P2[r]) => Live(P[r]) /\ P2[r].chan = P[r].chan
    BY Zenon
  <2>2. ASSUME NEW r \in Procs \ {p}, Live(P2[p]), Live(P2[r])
        PROVE  P2[p].chan # P2[r].chan
    <3>1. CASE Live(P[p])
      BY <1>1, <2>1, <2>2, <3>1, Zenon
    <3>2. CASE ~Live(P[p])
      BY <1>2, <1>4, <2>1, <2>2, <3>2
    <3> QED BY <3>1, <3>2, Zenon
  <2> QED BY <1>1, <2>1, <2>2
<1>7. ASSUME NEW r \in Procs, Live(P2[r])
      PROVE  /\ P2[r].chan \in ChannelIds
             /\ \A i \in 1..Len(Tail(id)) : Tail(id)[i] = P2[r].chan =>
                  P2[r].pc \in Starting /\ i = 1
  <2>1. CASE r # p
    <3>1. P2[r] = P[r] /\ Live(P[r])
      BY <1>7, <2>1, Zenon
    <3>2. P[r].chan \in ChannelIds /\ \A i \in 1..Len(id) : id[i] # P[r].chan
      BY <1>1, <1>4, <2>1, <3>1, Zenon
    <3> QED BY <1>2, <3>1, <3>2, Zenon
  <2>2. CASE r = p /\ Live(P[p])
    <3>1. /\ P2[p].chan = P[p].chan /\ P[p].chan \in ChannelIds
          /\ \A i \in 1..Len(id) : id[i] = P[p].chan => i = 1
      BY <1>1, <1>7, <2>2, Zenon DEF Starting
    <3>2. \A i \in 1..Len(Tail(id)) : i + 1 # 1
      BY <1>2
    <3> QED BY <1>2, <2>2, <3>1, <3>2, Zenon
  <2>3. CASE r = p /\ ~Live(P[p])
    <3>1. P2[p].chan = id[1] /\ P2[p].pc \in Starting
      BY <1>7, <2>3, Zenon
    <3>2. ASSUME NEW i \in 1..Len(Tail(id)), Tail(id)[i] = P2[p].chan
          PROVE  i = 1
      <4>1. id[1] = id[i + 1] /\ i + 1 \in 1..Len(id) /\ 1 \in 1..Len(id)
        BY <1>2, <3>1, <3>2, Zenon
      <4>2. 1 < i + 1
        BY <1>2
      <4>3. i + 1 = 1 + 1
        BY <1>1, <4>1, <4>2, Zenon
      <4> QED BY <1>2, <4>3
    <3> QED BY <1>2, <2>3, <3>1, <3>2, Zenon
  <2> QED BY <2>1, <2>2, <2>3, Zenon
<1> QED
  BY <1>2, <1>3, <1>5, <1>6, <1>7, Zenon DEF ChannelsInv

\* A mount takes the first number, and no live process has it.
LEMMA MountInv ==
  ASSUME Plain("overlap"), ProtocolInv, NEW p \in Procs, Mount(p)
  PROVE  ProtocolInv'
<1> DEFINE x == Head(ids)
           q == [NoProc EXCEPT !.pc = "buffer", !.chan = x]
           arg == IF p \in Preallocate THEN MaxBuffers ELSE InitBuffers
<1>1. DOMAIN q = Fields /\ q.pc = "buffer" /\ q.chan = x
  BY NoProcFacts, Zenon DEF Fields
<1>2. /\ primary = "running" /\ primary' = primary /\ send' = send
      /\ ids # <<>> /\ ids' = Tail(ids)
      /\ Request(p, q, pool + 1, "BUFFER_ALLOC", arg)
  BY Zenon DEF Mount, GetChannelId, world
<1>3. ~Live(proc[p]) /\ \A r \in Procs \ {p} : proc[r].pc \notin Changing
  BY Zenon DEF Mount, Gone, Live, Undisturbed, Changing
<1>4. /\ "buffer" \in DOMAIN Awaited /\ Requested["buffer"] = "BUFFER_ALLOC"
      /\ "buffer" \in Starting
  BY Zenon DEF Awaited, Requested, Starting
<1>5. /\ ids \in Seq(ChannelIds) /\ x = ids[1] /\ x \in ChannelIds
      /\ 1 \in 1..Len(ids) /\ ChannelsInv(proc, ids) /\ ProcsOK(proc)
      /\ RingsOK(recv, send) /\ MessagesInv(proc, recv, send, ids)
  BY <1>2, TakenNumber, Zenon DEF ProtocolInv, ChannelsInv
<1> HIDE DEF q, x, arg
<1>6. /\ Moved(proc, proc', recv, recv', p, x)
      /\ proc'[p] = q \/ proc'[p] = [q EXCEPT !.pc = "panic_pool"]
  BY <1>1, <1>2, <1>4, <1>5, RequestMoves
<1>7. Live(proc'[p]) => proc'[p].pc \in Starting /\ proc'[p].chan = x
  <2>1. CASE proc'[p] = q
    BY <1>1, <1>4, <2>1, Zenon
  <2>2. CASE proc'[p] = [q EXCEPT !.pc = "panic_pool"]
    <3>1. proc'[p].pc = "panic_pool"
      BY <1>1, <2>2, Zenon DEF Fields
    <3> QED BY <3>1, Zenon DEF Live, Panics
  <2> QED BY <1>6, <2>1, <2>2, Zenon
<1>8. \A r \in Procs : Live(proc[r]) => proc[r].chan # x /\ proc[r].chan \in ChannelIds
  BY <1>3, <1>5, Zenon DEF ChannelsInv, Changing, Stopping
<1>9. Owns(proc, p, x)
  BY <1>3, <1>5, <1>8, Zenon DEF Owns
<1>10. Cleared(recv, send, send', x)
  <2>1. send[x] = <<>> /\ NoRequestOf(recv, x)
    BY <1>5, <1>8, Zenon DEF MessagesInv
  <2> QED BY <1>2, <1>5, <2>1, Zenon DEF Cleared, RingsOK
<1>11. NumbersFrom(ids, ids', x)
  BY <1>2, <1>5, TakenNumber, Zenon DEF NumbersFrom
<1>12. RingsOK(recv', send') /\ MessagesInv(proc', recv', send', ids')
  BY <1>5, <1>6, <1>9, <1>10, <1>11, MovedMessages, Zenon
<1>13. ProcsOK(proc') /\ \A r \in Procs \ {p} : proc'[r] = proc[r]
  BY <1>6, Zenon DEF Moved
<1>14. ChannelsInv(proc', ids')
  BY <1>2, <1>3, <1>5, <1>7, <1>13, TakeChannels, Zenon
<1> QED
  BY <1>2, <1>12, <1>13, <1>14, Zenon DEF ProtocolInv

\* The second number a start takes and never uses.
LEMMA IpcInitInv ==
  ASSUME ProtocolInv, NEW p \in Procs, IpcInit(p)
  PROVE  ProtocolInv'
<1> DEFINE x == proc[p].chan
           q == [proc[p] EXCEPT !.pc = "idle"]
<1>1. DOMAIN q = Fields /\ q.pc = "idle" /\ q.chan = x
  BY ShapeOf, Zenon DEF Fields
<1>2. /\ proc[p].pc = "attach" /\ primary' = primary /\ send' = send
      /\ ids # <<>> /\ ids' = Tail(ids) /\ NoRequest(p, q, pool + 1)
  BY Zenon DEF IpcInit, GetChannelId, world
<1>3. /\ "attach" \in Starting /\ "attach" \in Changing /\ "idle" \in Pcs
      /\ "idle" \notin DOMAIN Awaited /\ "attach" \notin DOMAIN Awaited
      /\ "attach" \notin {"off"} \cup Panics
  BY Zenon DEF Awaited, Starting, Changing, Serving, Pcs, Panics
<1>4. /\ ChannelsInv(proc, ids) /\ ProcsOK(proc) /\ ids \in Seq(ChannelIds)
      /\ RingsOK(recv, send) /\ MessagesInv(proc, recv, send, ids)
  BY Zenon DEF ProtocolInv, ChannelsInv
<1>5. Live(proc[p]) /\ \A r \in Procs \ {p} : proc[r].pc \notin Changing
  BY <1>2, <1>3, <1>4, Zenon DEF Live, ChannelsInv
<1>6. Owns(proc, p, x) /\ x \in ChannelIds
  BY <1>4, <1>5, OtherChannels, Zenon DEF Owns
<1>7. Cleared(recv, send, send', x)
  <2>1. OnItsWay(proc[p], recv, send)
    BY <1>4, <1>5, Zenon DEF MessagesInv
  <2> QED BY <1>2, <1>3, <1>4, <2>1, Zenon DEF Cleared, RingsOK, OnItsWay
<1>8. NumbersFrom(ids, ids', x)
  BY <1>2, <1>4, TakenNumber, Zenon DEF NumbersFrom
<1> HIDE DEF q, x
<1>9. Moved(proc, proc', recv, recv', p, x) /\ proc'[p] = q
  BY <1>1, <1>2, <1>3, <1>4, NoRequestMoves, Zenon
<1>10. RingsOK(recv', send') /\ MessagesInv(proc', recv', send', ids')
  BY <1>4, <1>6, <1>7, <1>8, <1>9, MovedMessages, Zenon
<1>11. ProcsOK(proc') /\ \A r \in Procs \ {p} : proc'[r] = proc[r]
  BY <1>9, Zenon DEF Moved
<1>12. ChannelsInv(proc', ids')
  <2>1. proc'[p].chan = proc[p].chan
    BY <1>1, <1>9, Zenon DEF x
  <2> QED BY <1>2, <1>3, <1>4, <1>5, <1>11, <2>1, TakeChannels, Zenon
<1>13. primary # "off" /\ primary \in {"off", "running", "stopped"}
  BY <1>5, NoProcFacts, Zenon DEF ProtocolInv
<1> QED
  BY <1>2, <1>10, <1>11, <1>12, <1>13, Zenon DEF ProtocolInv

\* A number is put back by the process that has it, while it stops.
LEMMA ReturnChannels ==
  ASSUME NEW P, NEW P2, NEW id, NEW p \in Procs, ChannelsInv(P, id), Live(P[p]),
         P[p].pc \in Stopping, \A r \in Procs \ {p} : P2[r] = P[r],
         \/ ~Live(P2[p]) /\ P2[p].pc \notin Changing
         \/ /\ P[p].pc # "detach" /\ P2[p].pc = "detach"
            /\ P2[p].chan = P[p].chan
  PROVE  ChannelsInv(P2, Append(id, P[p].chan))
<1> DEFINE x == P[p].chan
           id2 == Append(id, x)
<1>1. /\ id \in Seq(ChannelIds)
      /\ \A i, j \in 1..Len(id) : i < j /\ id[i] = id[j] => j = i + 1
      /\ \A r, q \in Procs : r # q /\ P[r].pc \in Changing => P[q].pc \notin Changing
      /\ \A r, q \in Procs : r # q /\ Live(P[r]) /\ Live(P[q]) => P[r].chan # P[q].chan
      /\ \A r \in Procs : Live(P[r]) =>
           /\ P[r].chan \in ChannelIds
           /\ \A i \in 1..Len(id) : id[i] = P[r].chan =>
                \/ P[r].pc \in Starting /\ i = 1
                \/ P[r].pc = "detach" /\ i = Len(id)
  BY Zenon DEF ChannelsInv
<1>2. x \in ChannelIds
  BY <1>1, Zenon
<1>3. /\ id2 \in Seq(ChannelIds) /\ Len(id) \in Nat /\ Len(id2) = Len(id) + 1
      /\ \A i \in 1..Len(id2) : \/ i \in 1..Len(id) /\ id2[i] = id[i]
                                \/ i = Len(id) + 1 /\ id2[i] = x
  BY <1>1, <1>2, ReturnedNumber, Zenon
<1>4. \A i \in 1..Len(id) : id[i] = x => P[p].pc = "detach" /\ i = Len(id)
  BY <1>1, Zenon DEF Starting, Stopping
<1>5. \A r \in Procs \ {p} :
        /\ P[r].pc \notin Changing
        /\ Live(P[r]) => /\ P[r].chan # x /\ P[r].chan \in ChannelIds
                         /\ \A i \in 1..Len(id) : id[i] # P[r].chan
  <2>1. \A r \in Procs \ {p} : P[r].pc \notin Changing
    BY <1>1, Zenon DEF Changing
  <2> QED BY <1>1, <2>1, Zenon DEF Changing, Stopping
<1> HIDE DEF id2, x
<1>6. \A i, j \in 1..Len(id2) : i < j /\ id2[i] = id2[j] => j = i + 1
  <2> SUFFICES ASSUME NEW i \in 1..Len(id2), NEW j \in 1..Len(id2),
                      i < j, id2[i] = id2[j]
               PROVE  j = i + 1
    BY Zenon
  <2>1. i \in 1..Len(id) /\ id2[i] = id[i]
    BY <1>3
  <2>2. CASE j \in 1..Len(id) /\ id2[j] = id[j]
    BY <1>1, <2>1, <2>2, Zenon
  <2>3. CASE j = Len(id) + 1 /\ id2[j] = x
    <3>1. i = Len(id)
      BY <1>4, <2>1, <2>3, Zenon
    <3> QED BY <2>3, <3>1, Zenon
  <2> QED BY <1>3, <2>2, <2>3, Zenon
<1>7. \A r, q \in Procs : r # q /\ P2[r].pc \in Changing => P2[q].pc \notin Changing
  BY <1>5, Zenon
<1>8. \A r \in Procs \ {p} : Live(P2[r]) => Live(P[r]) /\ P2[r].chan = P[r].chan
  BY Zenon
<1>9. Live(P2[p]) => P2[p].chan = x /\ P2[p].pc = "detach"
  BY Zenon DEF x
<1>10. \A r, q \in Procs : r # q /\ Live(P2[r]) /\ Live(P2[q]) => P2[r].chan # P2[q].chan
  BY <1>1, <1>5, <1>8, <1>9
<1>11. ASSUME NEW r \in Procs, Live(P2[r])
       PROVE  /\ P2[r].chan \in ChannelIds
              /\ \A i \in 1..Len(id2) : id2[i] = P2[r].chan =>
                   P2[r].pc = "detach" /\ i = Len(id2)
  <2>1. CASE r # p
    <3>1. /\ P2[r].chan # x /\ P2[r].chan \in ChannelIds
          /\ \A i \in 1..Len(id) : id[i] # P2[r].chan
      BY <1>5, <1>8, <1>11, <2>1, Zenon
    <3> QED BY <1>3, <3>1, Zenon
  <2>2. CASE r = p
    <3>1. P2[p].chan = x /\ P2[p].pc = "detach"
      BY <1>9, <1>11, <2>2, Zenon
    <3>2. P[p].pc # "detach"
      BY <1>11, <2>2, Zenon
    <3>3. \A i \in 1..Len(id) : id[i] # x
      BY <1>4, <3>2, Zenon
    <3> QED BY <1>2, <1>3, <2>2, <3>1, <3>3, Zenon
  <2> QED BY <2>1, <2>2, Zenon
<1>12. ChannelsInv(P2, id2)
  BY <1>3, <1>6, <1>7, <1>10, <1>11, Zenon DEF ChannelsInv
<1> QED
  BY <1>12, Zenon DEF id2, x

\* The end of a umount.
LEMMA UmountDoneInv ==
  ASSUME ProtocolInv, NEW p \in Procs, UmountDone(p)
  PROVE  ProtocolInv'
<1> DEFINE x == proc[p].chan
           q == [proc[p] EXCEPT !.pc = "detach"]
<1>1. DOMAIN q = Fields /\ q.pc = "detach" /\ q.chan = x
  BY ShapeOf, Zenon DEF Fields
<1>2. /\ Dequeue(p, "unregister") /\ primary' = primary
      /\ NoRequest(p, q, pool) /\ ids' = Append(ids, x)
  BY Zenon DEF UmountDone, PutChannelId, world
<1>3. /\ "unregister" \in DOMAIN Awaited /\ "unregister" \in Stopping
      /\ "detach" \in Pcs /\ "detach" \notin DOMAIN Awaited
      /\ "unregister" # "detach" /\ proc[p].pc = "unregister"
  BY <1>2, Zenon DEF Awaited, Stopping, Pcs, Dequeue
<1>4. /\ ChannelsInv(proc, ids) /\ ProcsOK(proc) /\ ids \in Seq(ChannelIds)
      /\ RingsOK(recv, send) /\ MessagesInv(proc, recv, send, ids)
  BY Zenon DEF ProtocolInv, ChannelsInv
<1>5. Live(proc[p])
  BY <1>3, WaitingFacts, Zenon
<1>6. Owns(proc, p, x) /\ x \in ChannelIds
  BY <1>4, <1>5, OtherChannels, Zenon DEF Owns
<1>7. Cleared(recv, send, send', x)
  <2>1. OnItsWay(proc[p], recv, send)
    BY <1>4, <1>5, Zenon DEF MessagesInv
  <2> QED BY <1>2, <1>3, <1>4, <1>5, <1>6, <2>1, DequeueEffect, Zenon
<1>8. NumbersFrom(ids, ids', x)
  BY <1>2, <1>4, <1>6, ReturnedNumber DEF NumbersFrom
<1> HIDE DEF q
<1>9. Moved(proc, proc', recv, recv', p, x) /\ proc'[p] = q
  BY <1>1, <1>2, <1>3, <1>4, NoRequestMoves, Zenon
<1>10. RingsOK(recv', send') /\ MessagesInv(proc', recv', send', ids')
  <2> HIDE DEF x
  <2> QED BY <1>4, <1>6, <1>7, <1>8, <1>9, MovedMessages, Zenon
<1>11. ProcsOK(proc') /\ \A r \in Procs \ {p} : proc'[r] = proc[r]
  BY <1>9, Zenon DEF Moved
<1>12. ChannelsInv(proc', ids')
  BY <1>1, <1>2, <1>3, <1>4, <1>5, <1>9, <1>11, ReturnChannels, Zenon
<1>13. primary # "off" /\ primary \in {"off", "running", "stopped"}
  BY <1>5, NoProcFacts, Zenon DEF ProtocolInv
<1> QED
  BY <1>2, <1>10, <1>11, <1>12, <1>13, Zenon DEF ProtocolInv

\* The number is put back once more.
LEMMA IpcExitInv ==
  ASSUME ProtocolInv, NEW p \in Procs, IpcExit(p)
  PROVE  ProtocolInv'
<1> DEFINE x == proc[p].chan
           q == [proc[p] EXCEPT !.pc = "panic_pool"]
<1>1. DOMAIN q = Fields /\ q.pc = "panic_pool" /\ DOMAIN NoProc = Fields
  BY ShapeOf, NoProcFacts, Zenon DEF Fields
<1>2. /\ proc[p].pc = "detach" /\ primary' = primary /\ send' = send
      /\ \/ NoRequest(p, q, 0) /\ ids' = ids
         \/ NoRequest(p, NoProc, pool - 1) /\ ids' = Append(ids, x)
  BY Zenon DEF IpcExit, PutChannelId, world
<1>3. /\ "detach" \in Stopping /\ "detach" \notin DOMAIN Awaited
      /\ {"off", "panic_pool"} \subseteq Pcs /\ "detach" \notin {"off"} \cup Panics
      /\ "panic_pool" \in Panics
      /\ \A pc \in {"off", "panic_pool"} : pc \notin Changing
  BY Zenon DEF Awaited, Stopping, Starting, Changing, Pcs, Panics
<1>4. /\ ChannelsInv(proc, ids) /\ ProcsOK(proc) /\ ids \in Seq(ChannelIds)
      /\ RingsOK(recv, send) /\ MessagesInv(proc, recv, send, ids)
  BY Zenon DEF ProtocolInv, ChannelsInv
<1>5. Live(proc[p])
  BY <1>2, <1>3, Zenon DEF Live
<1>6. Owns(proc, p, x) /\ x \in ChannelIds
  BY <1>4, <1>5, OtherChannels, Zenon DEF Owns
<1>7. Cleared(recv, send, send', x)
  <2>1. OnItsWay(proc[p], recv, send)
    BY <1>4, <1>5, Zenon DEF MessagesInv
  <2> QED BY <1>2, <1>3, <1>4, <2>1, Zenon DEF Cleared, RingsOK, OnItsWay
<1>8. NumbersFrom(ids, ids', x)
  <2>1. NumbersFrom(ids, ids, x)
    BY <1>4, Zenon DEF NumbersFrom
  <2>2. NumbersFrom(ids, Append(ids, x), x)
    BY <1>4, <1>6, ReturnedNumber, Zenon DEF NumbersFrom
  <2> QED BY <1>2, <2>1, <2>2, Zenon
<1> HIDE DEF q
<1>9. /\ Moved(proc, proc', recv, recv', p, x)
      /\ ~Live(proc'[p]) /\ proc'[p].pc \notin Changing
  <2>1. CASE NoRequest(p, q, 0)
    <3>1. ~Live(q)
      BY <1>1, <1>3, Zenon DEF Live
    <3> QED BY <1>1, <1>3, <1>4, <2>1, <3>1, NoRequestMoves, Zenon
  <2>2. CASE NoRequest(p, NoProc, pool - 1)
    BY <1>1, <1>3, <1>4, <2>2, NoProcFacts, NoRequestMoves, Zenon
  <2> QED BY <1>2, <2>1, <2>2, Zenon
<1>10. RingsOK(recv', send') /\ MessagesInv(proc', recv', send', ids')
  <2> HIDE DEF x
  <2> QED BY <1>4, <1>6, <1>7, <1>8, <1>9, MovedMessages, Zenon
<1>11. ProcsOK(proc') /\ \A r \in Procs \ {p} : proc'[r] = proc[r]
  BY <1>9, Zenon DEF Moved
<1>12. ChannelsInv(proc', ids')
  <2>1. ChannelsInv(proc', ids)
    BY <1>4, <1>9, <1>11, MovedChannels, Zenon
  <2>2. ChannelsInv(proc', Append(ids, x))
    BY <1>2, <1>3, <1>4, <1>5, <1>9, <1>11, ReturnChannels, Zenon
  <2> QED BY <1>2, <2>1, <2>2, Zenon
<1>13. primary # "off" /\ primary \in {"off", "running", "stopped"}
  BY <1>5, NoProcFacts, Zenon DEF ProtocolInv
<1> QED
  BY <1>2, <1>10, <1>11, <1>12, <1>13, Zenon DEF ProtocolInv

\* A process crashes in service: its channel is in no entry of id_gen, and
\* what is still on its way there concerns nobody.
LEMMA ProcessCrashInv ==
  ASSUME Plain("crash_start"), ProtocolInv, NEW p \in Procs, Crash(p)
  PROVE  ProtocolInv'
<1>1. /\ proc' = [proc EXCEPT ![p] = NoProc] /\ primary' = primary
      /\ recv' = recv /\ send' = send /\ ids' = ids
      /\ proc[p].pc \in Serving
  BY Zenon DEF Crash, world
<1>2. /\ ChannelsInv(proc, ids) /\ ProcsOK(proc)
      /\ RingsOK(recv, send) /\ MessagesInv(proc, recv, send, ids)
  BY Zenon DEF ProtocolInv
<1>3. /\ Live(proc[p]) /\ proc[p].pc \notin Starting /\ proc[p].pc # "detach"
      /\ "off" \notin Changing /\ "off" \in Pcs
  BY <1>1, Zenon DEF Serving, Live, Panics, Starting, Stopping, Changing, Pcs
<1>4. proc'[p] = NoProc /\ \A r \in Procs \ {p} : proc'[r] = proc[r]
  BY <1>1, <1>2, Zenon DEF ProcsOK
<1>5. ProcsOK(proc')
  BY <1>1, <1>2, <1>3, NoProcFacts, Zenon DEF ProcsOK
<1>6. ChannelsInv(proc', ids)
  BY <1>2, <1>3, <1>4, NoProcFacts, MovedChannels
<1>7. \A k \in 1..Len(ids) : ids[k] # proc[p].chan
  BY <1>2, <1>3, Zenon DEF ChannelsInv
<1>8. MessagesInv(proc', recv, send, ids)
  <2>1. \A r \in Procs : Live(proc'[r]) => OnItsWay(proc'[r], recv, send)
    BY <1>2, <1>4, NoProcFacts, Zenon DEF MessagesInv
  <2>2. ASSUME NEW k \in 1..Len(ids),
               \A r \in Procs : Live(proc'[r]) => proc'[r].chan # ids[k]
        PROVE  send[ids[k]] = <<>> /\ NoRequestOf(recv, ids[k])
    <3>1. \A r \in Procs : Live(proc[r]) => proc[r].chan # ids[k]
      BY <1>4, <1>7, <2>2, Zenon
    <3> QED BY <1>2, <3>1, Zenon DEF MessagesInv
  <2> QED BY <2>1, <2>2, Zenon DEF MessagesInv
<1>9. primary # "off" /\ primary \in {"off", "running", "stopped"}
  BY <1>3, NoProcFacts, Zenon DEF ProtocolInv
<1> QED
  BY <1>1, <1>2, <1>5, <1>6, <1>8, <1>9, Zenon DEF ProtocolInv

-----------------------------------------------------------------------------
(* The primary process.                                                    *)

AnswerOp(op) == IF op = "RESERVATION_RELEASE" THEN "RESERVATION_ACQUIRE" ELSE op

\* Each request is answered on its channel, with its opcode, but for the
\* release of a reservation.
LEMMA PollAnswers ==
  ASSUME NEW s, NEW m, m.op \in Ops
  PROVE  /\ PrimaryPollCore(s, m).cpl.chan = m.chan
         /\ PrimaryPollCore(s, m).cpl.op = AnswerOp(m.op)
<1>1. \A ret, copy : /\ Completion(m, ret, copy).chan = m.chan
                     /\ Completion(m, ret, copy).op = AnswerOp(m.op)
  BY Zenon DEF Completion, AnswerOp
<1>2. \A r : /\ Answered(m, r).cpl.chan = m.chan
             /\ Answered(m, r).cpl.op = AnswerOp(m.op)
  BY <1>1, Zenon DEF Answered
<1>3. m.op \in {"APP_REGISTER", "APP_UNREGISTER", "SUPERBLOCK_COPY", "BUFFER_ALLOC",
                "BUFFER_FREE", "CONTAINER_ALLOC", "CONTAINER_RELEASE",
                "RESERVATION_ACQUIRE", "RESERVATION_RELEASE", "HEALTH_CHECK"}
  BY DEF Ops, Requested, Awaited
<1>4. \/ \E r : PrimaryPollCore(s, m) = Answered(m, r)
      \/ \E ret, copy : PrimaryPollCore(s, m) = [s |-> s, cpl |-> Completion(m, ret, copy)]
  <2>1. CASE m.op = "APP_REGISTER"
    BY <2>1, Zenon DEF PrimaryPollCore
  <2>2. CASE m.op = "APP_UNREGISTER"
    BY <2>2, Zenon DEF PrimaryPollCore
  <2>3. CASE m.op = "SUPERBLOCK_COPY"
    BY <2>3, Zenon DEF PrimaryPollCore
  <2>4. CASE m.op = "BUFFER_ALLOC"
    BY <2>4, Zenon DEF PrimaryPollCore
  <2>5. CASE m.op = "BUFFER_FREE"
    BY <2>5, Zenon DEF PrimaryPollCore
  <2>6. CASE m.op = "CONTAINER_ALLOC"
    BY <2>6, Zenon DEF PrimaryPollCore
  <2>7. CASE m.op = "CONTAINER_RELEASE"
    BY <2>7, Zenon DEF PrimaryPollCore
  <2>8. CASE m.op = "RESERVATION_ACQUIRE"
    BY <2>8, Zenon DEF PrimaryPollCore
  <2>9. CASE m.op = "RESERVATION_RELEASE"
    BY <2>9, Zenon DEF PrimaryPollCore
  <2>10. CASE m.op = "HEALTH_CHECK"
    BY <2>10, Zenon DEF PrimaryPollCore
  <2> QED BY <1>3, <2>1, <2>2, <2>3, <2>4, <2>5, <2>6, <2>7, <2>8, <2>9,
             <2>10, Zenon
<1> QED
  BY <1>1, <1>2, <1>4

\* The answer to a request is the one its sender waits for.
LEMMA AnswerOps ==
  \A pc \in DOMAIN Awaited : AnswerOp(Requested[pc]) = Awaited[pc]
  BY DEF Awaited, Requested, AnswerOp

\* The first request leaves the ring, and its answer, if there is one, goes to
\* the ring of its channel.
Polled(sd, sd2, m) ==
  \/ sd2 = sd
  \/ \E a : /\ a.op = AnswerOp(m.op)
            /\ sd2 = [sd EXCEPT ![m.chan] = Append(@, a)]

\* Whoever waits for an answer to the first request gets it, and nobody else.
LEMMA PolledMessages ==
  ASSUME NEW P, NEW rv, NEW sd, NEW sd2, NEW id,
         RingsOK(rv, sd), MessagesInv(P, rv, sd, id), rv # <<>>,
         id \in Seq(ChannelIds), \A p \in Procs : Live(P[p]) => P[p].chan \in ChannelIds,
         Polled(sd, sd2, rv[1])
  PROVE  RingsOK(Tail(rv), sd2) /\ MessagesInv(P, Tail(rv), sd2, id)
<1> DEFINE m == rv[1]
           x == m.chan
           tl == Tail(rv)
<1>1. /\ IsSequence(rv) /\ AreSequences(sd)
      /\ \A i \in 1..Len(rv) : rv[i].chan \in ChannelIds /\ rv[i].op \in Ops
      /\ \A i, j \in 1..Len(rv) : rv[i].chan = rv[j].chan => i = j
  BY Zenon DEF RingsOK
<1>2. /\ IsSequence(tl) /\ Len(rv) \in Nat \ {0} /\ Len(tl) = Len(rv) - 1
      /\ \A i \in 1..Len(tl) : tl[i] = rv[i + 1]
  BY <1>1, TailEffect, Zenon
<1> HIDE DEF tl
<1>3. /\ 1 \in 1..Len(rv) /\ x \in ChannelIds
      /\ \A i \in 1..Len(tl) : i + 1 \in 1..Len(rv) /\ i + 1 # 1
  BY <1>1, <1>2
<1>4. NoRequestOf(tl, x)
  <2> SUFFICES ASSUME NEW i \in 1..Len(tl) PROVE tl[i].chan # x
    BY Zenon DEF NoRequestOf
  <2> QED BY <1>1, <1>2, <1>3, Zenon
<1>5. \A y : NoRequestOf(rv, y) => NoRequestOf(tl, y)
  BY <1>2, <1>3, Zenon DEF NoRequestOf
<1>6. /\ \A i \in 1..Len(tl) : tl[i].chan \in ChannelIds /\ tl[i].op \in Ops
      /\ \A i, j \in 1..Len(tl) : tl[i].chan = tl[j].chan => i = j
  <2>1. \A i \in 1..Len(tl) : tl[i].chan \in ChannelIds /\ tl[i].op \in Ops
    BY <1>1, <1>2, <1>3, Zenon
  <2>2. ASSUME NEW i \in 1..Len(tl), NEW j \in 1..Len(tl), tl[i].chan = tl[j].chan
        PROVE  i = j
    <3>1. i + 1 = j + 1
      BY <1>1, <1>2, <1>3, <2>2
    <3> QED BY <3>1
  <2> QED BY <2>1, <2>2, Zenon
<1>7. /\ AreSequences(sd2)
      /\ \A y \in ChannelIds \ {x} : sd2[y] = sd[y]
      /\ sd[x] = <<>> => \/ sd2[x] = <<>>
                         \/ Len(sd2[x]) = 1 /\ sd2[x][1].op = AnswerOp(m.op)
  <2>1. CASE sd2 = sd
    BY <1>1, <2>1, Zenon
  <2>2. ASSUME NEW a, a.op = AnswerOp(m.op), sd2 = [sd EXCEPT ![x] = Append(@, a)]
        PROVE  /\ AreSequences(sd2)
               /\ \A y \in ChannelIds \ {x} : sd2[y] = sd[y]
               /\ sd[x] = <<>> => Len(sd2[x]) = 1 /\ sd2[x][1].op = AnswerOp(m.op)
    <3>1. PICK S : sd \in [ChannelIds -> Seq(S)]
      BY <1>1, Zenon DEF AreSequences
    <3>2. sd[x] \in Seq(S)
      BY <1>3, <3>1, Zenon
    <3>3. Append(sd[x], a) \in Seq(S \cup {a}) /\ sd \in [ChannelIds -> Seq(S \cup {a})]
      BY <3>1, <3>2
    <3>4. sd2 \in [ChannelIds -> Seq(S \cup {a})] /\ sd2[x] = Append(sd[x], a)
      <4> HIDE DEF x
      <4> QED BY <1>3, <2>2, <3>1, <3>3, Zenon
    <3>5. \A y \in ChannelIds \ {x} : sd2[y] = sd[y]
      <4> HIDE DEF x
      <4> QED BY <1>3, <2>2, <3>1, Zenon
    <3>6. sd[x] = <<>> => Len(sd2[x]) = 1 /\ sd2[x][1] = a
      BY <3>4
    <3> QED BY <2>2, <3>4, <3>5, <3>6, Zenon DEF AreSequences
  <2> QED BY <2>1, <2>2, Zenon DEF Polled
<1>8. RingsOK(tl, sd2)
  BY <1>2, <1>6, <1>7, Zenon DEF RingsOK
<1>9. ASSUME NEW p \in Procs, Live(P[p]) PROVE OnItsWay(P[p], tl, sd2)
  <2>1. OnItsWay(P[p], rv, sd) /\ P[p].chan \in ChannelIds
    BY <1>9, Zenon DEF MessagesInv
  <2>2. CASE P[p].chan # x
    <3>1. sd2[P[p].chan] = sd[P[p].chan]
      BY <1>7, <2>1, <2>2, Zenon
    <3>2. \A i \in 1..Len(tl) : \E j \in 1..Len(rv) : tl[i] = rv[j]
      BY <1>2, <1>3, Zenon
    <3> QED BY <1>5, <2>1, <3>1, <3>2, Zenon DEF OnItsWay
  <2>3. CASE P[p].chan = x
    <3>1. ~NoRequestOf(rv, x)
      BY <1>3, Zenon DEF NoRequestOf
    <3>2. /\ P[p].pc \in DOMAIN Awaited /\ sd[x] = <<>>
          /\ m.op = Requested[P[p].pc]
      BY <1>3, <2>1, <2>3, <3>1, Zenon DEF OnItsWay
    <3>3. \/ sd2[x] = <<>>
          \/ Len(sd2[x]) = 1 /\ sd2[x][1].op = Awaited[P[p].pc]
      BY <1>7, <3>2, AnswerOps, Zenon
    <3>4. \A i \in 1..Len(tl) : tl[i].chan # x
      BY <1>4, Zenon DEF NoRequestOf
    <3> QED BY <1>4, <2>3, <3>2, <3>3, <3>4, Zenon DEF OnItsWay
  <2> QED BY <2>2, <2>3, Zenon
<1>10. ASSUME NEW k \in 1..Len(id), \A p \in Procs : Live(P[p]) => P[p].chan # id[k]
       PROVE  sd2[id[k]] = <<>> /\ NoRequestOf(tl, id[k])
  <2>0. id[k] \in ChannelIds
    BY <1>10
  <2>1. sd[id[k]] = <<>> /\ NoRequestOf(rv, id[k]) /\ id[k] \in ChannelIds
    BY <1>10, <2>0, Zenon DEF MessagesInv
  <2>2. id[k] # x
    BY <1>3, <2>1, Zenon DEF NoRequestOf
  <2> QED BY <1>5, <1>7, <2>1, <2>2, Zenon
<1> QED
  BY <1>8, <1>9, <1>10, Zenon DEF MessagesInv, tl

\* One turn of primary_poll.
LEMMA PrimaryPollInv ==
  ASSUME ProtocolInv, PrimaryPoll
  PROVE  ProtocolInv'
<1>1. /\ ChannelsInv(proc, ids) /\ RingsOK(recv, send)
      /\ MessagesInv(proc, recv, send, ids) /\ ProcsOK(proc)
  BY Zenon DEF ProtocolInv
<1>2. /\ primary = "running" /\ primary' \in {"running", "stopped"}
      /\ recv # <<>> /\ recv' = Tail(recv) /\ proc' = proc /\ ids' = ids
  BY Zenon DEF PrimaryPoll
<1>3. Head(recv) = recv[1] /\ recv[1].op \in Ops
  BY <1>1, <1>2, TailEffect DEF RingsOK
<1>4. Polled(send, send', recv[1])
  <2> DEFINE m == recv[1]
             a == PrimaryPollCore(cp, m).cpl
  <2>1. a.chan = m.chan /\ a.op = AnswerOp(m.op)
    BY <1>3, PollAnswers, Zenon
  <2>2. send' = send \/ send' = [send EXCEPT ![a.chan] = Append(@, a)]
    BY <1>3, Zenon DEF PrimaryPoll
  <2> HIDE DEF a, m
  <2>3. Polled(send, send', m)
    BY <2>1, <2>2, Zenon DEF Polled
  <2> QED BY <2>3, Zenon DEF m
<1>5. /\ ids \in Seq(ChannelIds)
      /\ \A p \in Procs : Live(proc[p]) => proc[p].chan \in ChannelIds
  BY <1>1, Zenon DEF ChannelsInv
<1>6. RingsOK(recv', send') /\ MessagesInv(proc, recv', send', ids)
  BY <1>1, <1>2, <1>4, <1>5, PolledMessages, Zenon
<1> QED
  BY <1>1, <1>2, <1>6, Zenon DEF ProtocolInv

\* Nobody is there, and nothing is on its way.
LEMMA EmptyInv ==
  ASSUME proc' = [p \in Procs |-> NoProc], recv' = <<>>,
         send' = [ch \in ChannelIds |-> <<>>], ids' \in Seq(ChannelIds),
         \A i, j \in 1..Len(ids') : i < j => ids'[i] # ids'[j],
         primary' \in {"off", "running", "stopped"}
  PROVE  ProtocolInv'
<1>1. \A p \in Procs : proc'[p] = NoProc /\ ~Live(proc'[p]) /\ proc'[p].pc \notin Changing
  BY NoProcFacts, Zenon DEF Changing, Starting, Stopping
<1>2. ProcsOK(proc')
  BY NoProcFacts, Zenon DEF ProcsOK, Pcs
<1>3. ChannelsInv(proc', ids')
  BY <1>1, Zenon DEF ChannelsInv
<1>4. RingsOK(recv', send')
  <2>1. recv' \in Seq({}) /\ Len(recv') = 0
    OBVIOUS
  <2>2. send' \in [ChannelIds -> Seq({})]
    OBVIOUS
  <2>3. 1..Len(recv') = {}
    BY <2>1
  <2> QED BY <2>1, <2>2, <2>3, Zenon DEF RingsOK, IsSequence, AreSequences
<1>5. MessagesInv(proc', recv', send', ids')
  <2>1. \A k \in 1..Len(ids') : ids'[k] \in ChannelIds
    OBVIOUS
  <2>2. \A y : NoRequestOf(recv', y)
    <3>1. 1..Len(recv') = {}
      OBVIOUS
    <3> QED BY <3>1, Zenon DEF NoRequestOf
  <2> QED BY <1>1, <2>1, <2>2, Zenon DEF MessagesInv
<1> QED
  BY <1>2, <1>3, <1>4, <1>5, Zenon DEF ProtocolInv

\* A start of the primary process: empty rings, every number once.
LEMMA PrimaryStartInv ==
  ASSUME ProtocolInv, PrimaryStart
  PROVE  ProtocolInv'
<1>1. primary = "off" /\ proc = [p \in Procs |-> NoProc] /\ proc' = proc
  BY Zenon DEF PrimaryStart, ProtocolInv
<1>2. CASE UNCHANGED <<recv, send, ids>> /\ primary' = "stopped"
  BY <1>1, <1>2, Zenon DEF ProtocolInv
<1>3. CASE NvfuseIpcInit /\ primary' = "running"
  <2>1. /\ recv' = <<>> /\ send' = [ch \in ChannelIds |-> <<>>]
        /\ ids' = [i \in 1..(Channels - 1) |-> i]
    BY <1>3, Zenon DEF NvfuseIpcInit
  <2>2. Channels - 1 \in Nat
    BY ControlAssumption
  <2>3. ids' \in Seq(ChannelIds) /\ Len(ids') = Channels - 1
    BY <2>1, <2>2 DEF ChannelIds
  <2>4. \A i, j \in 1..Len(ids') : i < j => ids'[i] # ids'[j]
    <3>1. \A i \in 1..Len(ids') : ids'[i] = i
      BY <2>1, <2>3, Zenon
    <3>2. \A i, j \in 1..Len(ids') : i < j => i # j
      BY <2>2, <2>3
    <3> QED BY <3>1, <3>2, Zenon
  <2> QED BY <1>1, <1>3, <2>1, <2>3, <2>4, EmptyInv, Zenon
<1> QED
  BY <1>2, <1>3, Zenon DEF PrimaryStart

\* Everything goes with the primary process.
LEMMA PrimaryGoneInv ==
  ASSUME PrimaryStop \/ PrimaryCrash
  PROVE  ProtocolInv'
<1>1. /\ proc' = [p \in Procs |-> NoProc] /\ primary' = "off" /\ RingsGone
  BY Zenon DEF PrimaryStop, PrimaryCrash
<1>2. recv' = <<>> /\ send' = [ch \in ChannelIds |-> <<>>] /\ ids' = <<>>
  BY <1>1, Zenon DEF RingsGone
<1>3. ids' \in Seq(ChannelIds) /\ 1..Len(ids') = {}
  BY <1>2
<1> QED
  BY <1>1, <1>2, <1>3, EmptyInv, Zenon

\* The first state keeps to the protocol.
LEMMA InitProtocol ==
  ASSUME Init
  PROVE  ProtocolInv
<1>1. /\ proc = [p \in Procs |-> NoProc] /\ primary = "off" /\ recv = <<>>
      /\ send = [ch \in ChannelIds |-> <<>>] /\ ids = <<>>
  BY Zenon DEF Init
<1>2. ids \in Seq(ChannelIds) /\ 1..Len(ids) = {}
  BY <1>1
<1>3. \A p \in Procs : proc[p] = NoProc /\ ~Live(proc[p]) /\ proc[p].pc \notin Changing
  BY <1>1, NoProcFacts, Zenon DEF Changing, Starting, Stopping
<1>4. ProcsOK(proc)
  BY <1>1, NoProcFacts, Zenon DEF ProcsOK, Pcs
<1>5. ChannelsInv(proc, ids)
  BY <1>2, <1>3, Zenon DEF ChannelsInv
<1>6. RingsOK(recv, send)
  <2>1. recv \in Seq({}) /\ 1..Len(recv) = {}
    BY <1>1
  <2>2. send \in [ChannelIds -> Seq({})]
    BY <1>1
  <2> QED BY <2>1, <2>2, Zenon DEF RingsOK, IsSequence, AreSequences
<1>7. MessagesInv(proc, recv, send, ids)
  BY <1>2, <1>3, Zenon DEF MessagesInv
<1> QED
  BY <1>1, <1>4, <1>5, <1>6, <1>7, Zenon DEF ProtocolInv

\* One step of a process.
LEMMA ProcessInv ==
  ASSUME Plain("overlap"), Plain("crash_start"), ProtocolInv,
         NEW p \in Procs, Process(p)
  PROVE  ProtocolInv'
<1>1. CASE Receive(p)
  BY <1>1, MountBuffersInv, MountRegisteredInv, MountCopiedInv,
     MountFetchedInv,
     MountPreallocatedInv, MountCheckedInv, GotContainerInv, GotBufferInv,
     RemovedBgInv, ReservedInv, UnreservedInv, UmountFreedInv, UmountDoneInv, Zenon
     DEF Receive
<1>2. CASE \/ Mount(p) \/ IpcInit(p) \/ NeedContainer(p) \/ NeedBuffer(p)
           \/ Umount(p) \/ IpcExit(p) \/ Crash(p)
  BY <1>2, MountInv, IpcInitInv, NeedContainerInv, NeedBufferInv, UmountInv,
     IpcExitInv, ProcessCrashInv, Zenon
<1>3. ASSUME NEW c \in Containers, RemoveBg(p, c) \/ Unreserve(p, c)
      PROVE  ProtocolInv'
  BY <1>3, RemoveBgInv, UnreserveInv, Zenon
<1>4. ASSUME NEW c \in Containers, NEW type \in {"READ", "WRITE"}, Reserve(p, c, type)
      PROVE  ProtocolInv'
  BY <1>4, ReserveInv, Zenon
<1> QED
  BY <1>1, <1>2, <1>3, <1>4, Zenon DEF Process

\* Every step keeps to the protocol.
LEMMA NextProtocol ==
  ASSUME Plain("overlap"), Plain("crash_start"), ProtocolInv, [Next]_vars
  PROVE  ProtocolInv'
<1>1. CASE UNCHANGED <<primary, proc, recv, send, ids>>
  BY <1>1, Zenon DEF ProtocolInv
<1>2. CASE NvfuseFormat \/ MountRefused \/ UNCHANGED vars
  BY <1>1, <1>2, Zenon DEF NvfuseFormat, MountRefused, vars
<1>3. CASE PrimaryStart \/ PrimaryStop \/ PrimaryCrash \/ PrimaryPoll
  BY <1>3, PrimaryStartInv, PrimaryGoneInv, PrimaryPollInv, Zenon
<1>4. CASE \E p \in Procs : Process(p)
  BY <1>4, ProcessInv, Zenon
<1> QED
  BY <1>2, <1>3, <1>4, Zenon DEF Next

\* Starts and ends of processes that do not overlap, and crashes only in
\* service: every process keeps to the protocol.
LEMMA Protocol ==
  ASSUME Plain("overlap"), Plain("crash_start")
  PROVE  Spec => []ProtocolInv
<1>1. Init => ProtocolInv
  BY InitProtocol, Zenon
<1>2. ProtocolInv /\ [Next]_vars => ProtocolInv'
  BY NextProtocol, Zenon
<1> QED
  BY <1>1, <1>2, PTL DEF Spec

\* Starts and ends of processes that do not overlap, and crashes only in
\* service: whatever the number of processes and channels, and although
\* nvfuse_ipc_init takes a second channel number and nvfuse_ipc_exit returns
\* the first one twice, no two live processes share a channel, and the only
\* answer in the ring of a process is the one it waits for.
THEOREM AnswersAreOwn ==
  ASSUME Plain("overlap"), Plain("crash_start")
  PROVE  Spec => []OwnAnswers
<1>1. ProtocolInv => OwnAnswers
  <2> SUFFICES ASSUME ProtocolInv, NEW p \in Procs, ~Gone(p)
               PROVE  /\ \A q \in Procs \ {p} : ~Gone(q) => proc[p].chan # proc[q].chan
                      /\ \/ send[proc[p].chan] = <<>>
                         \/ /\ Len(send[proc[p].chan]) = 1
                            /\ proc[p].pc \in DOMAIN Awaited
                            /\ send[proc[p].chan][1].op = Awaited[proc[p].pc]
    BY Zenon DEF OwnAnswers
  <2>1. \A q \in Procs : ~Gone(q) => Live(proc[q])
    BY Zenon DEF Gone, Live
  <2>2. \A q \in Procs \ {p} : ~Gone(q) => proc[p].chan # proc[q].chan
    BY <2>1, Zenon DEF ProtocolInv, ChannelsInv
  <2>3. OnItsWay(proc[p], recv, send)
    BY <2>1, Zenon DEF ProtocolInv, MessagesInv
  <2> QED BY <2>2, <2>3, Zenon DEF OnItsWay
<1> QED
  BY <1>1, Protocol, PTL

-----------------------------------------------------------------------------
(* The state of the superblock.                                            *)

\* The primary process runs on a superblock that says so, and after its crash
\* the superblock says that nobody has umounted it.
CrashInv ==
  /\ primary = "running" => ondisk = "MOUNTED" /\ crashed = FALSE
  /\ crashed \in BOOLEAN
  /\ crashed => primary = "off" /\ ondisk \in {"MOUNTED", "CRASHED"}

\* The processes have no part in it.
LEMMA ProcessOutside ==
  ASSUME NEW p \in Procs, Process(p)
  PROVE  UNCHANGED world
<1>1. CASE Receive(p)
  BY <1>1, Zenon
  DEF Receive, MountBuffers, MountRegistered, MountCopied, MountFetched,
     MountPreallocated, MountChecked, GotContainer, GotBuffer, RemovedBg,
     Reserved, Unreserved, UmountFreed, UmountDone
<1>2. CASE \/ Mount(p) \/ IpcInit(p) \/ NeedContainer(p) \/ NeedBuffer(p)
           \/ Umount(p) \/ IpcExit(p) \/ Crash(p)
  BY <1>2, Zenon
  DEF Mount, IpcInit, NeedContainer, NeedBuffer, Umount, IpcExit, Crash
<1>3. CASE \E c \in Containers : RemoveBg(p, c) \/ Unreserve(p, c)
  BY <1>3, Zenon DEF RemoveBg, Unreserve
<1>4. CASE \E c \in Containers, type \in {"READ", "WRITE"} : Reserve(p, c, type)
  BY <1>4, Zenon DEF Reserve
<1> QED
  BY <1>1, <1>2, <1>3, <1>4, Zenon DEF Process

\* However often the primary process and the others start, stop and crash: a
\* superblock that a crash has left is not mounted again before mkfs, and the
\* mounts that nvfuse_mount refuses in between leave it so.
THEOREM CrashesDetected ==
  Spec => []CrashDetected
<1>1. Init => CrashInv
  BY Zenon DEF Init, CrashInv
<1>2. CrashInv /\ [Next]_vars => CrashInv'
  <2> SUFFICES ASSUME CrashInv, [Next]_vars
               PROVE  CrashInv'
    BY Zenon
  <2>1. CASE UNCHANGED world \/ UNCHANGED vars
    BY <2>1 DEF CrashInv, world, vars
  <2>2. CASE NvfuseFormat
    BY <2>2, Zenon DEF CrashInv, NvfuseFormat
  <2>3. CASE MountRefused
    BY <2>3, Zenon DEF CrashInv, MountRefused
  <2>4. CASE PrimaryStart
    BY <2>4, Zenon DEF CrashInv, PrimaryStart, PrimaryMount
  <2>5. CASE PrimaryStop
    BY <2>5, Zenon DEF CrashInv, PrimaryStop
  <2>6. CASE PrimaryCrash
    BY <2>6, Zenon DEF CrashInv, PrimaryCrash
  <2>7. CASE PrimaryPoll
    BY <2>7, Zenon DEF CrashInv, PrimaryPoll
  <2>8. CASE \E p \in Procs : Process(p)
    BY <2>1, <2>8, ProcessOutside, Zenon
  <2> QED
    BY <2>1, <2>2, <2>3, <2>4, <2>5, <2>6, <2>7, <2>8, Zenon DEF Next
<1>3. CrashInv => CrashDetected
  BY Zenon DEF CrashInv, CrashDetected
<1> QED
  BY <1>1, <1>2, <1>3, PTL DEF Spec

-----------------------------------------------------------------------------
(* The log of the container table.                                         *)

CpFields == {"app", "tab", "free", "last", "buf", "cgen", "ccur", "agen", "acur",
             "clog", "alog", "dirs", "state", "stop"}

EntryFields == {"owner", "status", "ref"}

\* The control plane and its reservation_table.
CpShape(s) ==
  /\ DOMAIN s = CpFields
  /\ DOMAIN s.tab = Containers
  /\ \A c \in Containers : DOMAIN s.tab[c] = EntryFields

\* The log files of the container table: each is empty or has a table.
LogFile(file) ==
  /\ file.gen \in Nat
  /\ file.gen # 0 =>
       /\ DOMAIN file.table = Containers
       /\ \A c \in Containers : DOMAIN file.table[c] = EntryFields
LogFiles(log) == DOMAIN log = Logs /\ \A l \in Logs : LogFile(log[l])

\* Once a log has been read or written, the one before the next has the
\* generation before the next, and the owners of the table.
LogOK(s) ==
  /\ s.ccur \in Logs
  /\ s.cgen \in Nat \ {0}
  /\ s.cgen > 1 =>
       /\ s.clog[1 - s.ccur].gen = s.cgen - 1
       /\ \A c \in Containers : s.clog[1 - s.ccur].table[c].owner = s.tab[c].owner

\* The table is written to the next log file.
Stored(s, t) ==
  /\ t.cgen = s.cgen + 1
  /\ t.ccur = (s.ccur + 1) % 2
  /\ t.clog = [s.clog EXCEPT ![s.ccur] = [gen |-> s.cgen, table |-> t.tab]]

\* The log is left as it is, and so are the owners.
Unstored(s, t) ==
  /\ t.cgen = s.cgen
  /\ t.ccur = s.ccur
  /\ t.clog = s.clog
  /\ \A c \in Containers : t.tab[c].owner = s.tab[c].owner

\* A handler has gone from s to t, with this table, count and directories.
Handled(s, t, tab, free, dirs) ==
  /\ DOMAIN t = CpFields
  /\ t.tab = tab
  /\ t.free = free
  /\ t.dirs = dirs
  /\ t.stop = s.stop

-----------------------------------------------------------------------------
(* What the handlers of the control plane do.                              *)

\* Writing the container table changes nothing else.
LEMMA StoreEffect ==
  ASSUME NEW s, DOMAIN s = CpFields
  PROVE  /\ Handled(s, StoreContainerTable(s), s.tab, s.free, s.dirs)
         /\ Stored(s, StoreContainerTable(s))
         /\ StoreContainerTable(s).last = s.last
  BY Zenon DEF Handled, Stored, StoreContainerTable, CpFields

\* The application table has log files of its own.
LEMMA StoreAppEffect ==
  ASSUME NEW s, DOMAIN s = CpFields
  PROVE  LET t == StoreAppTable(s)
         IN  /\ Handled(s, t, s.tab, s.free, s.dirs)
             /\ t.cgen = s.cgen /\ t.ccur = s.ccur /\ t.clog = s.clog
             /\ t.last = s.last
  BY Zenon DEF Handled, StoreAppTable, CpFields

\* A container for a channel, out of those nobody owns.
Given(s, r, owner, x, st, c) ==
  /\ r.ret = c
  /\ c = SearchOrder(s)[FirstFit(s, owner)]
  /\ FirstFit(s, owner) # 0
  /\ \E v : /\ v = [owner |-> x, status |-> st, ref |-> 0]
            /\ Handled(s, r.s, [s.tab EXCEPT ![c] = v],
                       IF owner = 0 THEN s.free - 1 ELSE s.free, s.dirs)
  /\ Stored(s, r.s)
  /\ r.s.last = c

\* There is none, or one, or the control plane stops.
LEMMA AllocNewEffect ==
  ASSUME NEW s, CpShape(s), NEW x, NEW st
  PROVE  \/ AllocNew(s, x, st) = [s |-> s, ret |-> 0]
         \/ AllocNew(s, x, st).s.stop # "none"
         \/ \E c : Given(s, AllocNew(s, x, st), 0, x, st, c)
<1> DEFINE c == SearchOrder(s)[FirstFit(s, 0)]
           v == [owner |-> x, status |-> st, ref |-> 0]
           u == [s EXCEPT !.tab[c] = v, !.free = @ - 1, !.last = c]
           r == [s |-> StoreContainerTable(u), ret |-> c]
<1>1. CASE s.free = 0
  BY <1>1, Zenon DEF AllocNew
<1>2. CASE s.free # 0 /\ FirstFit(s, 0) = 0
  <2>1. AllocNew(s, x, st) = [s |-> Stopped(s, "endless_search"), ret |-> 0]
    BY <1>2, Zenon DEF AllocNew
  <2> QED BY <2>1 DEF Stopped, CpShape, CpFields
<1>3. CASE s.free # 0 /\ FirstFit(s, 0) # 0
  <2>1. AllocNew(s, x, st) = r
    BY <1>3, Zenon DEF AllocNew
  <2> HIDE DEF c, v
  <2>2. /\ DOMAIN u = CpFields /\ u.tab = [s.tab EXCEPT ![c] = v]
        /\ u.free = s.free - 1 /\ u.last = c
        /\ u.dirs = s.dirs /\ u.stop = s.stop
        /\ u.cgen = s.cgen /\ u.ccur = s.ccur /\ u.clog = s.clog
    BY Zenon DEF CpShape, CpFields
  <2> HIDE DEF u
  <2>3. /\ Handled(s, r.s, [s.tab EXCEPT ![c] = v], s.free - 1, s.dirs)
        /\ Stored(s, r.s) /\ r.s.last = c /\ r.ret = c
    BY <2>2, StoreEffect DEF Handled, Stored
  <2> QED BY <1>3, <2>1, <2>3, Zenon DEF Given, c, v
<1> QED
  BY <1>1, <1>2, <1>3, Zenon

\* A container that a channel has had before.
LEMMA AllocAllocatedEffect ==
  ASSUME NEW s, CpShape(s), NEW x, NEW st
  PROVE  \/ AllocAllocated(s, x, st) = [s |-> s, ret |-> 0]
         \/ AllocAllocated(s, x, st).s.stop # "none"
         \/ \E c : /\ AllocAllocated(s, x, st).ret = c
                   /\ c = SearchOrder(s)[FirstFit(s, x)]
                   /\ FirstFit(s, x) # 0
                   /\ \E tab : /\ tab = [s.tab EXCEPT ![c].status = st, ![c].ref = 0]
                               /\ Handled(s, AllocAllocated(s, x, st).s, tab, s.free, s.dirs)
                   /\ Stored(s, AllocAllocated(s, x, st).s)
                   /\ AllocAllocated(s, x, st).s.last = c
<1> DEFINE c == SearchOrder(s)[FirstFit(s, x)]
           tab == [s.tab EXCEPT ![c].status = st, ![c].ref = 0]
           u == [s EXCEPT !.tab[c].status = st, !.tab[c].ref = 0, !.last = c]
           r == [s |-> StoreContainerTable(u), ret |-> c]
<1>1. CASE FirstFit(s, x) = 0
  BY <1>1 DEF AllocAllocated
<1>2. CASE FirstFit(s, x) # 0 /\ c = 0
  <2>1. AllocAllocated(s, x, st) = [s |-> Stopped(s, "assert_container"), ret |-> 0]
    BY <1>2 DEF AllocAllocated
  <2> QED BY <2>1 DEF Stopped, CpShape, CpFields
<1>3. CASE FirstFit(s, x) # 0 /\ c # 0
  <2>1. AllocAllocated(s, x, st) = r
    BY <1>3, Zenon DEF AllocAllocated
  <2> HIDE DEF c
  <2>2. /\ DOMAIN u = CpFields /\ u.tab = tab
        /\ u.free = s.free /\ u.last = c
        /\ u.dirs = s.dirs /\ u.stop = s.stop
        /\ u.cgen = s.cgen /\ u.ccur = s.ccur /\ u.clog = s.clog
    BY Zenon DEF CpShape, CpFields
  <2> HIDE DEF u, tab
  <2>3. /\ Handled(s, r.s, tab, s.free, s.dirs)
        /\ Stored(s, r.s) /\ r.s.last = c /\ r.ret = c
    BY <2>2, StoreEffect DEF Handled, Stored
  <2> QED BY <1>3, <2>1, <2>3, Zenon DEF c, tab
<1> QED
  BY <1>1, <1>2, <1>3, Zenon

\* A container goes back.
LEMMA ReleaseEffect ==
  ASSUME NEW s, CpShape(s), NEW x, NEW c
  PROVE  \/ ContainerRelease(s, x, c) = [s |-> s, ret |-> -1]
         \/ /\ s.tab[c].owner = x /\ s.tab[c].ref = 0
            /\ Handled(s, ContainerRelease(s, x, c).s, [s.tab EXCEPT ![c] = FreeEntry],
                       s.free + 1, s.dirs)
            /\ Stored(s, ContainerRelease(s, x, c).s)
            /\ ContainerRelease(s, x, c).s.last = s.last
<1> DEFINE u == [s EXCEPT !.tab[c] = FreeEntry, !.free = @ + 1]
<1>1. CASE s.tab[c].owner # x \/ s.tab[c].ref # 0
  BY <1>1, Zenon DEF ContainerRelease
<1>2. CASE s.tab[c].owner = x /\ s.tab[c].ref = 0
  <2>1. ContainerRelease(s, x, c) = [s |-> StoreContainerTable(u), ret |-> 0]
    BY <1>2, Zenon DEF ContainerRelease
  <2>2. /\ DOMAIN u = CpFields /\ u.tab = [s.tab EXCEPT ![c] = FreeEntry]
        /\ u.free = s.free + 1 /\ u.last = s.last
        /\ u.dirs = s.dirs /\ u.stop = s.stop
        /\ u.cgen = s.cgen /\ u.ccur = s.ccur /\ u.clog = s.clog
    BY Zenon DEF CpShape, CpFields
  <2> HIDE DEF u
  <2>3. /\ Handled(s, StoreContainerTable(u), [s.tab EXCEPT ![c] = FreeEntry],
                   s.free + 1, s.dirs)
        /\ Stored(s, StoreContainerTable(u)) /\ StoreContainerTable(u).last = s.last
    BY <2>2, StoreEffect DEF Handled, Stored
  <2>4. ContainerRelease(s, x, c).s = StoreContainerTable(u)
    BY <2>1
  <2> QED BY <1>2, <2>3, <2>4, Zenon
<1> QED
  BY <1>1, <1>2, Zenon

\* A container of a channel that is not reserved is unlocked.
Unlocked(tab, tab2, x) ==
  /\ DOMAIN tab2 = Containers
  /\ \A c \in Containers :
       \/ tab2[c] = tab[c]
       \/ /\ tab[c].owner = x /\ tab[c].ref = 0
          /\ tab2[c] = [tab[c] EXCEPT !.status = "UNLOCKED"]

\* The containers of an application that leaves stay with its channel.
LEMMA RemoveEffect ==
  ASSUME NEW s, CpShape(s), NEW x
  PROVE  \/ AppManageTableRemove(s, x) = [s |-> s, ret |-> -1]
         \/ \E tab : /\ Unlocked(s.tab, tab, x)
                     /\ Handled(s, AppManageTableRemove(s, x).s, tab, s.free, s.dirs)
                     /\ Stored(s, AppManageTableRemove(s, x).s)
                     /\ AppManageTableRemove(s, x).s.last = s.last
<1> DEFINE u == ReleaseByCoreid(s, x)
           w == StoreContainerTable(u)
<1>1. CASE x \notin ChannelIds \/ s.app[x].chan # x
  BY <1>1, Zenon DEF AppManageTableRemove
<1>2. CASE ~(x \notin ChannelIds \/ s.app[x].chan # x)
  <2>1. AppManageTableRemove(s, x) = [s |-> StoreAppTable(w), ret |-> 0]
    BY <1>2, Zenon DEF AppManageTableRemove
  <2>2. PICK tab : u = [s EXCEPT !.tab = tab] /\ Unlocked(s.tab, tab, x)
    <3> DEFINE Mine == {c \in Containers \ {0} : s.tab[c].owner = x}
               Done == {c \in Mine : \A d \in Mine : d <= c => s.tab[d].ref = 0}
               tab == [c \in Containers |->
                         IF c \in Done THEN [s.tab[c] EXCEPT !.status = "UNLOCKED"]
                         ELSE s.tab[c]]
    <3>1. u = [s EXCEPT !.tab = tab]
      BY Zenon DEF ReleaseByCoreid
    <3>2. \A c \in Done : s.tab[c].owner = x /\ s.tab[c].ref = 0
      <4> SUFFICES ASSUME NEW c \in Done PROVE s.tab[c].owner = x /\ s.tab[c].ref = 0
        BY Zenon
      <4>1. c \in Mine /\ c <= c
        BY ControlAssumption DEF Containers
      <4> QED BY <4>1, Zenon
    <3> HIDE DEF Done
    <3>3. Unlocked(s.tab, tab, x)
      BY <3>2, Zenon DEF Unlocked
    <3> HIDE DEF tab
    <3> QED BY <3>1, <3>3, Zenon
  <2> HIDE DEF u
  <2>3. /\ DOMAIN u = CpFields /\ u.tab = tab
        /\ u.free = s.free /\ u.last = s.last
        /\ u.dirs = s.dirs /\ u.stop = s.stop
        /\ u.cgen = s.cgen /\ u.ccur = s.ccur /\ u.clog = s.clog
    BY <2>2, Zenon DEF CpShape, CpFields
  <2>4. /\ Handled(s, w, tab, s.free, s.dirs) /\ Stored(s, w) /\ w.last = s.last
    BY <2>3, StoreEffect DEF Handled, Stored
  <2> HIDE DEF w
  <2>5. /\ Handled(s, StoreAppTable(w), tab, s.free, s.dirs)
        /\ Stored(s, StoreAppTable(w)) /\ StoreAppTable(w).last = s.last
    BY <2>4, StoreAppEffect, Zenon DEF Handled, Stored
  <2>6. AppManageTableRemove(s, x).s = StoreAppTable(w)
    BY <2>1
  <2> QED BY <2>2, <2>5, <2>6, Zenon
<1> QED
  BY <1>1, <1>2, Zenon

\* The log and the place where the search starts stay as they are.
Quiet(s, t) ==
  /\ t.cgen = s.cgen
  /\ t.ccur = s.ccur
  /\ t.clog = s.clog
  /\ t.last = s.last

\* A reservation of container c changes its status and its reference count.
Reservation(s, t, c, st, ref) ==
  /\ \E tab : /\ tab = [s.tab EXCEPT ![c].status = st, ![c].ref = ref]
              /\ Handled(s, t, tab, s.free, s.dirs)
  /\ Quiet(s, t)

\* Both entries in turn are the same as both at once.
LEMMA ReservationWritten ==
  ASSUME NEW s, CpShape(s), NEW c, NEW st, NEW ref
  PROVE  Reservation(s, [s EXCEPT !.tab[c].status = st, !.tab[c].ref = ref], c, st, ref)
<1> DEFINE t == [s EXCEPT !.tab[c].status = st, !.tab[c].ref = ref]
           tab == [s.tab EXCEPT ![c].status = st, ![c].ref = ref]
<1>1. /\ DOMAIN t = CpFields /\ t.tab = tab /\ t.free = s.free /\ t.dirs = s.dirs
      /\ t.stop = s.stop /\ t.last = s.last
      /\ t.cgen = s.cgen /\ t.ccur = s.ccur /\ t.clog = s.clog
  BY Zenon DEF CpShape, CpFields
<1> HIDE DEF t, tab
<1> QED
  BY <1>1, Zenon DEF Reservation, Handled, Quiet, t, tab

\* A reservation is refused, or it counts.
LEMMA AcquireEffect ==
  ASSUME NEW s, CpShape(s), NEW c \in Containers, NEW type
  PROVE  \/ ReservationAcquire(s, c, type) = [s |-> s, ret |-> -1]
         \/ \E st \in {"READ_LOCKED", "WRITE_LOCKED"} :
              /\ \/ s.tab[c].status = "UNLOCKED"
                 \/ s.tab[c].status = "READ_LOCKED" /\ st = "READ_LOCKED"
              /\ Reservation(s, ReservationAcquire(s, c, type).s, c, st, s.tab[c].ref + 1)
              /\ ReservationAcquire(s, c, type).ret = 0
<1> DEFINE Case1 == type = "WRITE" /\ s.tab[c].status = "UNLOCKED"
           Case2 == type = "READ" /\ s.tab[c].status \in {"UNLOCKED", "READ_LOCKED"}
           A(st) == [s EXCEPT !.tab[c].status = st, !.tab[c].ref = @ + 1]
           B(st) == [s EXCEPT !.tab[c].status = st, !.tab[c].ref = s.tab[c].ref + 1]
<1>1. \A st : A(st) = B(st)
  <2> SUFFICES ASSUME NEW st PROVE A(st) = B(st)
    BY Zenon
  <2> QED BY Zenon DEF CpShape, CpFields, EntryFields
<1>2. ASSUME NEW st \in {"READ_LOCKED", "WRITE_LOCKED"},
             \/ s.tab[c].status = "UNLOCKED"
             \/ s.tab[c].status = "READ_LOCKED" /\ st = "READ_LOCKED",
             ReservationAcquire(s, c, type) = [s |-> A(st), ret |-> 0]
      PROVE  \E k \in {"READ_LOCKED", "WRITE_LOCKED"} :
              /\ \/ s.tab[c].status = "UNLOCKED"
                 \/ s.tab[c].status = "READ_LOCKED" /\ k = "READ_LOCKED"
              /\ Reservation(s, ReservationAcquire(s, c, type).s, c, k, s.tab[c].ref + 1)
              /\ ReservationAcquire(s, c, type).ret = 0
  <2>1. Reservation(s, B(st), c, st, s.tab[c].ref + 1)
    BY ReservationWritten, Zenon
  <2>2. A(st) = B(st)
    BY <1>1, Zenon
  <2> HIDE DEF A, B
  <2>3. ReservationAcquire(s, c, type).s = B(st) /\ ReservationAcquire(s, c, type).ret = 0
    BY <1>2, <2>2
  <2> QED BY <1>2, <2>1, <2>3, Zenon
<1>3. CASE Case1
  <2>1. ReservationAcquire(s, c, type) = [s |-> A("WRITE_LOCKED"), ret |-> 0]
    BY <1>3, Zenon DEF ReservationAcquire
  <2> QED BY <1>2, <1>3, <2>1, Zenon
<1>4. CASE Case2 /\ ~Case1
  <2>1. ReservationAcquire(s, c, type) = [s |-> A("READ_LOCKED"), ret |-> 0]
    BY <1>4, Zenon DEF ReservationAcquire
  <2> HIDE DEF A, B
  <2>2. s.tab[c].status = "UNLOCKED" \/ s.tab[c].status = "READ_LOCKED"
    BY <1>4, Zenon
  <2> QED BY <1>2, <2>1, <2>2, Zenon
<1>5. CASE ~Case1 /\ ~Case2
  BY <1>5, Zenon DEF ReservationAcquire
<1> QED
  BY <1>3, <1>4, <1>5, Zenon

\* A reservation goes back, if there is one.
LEMMA UnreserveEffect ==
  ASSUME NEW s, CpShape(s), NEW c \in Containers
  PROVE  \/ /\ ReservationRelease(s, c).s = s
            /\ s.tab[c].status \notin {"READ_LOCKED", "WRITE_LOCKED"}
         \/ ReservationRelease(s, c).s.stop # "none"
         \/ \E st, ref :
              /\ Reservation(s, ReservationRelease(s, c).s, c, st, ref)
              /\ \/ /\ s.tab[c].status = "WRITE_LOCKED" /\ s.tab[c].ref = 1
                    /\ st = "UNLOCKED" /\ ref = 0
                 \/ /\ s.tab[c].status = "READ_LOCKED"
                    /\ st = IF s.tab[c].ref = 1 THEN "UNLOCKED" ELSE "READ_LOCKED"
                    /\ ref = s.tab[c].ref - 1
<1> DEFINE e == s.tab[c]
           B(st, ref) == [s EXCEPT !.tab[c].status = st, !.tab[c].ref = ref]
<1>1. CASE e.status = "WRITE_LOCKED" /\ e.ref = 1
  <2>1. ReservationRelease(s, c) = [s |-> B("UNLOCKED", 0), ret |-> 0]
    BY <1>1, Zenon DEF ReservationRelease
  <2>2. Reservation(s, B("UNLOCKED", 0), c, "UNLOCKED", 0)
    BY ReservationWritten, Zenon
  <2> HIDE DEF B
  <2>3. ReservationRelease(s, c).s = B("UNLOCKED", 0)
    BY <2>1
  <2> QED BY <1>1, <2>2, <2>3, Zenon
<1>2. CASE e.status = "WRITE_LOCKED" /\ e.ref # 1
  <2>1. ReservationRelease(s, c) = [s |-> Stopped(s, "assert_write_lock"), ret |-> 0]
    BY <1>2, Zenon DEF ReservationRelease
  <2> QED BY <2>1 DEF Stopped, CpShape, CpFields
<1>3. CASE e.status = "READ_LOCKED"
  <2> DEFINE st == IF e.ref = 1 THEN "UNLOCKED" ELSE "READ_LOCKED"
             A == [s EXCEPT !.tab[c].status = IF e.ref = 1 THEN "UNLOCKED" ELSE @,
                            !.tab[c].ref = @ - 1]
  <2>1. ReservationRelease(s, c) = [s |-> A, ret |-> 0]
    BY <1>3, Zenon DEF ReservationRelease
  <2>2. A = B(st, e.ref - 1)
    BY <1>3 DEF CpShape, CpFields, EntryFields
  <2>3. Reservation(s, B(st, e.ref - 1), c, st, e.ref - 1)
    <3> HIDE DEF st
    <3> QED BY ReservationWritten, Zenon
  <2> HIDE DEF A, B
  <2>4. ReservationRelease(s, c).s = B(st, e.ref - 1)
    BY <2>1, <2>2
  <2> QED BY <1>3, <2>3, <2>4, Zenon
<1>4. CASE e.status \notin {"READ_LOCKED", "WRITE_LOCKED"}
  <2>1. ReservationRelease(s, c) = [s |-> s, ret |-> -1]
    BY <1>4, Zenon DEF ReservationRelease
  <2> QED BY <1>4, <2>1
<1> QED
  BY <1>1, <1>2, <1>3, <1>4, Zenon

\* The directory of a new application is in container c.
WithDir(dirs, name, c) ==
  [n \in DOMAIN dirs \cup {name} |-> IF n = name THEN c ELSE dirs[n]]

\* What a registration leaves: the application as it was or with a directory,
\* in a container of its own if there is one.
AddResult(s, z, x, name) ==
  \/ /\ Handled(s, z, s.tab, s.free, s.dirs)
     /\ Quiet(s, z)
  \/ z.stop # "none"
  \/ /\ name \notin DOMAIN s.dirs
     /\ Handled(s, z, s.tab, s.free,
                WithDir(s.dirs, name, 0))
     /\ Quiet(s, z)
  \/ \E c, v :
       /\ name \notin DOMAIN s.dirs
       /\ c = SearchOrder(s)[FirstFit(s, 0)] /\ FirstFit(s, 0) # 0
       /\ v = [owner |-> x, status |-> "UNLOCKED", ref |-> 0]
       /\ Handled(s, z, [s.tab EXCEPT ![c] = v],
                  s.free - 1, WithDir(s.dirs, name, c))
       /\ Stored(s, z)
       /\ z.last = c

\* An application is registered anew or once more.
LEMMA AddEffect ==
  ASSUME NEW s, CpShape(s), NEW x, NEW name,
         NEW z, z = AppManageTableAdd(s, x, name).s
  PROVE  AddResult(s, z, x, name)
<1> DEFINE node == [s EXCEPT !.app[x].chan = x, !.app[x].name = name]
           r == ContainerAlloc(node, x, "NEW", "UNLOCKED")
           t == [r.s EXCEPT !.app[x].root = r.ret,
                            !.dirs = [n \in DOMAIN @ \cup {name} |->
                                        IF n = name THEN r.ret ELSE @[n]]]
<1>1. /\ DOMAIN node = CpFields /\ node.tab = s.tab /\ node.free = s.free
      /\ node.last = s.last /\ node.dirs = s.dirs /\ node.stop = s.stop
      /\ node.cgen = s.cgen /\ node.ccur = s.ccur /\ node.clog = s.clog
  BY Zenon DEF CpShape, CpFields
<1>0. CASE x \notin ChannelIds
  <2>1. AppManageTableAdd(s, x, name) = [s |-> s, ret |-> -1]
    BY <1>0, Zenon DEF AppManageTableAdd
  <2>2. z = s
    BY <2>1
  <2> QED BY <2>2, Zenon DEF AddResult, Handled, Quiet, CpShape
<1>2. CASE x \in ChannelIds /\ name \in DOMAIN s.dirs
  <2>1. AppManageTableAdd(s, x, name) = [s |-> node, ret |-> 0]
    BY <1>2, Zenon DEF AppManageTableAdd
  <2> HIDE DEF node
  <2>2. z = node
    BY <2>1
  <2> QED BY <1>1, <2>2, Zenon DEF AddResult, Handled, Quiet
<1>3. CASE x \in ChannelIds /\ name \notin DOMAIN s.dirs
  <2>1. AppManageTableAdd(s, x, name) = [s |-> t, ret |-> 0]
    BY <1>3, Zenon DEF AppManageTableAdd
  <2>2. CpShape(node)
    BY <1>1, Zenon DEF CpShape
  <2>3. \/ r = [s |-> node, ret |-> 0]
        \/ r.s.stop # "none"
        \/ \E c : Given(node, r, 0, x, "UNLOCKED", c)
    <3>1. r = AllocNew(node, x, "UNLOCKED")
      BY Zenon DEF ContainerAlloc
    <3> HIDE DEF r, node
    <3> QED BY <2>2, <3>1, AllocNewEffect, Zenon
  <2> HIDE DEF node, r
  <2>4. SearchOrder(node) = SearchOrder(s) /\ FirstFit(node, 0) = FirstFit(s, 0)
    BY <1>1, Zenon DEF SearchOrder, FirstFit
  <2>5. ASSUME DOMAIN r.s = CpFields, r.s.dirs = s.dirs
        PROVE  /\ DOMAIN t = CpFields /\ t.tab = r.s.tab /\ t.free = r.s.free
               /\ t.last = r.s.last /\ t.stop = r.s.stop
               /\ t.cgen = r.s.cgen /\ t.ccur = r.s.ccur /\ t.clog = r.s.clog
               /\ t.dirs = WithDir(s.dirs, name, r.ret)
    BY <2>5, Zenon DEF CpFields, WithDir
  <2>6. r.s.stop # "none" => t.stop # "none"
    BY DEF CpFields
  <2> HIDE DEF t
  <2>7. z = t
    BY <2>1
  <2>8. CASE r = [s |-> node, ret |-> 0]
    <3>1. r.s = node /\ r.ret = 0
      BY <2>8
    <3>2. /\ DOMAIN t = CpFields /\ t.tab = s.tab /\ t.free = s.free
          /\ t.last = s.last /\ t.stop = s.stop
          /\ t.cgen = s.cgen /\ t.ccur = s.ccur /\ t.clog = s.clog
          /\ t.dirs = WithDir(s.dirs, name, 0)
      BY <1>1, <2>5, <3>1, Zenon
    <3> QED BY <1>3, <2>7, <3>2, Zenon DEF AddResult, Handled, Quiet
  <2>9. ASSUME NEW c, Given(node, r, 0, x, "UNLOCKED", c)
        PROVE  \E v :
              /\ c = SearchOrder(s)[FirstFit(s, 0)] /\ FirstFit(s, 0) # 0
              /\ v = [owner |-> x, status |-> "UNLOCKED", ref |-> 0]
              /\ Handled(s, t, [s.tab EXCEPT ![c] = v], s.free - 1, WithDir(s.dirs, name, c))
              /\ Stored(s, t)
              /\ t.last = c
    <3>1. PICK v : /\ v = [owner |-> x, status |-> "UNLOCKED", ref |-> 0]
                   /\ Handled(node, r.s, [node.tab EXCEPT ![c] = v], node.free - 1,
                              node.dirs)
      BY <2>9, Zenon DEF Given
    <3>2. /\ DOMAIN r.s = CpFields /\ r.s.tab = [s.tab EXCEPT ![c] = v]
          /\ r.s.free = s.free - 1 /\ r.s.dirs = s.dirs /\ r.s.stop = s.stop
      BY <1>1, <3>1, Zenon DEF Handled
    <3>3. /\ r.s.last = c /\ r.ret = c /\ Stored(node, r.s)
          /\ c = SearchOrder(s)[FirstFit(s, 0)] /\ FirstFit(s, 0) # 0
      BY <2>4, <2>9, Zenon DEF Given
    <3>4. Handled(s, t, [s.tab EXCEPT ![c] = v], s.free - 1, WithDir(s.dirs, name, c))
      BY <2>5, <3>2, <3>3, Zenon DEF Handled
    <3>5. Stored(s, t) /\ t.last = c
      BY <1>1, <2>5, <3>2, <3>3, Zenon DEF Stored
    <3> QED BY <3>1, <3>3, <3>4, <3>5, Zenon
  <2> QED BY <1>3, <2>3, <2>6, <2>7, <2>8, <2>9, Zenon DEF AddResult
<1> QED
  BY <1>0, <1>2, <1>3, Zenon

\* Buffers are no matter of the container table.
LEMMA BufferEffect ==
  ASSUME NEW s, CpShape(s), NEW size
  PROVE  /\ Handled(s, BufferAlloc(s, size).s, s.tab, s.free, s.dirs)
         /\ Quiet(s, BufferAlloc(s, size).s)
         /\ Handled(s, BufferFree(s, size).s, s.tab, s.free, s.dirs)
         /\ Quiet(s, BufferFree(s, size).s)
<1>1. ASSUME NEW b
      PROVE  /\ Handled(s, [s EXCEPT !.buf = b], s.tab, s.free, s.dirs)
             /\ Quiet(s, [s EXCEPT !.buf = b])
  BY Zenon DEF Handled, Quiet, CpShape, CpFields
<1>2. Handled(s, s, s.tab, s.free, s.dirs) /\ Quiet(s, s)
  BY Zenon DEF Handled, Quiet, CpShape
<1>3. BufferAlloc(s, size).s \in {s, [s EXCEPT !.buf = s.buf - size]}
  BY Zenon DEF BufferAlloc
<1>4. BufferFree(s, size).s \in {s, [s EXCEPT !.buf = s.buf + size]}
  BY Zenon DEF BufferFree
<1> QED
  BY <1>1, <1>2, <1>3, <1>4, Zenon

\* The state and the result of a handler are those of the answer.
Does(s, m, r) ==
  PrimaryPollCore(s, m).s = r.s /\ PrimaryPollCore(s, m).cpl.ret = r.ret

\* The handler of each request.
Polls(s, m) ==
  /\ m.op = "APP_REGISTER" => Does(s, m, AppManageTableAdd(s, m.chan, m.arg))
  /\ m.op = "APP_UNREGISTER" => Does(s, m, AppManageTableRemove(s, m.chan))
  /\ m.op = "BUFFER_ALLOC" => Does(s, m, BufferAlloc(s, m.arg))
  /\ m.op = "BUFFER_FREE" => Does(s, m, BufferFree(s, m.arg))
  /\ m.op = "CONTAINER_ALLOC" => Does(s, m, ContainerAlloc(s, m.chan, m.arg, "ACQUIRED"))
  /\ m.op = "CONTAINER_RELEASE" => Does(s, m, ContainerRelease(s, m.chan, m.arg))
  /\ m.op = "RESERVATION_ACQUIRE" => Does(s, m, ReservationAcquire(s, m.arg[1], m.arg[2]))
  /\ m.op = "RESERVATION_RELEASE" => Does(s, m, ReservationRelease(s, m.arg))
  /\ m.op = "HEALTH_CHECK" => Does(s, m, [s |-> s, ret |-> 0])
  /\ m.op = "SUPERBLOCK_COPY" => PrimaryPollCore(s, m).s = s

\* The turn of primary_poll calls it.
LEMMA PollHandlers ==
  ASSUME NEW s, NEW m
  PROVE  Polls(s, m)
<1>1. \A r : PrimaryPollCore(s, m) = Answered(m, r) => Does(s, m, r)
  BY DEF Answered, Completion, Does
<1>2. m.op = "APP_REGISTER" => Does(s, m, AppManageTableAdd(s, m.chan, m.arg))
  <2>1. m.op = "APP_REGISTER" =>
          PrimaryPollCore(s, m) = Answered(m, AppManageTableAdd(s, m.chan, m.arg))
    BY Zenon DEF PrimaryPollCore
  <2> QED BY <1>1, <2>1, Zenon
<1>3. m.op = "APP_UNREGISTER" => Does(s, m, AppManageTableRemove(s, m.chan))
  <2>1. m.op = "APP_UNREGISTER" =>
          PrimaryPollCore(s, m) = Answered(m, AppManageTableRemove(s, m.chan))
    BY Zenon DEF PrimaryPollCore
  <2> QED BY <1>1, <2>1, Zenon
<1>4. m.op = "BUFFER_ALLOC" => Does(s, m, BufferAlloc(s, m.arg))
  <2>1. m.op = "BUFFER_ALLOC" =>
          PrimaryPollCore(s, m) = Answered(m, BufferAlloc(s, m.arg))
    BY Zenon DEF PrimaryPollCore
  <2> QED BY <1>1, <2>1, Zenon
<1>5. m.op = "BUFFER_FREE" => Does(s, m, BufferFree(s, m.arg))
  <2>1. m.op = "BUFFER_FREE" =>
          PrimaryPollCore(s, m) = Answered(m, BufferFree(s, m.arg))
    BY Zenon DEF PrimaryPollCore
  <2> QED BY <1>1, <2>1, Zenon
<1>6. m.op = "CONTAINER_ALLOC" => Does(s, m, ContainerAlloc(s, m.chan, m.arg, "ACQUIRED"))
  <2>1. m.op = "CONTAINER_ALLOC" =>
          PrimaryPollCore(s, m) = Answered(m, ContainerAlloc(s, m.chan, m.arg, "ACQUIRED"))
    BY Zenon DEF PrimaryPollCore
  <2> QED BY <1>1, <2>1, Zenon
<1>7. m.op = "CONTAINER_RELEASE" => Does(s, m, ContainerRelease(s, m.chan, m.arg))
  <2>1. m.op = "CONTAINER_RELEASE" =>
          PrimaryPollCore(s, m) = Answered(m, ContainerRelease(s, m.chan, m.arg))
    BY Zenon DEF PrimaryPollCore
  <2> QED BY <1>1, <2>1, Zenon
<1>8. m.op = "RESERVATION_ACQUIRE" => Does(s, m, ReservationAcquire(s, m.arg[1], m.arg[2]))
  <2>1. m.op = "RESERVATION_ACQUIRE" =>
          PrimaryPollCore(s, m) = Answered(m, ReservationAcquire(s, m.arg[1], m.arg[2]))
    BY Zenon DEF PrimaryPollCore
  <2> QED BY <1>1, <2>1, Zenon
<1>9. m.op = "RESERVATION_RELEASE" => Does(s, m, ReservationRelease(s, m.arg))
  <2>1. m.op = "RESERVATION_RELEASE" =>
          PrimaryPollCore(s, m) = Answered(m, ReservationRelease(s, m.arg))
    BY Zenon DEF PrimaryPollCore
  <2> QED BY <1>1, <2>1, Zenon
<1>10. m.op = "HEALTH_CHECK" => Does(s, m, [s |-> s, ret |-> 0])
  <2>1. m.op = "HEALTH_CHECK" =>
          PrimaryPollCore(s, m) = Answered(m, [s |-> s, ret |-> 0])
    BY Zenon DEF PrimaryPollCore
  <2> QED BY <1>1, <2>1, Zenon
<1>11. m.op = "SUPERBLOCK_COPY" => PrimaryPollCore(s, m).s = s
  <2> SUFFICES ASSUME m.op = "SUPERBLOCK_COPY" PROVE PrimaryPollCore(s, m).s = s
    BY Zenon
  <2>1. \E y : PrimaryPollCore(s, m) = [s |-> s, cpl |-> y]
    BY Zenon DEF PrimaryPollCore
  <2> QED BY <2>1
<1> QED
  BY <1>2, <1>3, <1>4, <1>5, <1>6, <1>7, <1>8, <1>9, <1>10, <1>11, Zenon DEF Polls

\* The opcodes.
LEMMA OpsAre ==
  Ops = {"APP_REGISTER", "APP_UNREGISTER", "SUPERBLOCK_COPY", "BUFFER_ALLOC",
         "BUFFER_FREE", "CONTAINER_ALLOC", "CONTAINER_RELEASE",
         "RESERVATION_ACQUIRE", "RESERVATION_RELEASE", "HEALTH_CHECK"}
  BY DEF Ops, Requested, Awaited

-----------------------------------------------------------------------------
(* The log of the container table.                                         *)

\* A table that has just been written is in the log.
LEMMA StoredLog ==
  ASSUME NEW s, NEW t, LogOK(s), LogFiles(s.clog), CpShape(t), Stored(s, t)
  PROVE  LogOK(t) /\ LogFiles(t.clog)
<1> DEFINE i == s.ccur
           g == s.cgen
           v == [gen |-> g, table |-> t.tab]
<1>1. i \in {0, 1} /\ g \in Nat \ {0} /\ DOMAIN s.clog = {0, 1}
  BY DEF LogOK, LogFiles, Logs
<1>2. t.cgen = g + 1 /\ t.ccur = 1 - i /\ t.clog = [s.clog EXCEPT ![i] = v]
  BY <1>1 DEF Stored
<1>3. v.gen = g /\ v.table = t.tab
  BY Zenon
<1> HIDE DEF v
<1>4. /\ DOMAIN t.clog = {0, 1} /\ t.clog[i] = v /\ 1 - t.ccur = i /\ t.cgen - 1 = g
      /\ t.ccur \in {0, 1} /\ t.cgen \in Nat \ {0}
      /\ \A l \in {0, 1} : l # i => t.clog[l] = s.clog[l]
  BY <1>1, <1>2
<1>5. LogOK(t)
  BY <1>3, <1>4 DEF LogOK, Logs
<1>6. Logs = {0, 1}
  BY DEF Logs
<1>7. LogFile(v)
  BY <1>1, <1>3, Zenon DEF LogFile, CpShape
<1>8. LogFiles(t.clog)
  BY <1>4, <1>6, <1>7, Zenon DEF LogFiles
<1> QED
  BY <1>5, <1>8

\* The log stays right while the owners stay.
LEMMA UnstoredLog ==
  ASSUME NEW s, NEW t, LogOK(s), LogFiles(s.clog), Unstored(s, t)
  PROVE  LogOK(t) /\ LogFiles(t.clog)
  BY Zenon DEF LogOK, Unstored

\* What the handlers leave, whatever they are asked for.
LogStep(s, t) ==
  \/ t.stop # "none"
  \/ CpShape(t) /\ (Stored(s, t) \/ Unstored(s, t))

\* A request that the control plane knows.
Known(m) ==
  /\ m.op \in Ops
  /\ m.op = "RESERVATION_ACQUIRE" => m.arg[1] \in Containers
  /\ m.op = "RESERVATION_RELEASE" => m.arg \in Containers

\* Only the status and the count of a container change.
LEMMA ReservationStep ==
  ASSUME NEW s, CpShape(s), NEW t, NEW c, NEW st, NEW ref, Reservation(s, t, c, st, ref)
  PROVE  LogStep(s, t)
<1>1. PICK tab : /\ tab = [s.tab EXCEPT ![c].status = st, ![c].ref = ref]
                 /\ Handled(s, t, tab, s.free, s.dirs)
  BY Zenon DEF Reservation
<1>2. /\ DOMAIN tab = Containers
      /\ \A d \in Containers : DOMAIN tab[d] = EntryFields /\ tab[d].owner = s.tab[d].owner
  BY <1>1, Zenon DEF CpShape, EntryFields
<1>3. DOMAIN t = CpFields /\ t.tab = tab
  BY <1>1, Zenon DEF Handled
<1>4. t.cgen = s.cgen /\ t.ccur = s.ccur /\ t.clog = s.clog
  BY Zenon DEF Reservation, Quiet
<1> QED
  BY <1>2, <1>3, <1>4, Zenon DEF LogStep, CpShape, Unstored

\* A handler that leaves the table and the log.
LEMMA QuietStep ==
  ASSUME NEW s, CpShape(s), NEW t, NEW free, NEW dirs,
         Handled(s, t, s.tab, free, dirs), Quiet(s, t)
  PROVE  LogStep(s, t)
  BY Zenon DEF LogStep, CpShape, Handled, Quiet, Unstored

\* A handler that writes an entry, and then the table.
LEMMA WrittenStep ==
  ASSUME NEW s, CpShape(s), NEW t, NEW c, NEW v, NEW free, NEW dirs, DOMAIN v = EntryFields,
         Handled(s, t, [s.tab EXCEPT ![c] = v], free, dirs), Stored(s, t)
  PROVE  LogStep(s, t)
<1>1. /\ DOMAIN [s.tab EXCEPT ![c] = v] = Containers
      /\ \A d \in Containers : DOMAIN [s.tab EXCEPT ![c] = v][d] = EntryFields
  BY Zenon DEF CpShape
<1> QED
  BY <1>1, Zenon DEF LogStep, CpShape, Handled

\* No request makes the owners and the log differ.
LEMMA PollStep ==
  ASSUME NEW s, CpShape(s), NEW m, Known(m)
  PROVE  LogStep(s, PrimaryPollCore(s, m).s)
<1> DEFINE t == PrimaryPollCore(s, m).s
<1>0. LogStep(s, s)
  BY Zenon DEF LogStep, Unstored
<1>a. Polls(s, m)
  BY PollHandlers, Zenon
<1>1. CASE m.op = "APP_REGISTER"
  <2> DEFINE r == AppManageTableAdd(s, m.chan, m.arg)
  <2>1. t = r.s
    BY <1>1, <1>a, Zenon DEF Polls, Does
  <2> HIDE DEF r, t
  <2>2. \/ \E free, dirs : Handled(s, t, s.tab, free, dirs) /\ Quiet(s, t)
        \/ t.stop # "none"
        \/ \E c, v, free, dirs :
             /\ v = [owner |-> m.chan, status |-> "UNLOCKED", ref |-> 0]
             /\ Handled(s, t, [s.tab EXCEPT ![c] = v], free, dirs)
             /\ Stored(s, t)
    <3>1. AddResult(s, t, m.chan, m.arg)
      BY <2>1, AddEffect, Zenon DEF r
    <3> QED BY <3>1, Zenon DEF AddResult
  <2>3. \A v : v = [owner |-> m.chan, status |-> "UNLOCKED", ref |-> 0]
                => DOMAIN v = EntryFields
    BY Zenon DEF EntryFields
  <2>4. ASSUME NEW free, NEW dirs, Handled(s, t, s.tab, free, dirs), Quiet(s, t)
        PROVE  LogStep(s, t)
    BY <2>4, QuietStep, Zenon
  <2>5. ASSUME NEW c, NEW v, NEW free, NEW dirs,
               v = [owner |-> m.chan, status |-> "UNLOCKED", ref |-> 0],
               Handled(s, t, [s.tab EXCEPT ![c] = v], free, dirs), Stored(s, t)
        PROVE  LogStep(s, t)
    BY <2>3, <2>5, WrittenStep, Zenon
  <2> QED BY <2>2, <2>4, <2>5, Zenon DEF LogStep, t
<1>2. CASE m.op = "APP_UNREGISTER"
  <2> DEFINE r == AppManageTableRemove(s, m.chan)
  <2>1. t = r.s
    BY <1>2, <1>a, Zenon DEF Polls, Does
  <2>2. CASE r = [s |-> s, ret |-> -1]
    <3>1. r.s = s
      BY <2>2
    <3> QED BY <1>0, <2>1, <3>1, Zenon
  <2>3. CASE r # [s |-> s, ret |-> -1]
    <3>1. PICK tab : /\ Unlocked(s.tab, tab, m.chan)
                     /\ Handled(s, t, tab, s.free, s.dirs) /\ Stored(s, t)
      BY <2>1, <2>3, RemoveEffect, Zenon
    <3>2. /\ DOMAIN tab = Containers
          /\ \A c \in Containers : DOMAIN tab[c] = EntryFields
      BY <3>1, Zenon DEF Unlocked, CpShape
    <3> QED BY <3>1, <3>2, Zenon DEF LogStep, CpShape, Handled
  <2> QED BY <2>2, <2>3, Zenon
<1>3. CASE m.op \in {"SUPERBLOCK_COPY", "HEALTH_CHECK"}
  <2>1. t = s
    BY <1>3, <1>a, Zenon DEF Polls, Does
  <2> QED BY <1>0, <2>1, Zenon
<1>4. CASE m.op \in {"BUFFER_ALLOC", "BUFFER_FREE"}
  <2>1. t = BufferAlloc(s, m.arg).s \/ t = BufferFree(s, m.arg).s
    BY <1>4, <1>a, Zenon DEF Polls, Does
  <2> QED BY <2>1, BufferEffect, QuietStep, Zenon
<1>5. CASE m.op = "CONTAINER_ALLOC"
  <2>1. \/ t = AllocNew(s, m.chan, "ACQUIRED").s
        \/ t = AllocAllocated(s, m.chan, "ACQUIRED").s
    BY <1>5, <1>a, Zenon DEF Polls, Does, ContainerAlloc
  <2>2. CASE t = AllocNew(s, m.chan, "ACQUIRED").s
    <3> DEFINE r == AllocNew(s, m.chan, "ACQUIRED")
    <3>1. CASE r = [s |-> s, ret |-> 0]
      <4>1. r.s = s
        BY <3>1
      <4> QED BY <1>0, <2>2, <4>1, Zenon
    <3>2. ASSUME NEW c, Given(s, r, 0, m.chan, "ACQUIRED", c) PROVE LogStep(s, t)
      <4>1. PICK v : /\ v = [owner |-> m.chan, status |-> "ACQUIRED", ref |-> 0]
                     /\ Handled(s, t, [s.tab EXCEPT ![c] = v], s.free - 1, s.dirs)
        BY <2>2, <3>2, Zenon DEF Given
      <4>2. DOMAIN v = EntryFields
        BY <4>1 DEF EntryFields
      <4>3. Stored(s, t)
        BY <2>2, <3>2, Zenon DEF Given
      <4> QED BY <4>1, <4>2, <4>3, WrittenStep, Zenon
    <3> QED BY <2>2, <3>1, <3>2, AllocNewEffect, Zenon DEF LogStep
  <2>3. CASE t = AllocAllocated(s, m.chan, "ACQUIRED").s
    <3> DEFINE r == AllocAllocated(s, m.chan, "ACQUIRED")
    <3>1. CASE r = [s |-> s, ret |-> 0]
      <4>1. r.s = s
        BY <3>1
      <4> QED BY <1>0, <2>3, <4>1, Zenon
    <3>2. CASE r # [s |-> s, ret |-> 0] /\ r.s.stop = "none"
      <4>1. PICK c, tab :
              /\ tab = [s.tab EXCEPT ![c].status = "ACQUIRED", ![c].ref = 0]
              /\ Handled(s, t, tab, s.free, s.dirs) /\ Stored(s, t)
        <5> HIDE DEF t
        <5> QED BY <2>3, <3>2, AllocAllocatedEffect, Zenon
      <4>2. /\ DOMAIN tab = Containers
            /\ \A d \in Containers : DOMAIN tab[d] = EntryFields
        BY <4>1, Zenon DEF CpShape
      <4> QED BY <4>1, <4>2, Zenon DEF LogStep, CpShape, Handled
    <3> QED BY <2>3, <3>1, <3>2, Zenon DEF LogStep
  <2> QED BY <2>1, <2>2, <2>3, Zenon
<1>6. CASE m.op = "CONTAINER_RELEASE"
  <2> DEFINE r == ContainerRelease(s, m.chan, m.arg)
  <2>1. t = r.s
    BY <1>6, <1>a, Zenon DEF Polls, Does
  <2>2. CASE r = [s |-> s, ret |-> -1]
    <3>1. r.s = s
      BY <2>2
    <3> QED BY <1>0, <2>1, <3>1, Zenon
  <2>3. DOMAIN FreeEntry = EntryFields
    BY Zenon DEF FreeEntry, EntryFields
  <2>4. CASE r # [s |-> s, ret |-> -1]
    <3>1. PICK c, x, v : c = m.arg /\ x = m.chan /\ v = FreeEntry
      BY Zenon
    <3>2. r = ContainerRelease(s, x, c)
      BY <3>1
    <3> HIDE DEF t, r
    <3>3. Handled(s, t, [s.tab EXCEPT ![c] = v], s.free + 1, s.dirs) /\ Stored(s, t)
      BY <2>1, <2>4, <3>1, <3>2, ReleaseEffect, Zenon
    <3>4. LogStep(s, t)
      BY <2>3, <3>1, <3>3, WrittenStep, Zenon
    <3> QED BY <3>4, Zenon DEF t
  <2> QED BY <2>2, <2>4, Zenon
<1>7. CASE m.op = "RESERVATION_ACQUIRE"
  <2> DEFINE r == ReservationAcquire(s, m.arg[1], m.arg[2])
  <2>1. t = r.s /\ m.arg[1] \in Containers
    BY <1>7, <1>a, Zenon DEF Polls, Does, Known
  <2>2. CASE r = [s |-> s, ret |-> -1]
    <3>1. r.s = s
      BY <2>2
    <3> QED BY <1>0, <2>1, <3>1, Zenon
  <2>3. CASE r # [s |-> s, ret |-> -1]
    <3>1. PICK st : Reservation(s, r.s, m.arg[1], st, s.tab[m.arg[1]].ref + 1)
      BY <2>1, <2>3, AcquireEffect, Zenon
    <3> HIDE DEF t, r
    <3>2. LogStep(s, t)
      BY <2>1, <3>1, ReservationStep, Zenon
    <3> QED BY <3>2, Zenon DEF t
  <2> QED BY <2>2, <2>3, Zenon
<1>8. CASE m.op = "RESERVATION_RELEASE"
  <2>1. t = ReservationRelease(s, m.arg).s /\ m.arg \in Containers
    BY <1>8, <1>a, Zenon DEF Polls, Does, Known
  <2> QED BY <1>0, <2>1, UnreserveEffect, ReservationStep, Zenon DEF LogStep
<1> QED
  BY <1>1, <1>2, <1>3, <1>4, <1>5, <1>6, <1>7, <1>8, OpsAre, Zenon DEF Known

\* At most one request is sent.
Sends(op, arg) ==
  \/ recv' = recv
  \/ \E m : recv' = Append(recv, m) /\ m.op = op /\ m.arg = arg

\* A request, or the panic for want of a message.
LEMMA RequestSends ==
  ASSUME NEW p, NEW q, NEW free, NEW op, NEW arg, Request(p, q, free, op, arg)
  PROVE  Sends(op, arg)
<1>1. \/ recv' = recv
      \/ recv' = Append(recv, [op |-> op, chan |-> q.chan, arg |-> arg])
  BY Zenon DEF Request
<1>2. ASSUME NEW m, m = [op |-> op, chan |-> q.chan, arg |-> arg]
      PROVE  m.op = op /\ m.arg = arg
  BY <1>2
<1> QED
  BY <1>1, <1>2, Zenon DEF Sends

\* The requests whose argument is not asked for.
Plainly == Ops \ {"RESERVATION_ACQUIRE", "RESERVATION_RELEASE"}

\* Every request a process sends is one the control plane knows.
LEMMA ProcessSends ==
  ASSUME NEW p \in Procs, Process(p)
  PROVE  recv' = recv \/ \E m : recv' = Append(recv, m) /\ Known(m)
<1>0. /\ "BUFFER_ALLOC" \in Plainly /\ "APP_REGISTER" \in Plainly
      /\ "SUPERBLOCK_COPY" \in Plainly /\ "CONTAINER_ALLOC" \in Plainly
      /\ "HEALTH_CHECK" \in Plainly /\ "CONTAINER_RELEASE" \in Plainly
      /\ "BUFFER_FREE" \in Plainly /\ "APP_UNREGISTER" \in Plainly
      /\ "RESERVATION_ACQUIRE" \in Ops /\ "RESERVATION_RELEASE" \in Ops
  BY OpsAre DEF Plainly
<1>1. ASSUME \E op \in Plainly : \E arg : Sends(op, arg)
      PROVE  recv' = recv \/ \E m : recv' = Append(recv, m) /\ Known(m)
  BY <1>1, Zenon DEF Sends, Known, Plainly
<1>2. CASE recv' = recv
  BY <1>2, Zenon
<1>3. CASE MountBuffers(p) \/ MountRegistered(p) \/ MountCopied(p)
  BY <1>0, <1>1, <1>2, <1>3, RequestSends, Zenon
  DEF MountBuffers, MountRegistered, MountCopied, NoRequest
<1>4. CASE MountFetched(p) \/ MountPreallocated(p)
  BY <1>0, <1>1, <1>2, <1>4, RequestSends, Zenon
  DEF MountFetched, MountPreallocated, MountNext
<1>5. CASE \/ MountChecked(p) \/ GotContainer(p) \/ GotBuffer(p) \/ RemovedBg(p)
           \/ Reserved(p) \/ Unreserved(p) \/ UmountDone(p) \/ IpcInit(p)
           \/ IpcExit(p) \/ Crash(p)
  BY <1>2, <1>5, Zenon
  DEF MountChecked, GotContainer, GotBuffer, RemovedBg, Reserved, Unreserved,
      UmountDone, IpcInit, IpcExit, Crash, NoRequest
<1>6. CASE UmountFreed(p) \/ Mount(p) \/ NeedContainer(p) \/ NeedBuffer(p) \/ Umount(p)
  BY <1>0, <1>1, <1>2, <1>6, RequestSends, Zenon
  DEF UmountFreed, Mount, NeedContainer, NeedBuffer, Umount, NoRequest
<1>7. CASE \E c \in Containers : RemoveBg(p, c)
  BY <1>0, <1>1, <1>7, RequestSends, Zenon DEF RemoveBg
<1>8. ASSUME NEW c \in Containers, Unreserve(p, c)
      PROVE  recv' = recv \/ \E m : recv' = Append(recv, m) /\ Known(m)
  <2>1. Sends("RESERVATION_RELEASE", c)
    BY <1>8, RequestSends, Zenon DEF Unreserve
  <2> QED BY <1>0, <1>8, <2>1, Zenon DEF Sends, Known
<1>9. ASSUME NEW c \in Containers, NEW type, Reserve(p, c, type)
      PROVE  recv' = recv \/ \E m : recv' = Append(recv, m) /\ Known(m)
  <2>1. Sends("RESERVATION_ACQUIRE", <<c, type>>)
    BY <1>9, RequestSends, Zenon DEF Reserve
  <2>2. <<c, type>>[1] = c
    BY Zenon
  <2> QED BY <1>0, <1>9, <2>1, <2>2, Zenon DEF Sends, Known
<1> QED
  BY <1>3, <1>4, <1>5, <1>6, <1>7, <1>8, <1>9, Zenon DEF Process, Receive

\* The files of the control plane outlive its process; a primary process runs
\* with a log that has the owners of its table.
LogInv ==
  /\ IsSequence(recv) /\ \A i \in 1..Len(recv) : Known(recv[i])
  /\ primary \in {"off", "running"} => DOMAIN cp = CpFields /\ LogFiles(cp.clog)
  /\ primary = "running" => CpShape(cp) /\ LogOK(cp)

\* What a first start of the primary process makes of a fresh file system.
Fresh(s) ==
  /\ DOMAIN s = CpFields
  /\ s.tab = [c \in Containers |-> IF c = 0 THEN [FreeEntry EXCEPT !.owner = ControlOwner]
                                   ELSE FreeEntry]
  /\ s.free = NrContainers - 1
  /\ s.last = 0
  /\ s.cgen = 1 /\ s.ccur = 0
  /\ s.clog = [l \in Logs |-> NoLog]
  /\ s.dirs = <<>>
  /\ s.stop = "none"

\* There is nothing to load.
LEMMA FirstStart ==
  Fresh(ControlPlaneInit([Formatted EXCEPT !.state = "MOUNTED"]))
<1> DEFINE a == [Formatted EXCEPT !.state = "MOUNTED"]
           b == AppManageTableInit(a)
           d == BufferInit(b)
           e == ContainerTableInit(d)
<1>1. /\ DOMAIN a = CpFields /\ a.clog = [l \in Logs |-> NoLog]
      /\ a.alog = [l \in Logs |-> NoLog] /\ a.dirs = <<>> /\ a.stop = "none"
  BY Zenon DEF Formatted, CpFields
<1> HIDE DEF a
<1>2. /\ DOMAIN b = CpFields /\ b.clog = a.clog /\ b.alog = a.alog /\ b.dirs = a.dirs
      /\ b.stop = a.stop
  BY <1>1 DEF AppManageTableInit, CpFields
<1> HIDE DEF b
<1>3. /\ DOMAIN d = CpFields /\ d.clog = a.clog /\ d.alog = a.alog /\ d.dirs = a.dirs
      /\ d.stop = a.stop
  BY <1>2 DEF BufferInit, CpFields
<1> HIDE DEF d
<1>4. /\ DOMAIN e = CpFields /\ e.clog = a.clog /\ e.alog = a.alog /\ e.dirs = a.dirs
      /\ e.stop = a.stop
      /\ e.tab = [c \in Containers |-> IF c = 0 THEN [FreeEntry EXCEPT !.owner = ControlOwner]
                                       ELSE FreeEntry]
      /\ e.free = NrContainers - 1 /\ e.last = 0 /\ e.cgen = 1 /\ e.ccur = 0
  BY <1>3 DEF ContainerTableInit, CpFields
<1> HIDE DEF e
<1>5. LatestLogFile([l \in Logs |-> NoLog]) = 0
  BY Zenon DEF LatestLogFile, NoLog
<1>6. LoadAppTable(e) = e /\ LoadContainerTable(e) = e
  BY <1>1, <1>4, <1>5, Zenon DEF LoadAppTable, LoadContainerTable
<1>7. ControlPlaneInit([Formatted EXCEPT !.state = "MOUNTED"]) = e
  BY <1>6, Zenon DEF ControlPlaneInit, a, b, d, e
<1> QED
  BY <1>1, <1>4, <1>7, Zenon DEF Fresh

\* What mkfs leaves.
LEMMA FormattedLog == DOMAIN Formatted = CpFields /\ LogFiles(Formatted.clog)
<1>1. /\ DOMAIN Formatted = CpFields /\ Formatted.clog = [l \in Logs |-> NoLog]
  BY Zenon DEF Formatted, CpFields
<1>2. NoLog.gen = 0 /\ 0 \in Nat
  BY DEF NoLog
<1> QED
  BY <1>1, <1>2, Zenon DEF LogFiles, LogFile

\* The latest log is one of the two, and it is numbered 0 if both are empty.
LEMMA LatestLog ==
  ASSUME NEW s, LogFiles(s.clog)
  PROVE  LET l == LatestLogFile(s.clog)
         IN  l \in {0, 1} /\ (l # 0 => s.clog[l].gen # 0)
<1> DEFINE Latest(l) == /\ \A k \in Logs : s.clog[k].gen <= s.clog[l].gen
                        /\ \A k \in Logs : k < l => s.clog[k].gen < s.clog[l].gen
           l == LatestLogFile(s.clog)
<1>1. Logs = {0, 1} /\ s.clog[0].gen \in Nat /\ s.clog[1].gen \in Nat
  BY DEF LogFiles, LogFile, Logs
<1>2. CASE \A k \in Logs : s.clog[k].gen = 0
  <2>1. l = 0
    BY <1>2, Zenon DEF LatestLogFile
  <2> QED BY <2>1
<1>3. CASE ~ \A k \in Logs : s.clog[k].gen = 0
  <2>1. \E k \in Logs : Latest(k)
    BY <1>1
  <2>2. l = CHOOSE k \in Logs : Latest(k)
    BY <1>3, Zenon DEF LatestLogFile
  <2>3. l \in Logs /\ Latest(l)
    BY <2>1, <2>2, Zenon
  <2> HIDE DEF l
  <2>4. l \in {0, 1} /\ (l # 0 => s.clog[l].gen # 0)
    BY <1>1, <2>3
  <2> QED BY <2>4 DEF l
<1> QED
  BY <1>2, <1>3

\* A start, on whatever log files there are: either a log is read, and the
\* next one is written to the other file, or none is and the count begins anew.
LEMMA StartLog ==
  ASSUME DOMAIN cp = CpFields, LogFiles(cp.clog)
  PROVE  LET s == ControlPlaneInit([cp EXCEPT !.state = "MOUNTED"])
         IN  CpShape(s) /\ LogOK(s) /\ LogFiles(s.clog)
<1> DEFINE a == [cp EXCEPT !.state = "MOUNTED"]
           b == AppManageTableInit(a)
           d == BufferInit(b)
           e == ContainerTableInit(d)
           f == LoadAppTable(e)
           s == LoadContainerTable(f)
           l == LatestLogFile(f.clog)
<1>1. DOMAIN a = CpFields /\ a.clog = cp.clog
  BY Zenon DEF CpFields
<1> HIDE DEF a
<1>2. DOMAIN b = CpFields /\ b.clog = cp.clog
  BY <1>1 DEF AppManageTableInit, CpFields
<1> HIDE DEF b
<1>3. DOMAIN d = CpFields /\ d.clog = cp.clog
  BY <1>2 DEF BufferInit, CpFields
<1> HIDE DEF d
<1>4. /\ DOMAIN e = CpFields /\ e.clog = cp.clog /\ e.cgen = 1 /\ e.ccur = 0
      /\ e.tab = [c \in Containers |-> IF c = 0 THEN [FreeEntry EXCEPT !.owner = ControlOwner]
                                       ELSE FreeEntry]
  BY <1>3 DEF ContainerTableInit, CpFields
<1> HIDE DEF e
<1>5. f = e \/ \E x, y : f = [e EXCEPT !.app = x, !.agen = y]
  BY Zenon DEF LoadAppTable
<1> HIDE DEF f
<1>6. /\ DOMAIN f = CpFields /\ f.clog = cp.clog /\ f.cgen = 1 /\ f.ccur = 0 /\ f.tab = e.tab
  <2>1. CASE f = e
    BY <1>4, <2>1, Zenon
  <2>2. ASSUME NEW x, NEW y, f = [e EXCEPT !.app = x, !.agen = y]
        PROVE  /\ DOMAIN f = CpFields /\ f.clog = cp.clog /\ f.cgen = 1 /\ f.ccur = 0
               /\ f.tab = e.tab
    <3>1. /\ DOMAIN f = DOMAIN e /\ f.clog = e.clog /\ f.cgen = e.cgen /\ f.ccur = e.ccur
          /\ f.tab = e.tab
      BY <1>4, <2>2 DEF CpFields
    <3> QED BY <1>4, <3>1, Zenon
  <2> QED BY <1>5, <2>1, <2>2, Zenon
<1>7. LogFiles(f.clog)
  BY <1>6, Zenon
<1>8. l \in {0, 1} /\ (l # 0 => f.clog[l].gen # 0)
  BY <1>7, LatestLog, Zenon
<1>9. CASE l = 0
  <2>1. s = f
    BY <1>9, Zenon DEF LoadContainerTable
  <2>2. \A v \in {FreeEntry, [FreeEntry EXCEPT !.owner = ControlOwner]} : DOMAIN v = EntryFields
    BY Zenon DEF FreeEntry, EntryFields
  <2>3. /\ DOMAIN f.tab = Containers
        /\ \A c \in Containers : f.tab[c] \in {FreeEntry, [FreeEntry EXCEPT !.owner = ControlOwner]}
    BY <1>4, <1>6, Zenon
  <2>4. CpShape(f)
    BY <1>6, <2>2, <2>3, Zenon DEF CpShape
  <2>5. LogOK(f)
    BY <1>6 DEF LogOK, Logs
  <2> QED BY <1>7, <2>1, <2>4, <2>5, Zenon DEF ControlPlaneInit, a, b, d, e, f
<1>10. CASE l # 0
  <2>1. s = [f EXCEPT !.tab = f.clog[l].table, !.cgen = f.clog[l].gen + 1] /\ l = 1
    BY <1>8, <1>10, Zenon DEF LoadContainerTable
  <2> HIDE DEF s, l
  <2>2. /\ DOMAIN s = CpFields /\ s.tab = f.clog[1].table /\ s.cgen = f.clog[1].gen + 1
        /\ s.clog = f.clog /\ s.ccur = 0
    BY <1>6, <2>1 DEF CpFields
  <2>3. /\ 1 \in Logs /\ f.clog[1].gen \in Nat \ {0}
        /\ DOMAIN s.tab = Containers /\ \A c \in Containers : DOMAIN s.tab[c] = EntryFields
    <3>1. 1 \in Logs
      BY DEF Logs
    <3>2. f.clog[1].gen # 0
      BY <1>8, <2>1
    <3>3. LogFile(f.clog[1])
      BY <1>7, <3>1, Zenon DEF LogFiles
    <3>4. f.clog[1].gen \in Nat \ {0}
      BY <3>2, <3>3 DEF LogFile
    <3>5. /\ DOMAIN f.clog[1].table = Containers
          /\ \A c \in Containers : DOMAIN f.clog[1].table[c] = EntryFields
      BY <3>2, <3>3, Zenon DEF LogFile
    <3> QED BY <2>2, <3>1, <3>4, <3>5
  <2>4. CpShape(s) /\ LogFiles(s.clog)
    BY <1>7, <2>2, <2>3, Zenon DEF CpShape
  <2>5. LogOK(s)
    BY <2>2, <2>3 DEF LogOK, Logs
  <2> QED BY <2>4, <2>5, Zenon DEF ControlPlaneInit, a, b, d, e, f, s
<1> QED
  BY <1>9, <1>10

\* The files that a process that has ended or crashed leaves.
LEMMA UnloadedLog ==
  ASSUME NEW s, LogFiles(s.clog)
  PROVE  DOMAIN Unloaded(s) = CpFields /\ LogFiles(Unloaded(s).clog)
<1>1. DOMAIN Unloaded(s) = CpFields /\ Unloaded(s).clog = s.clog
  BY FormattedLog DEF Unloaded, CpFields
<1> QED
  BY <1>1, Zenon

\* The end of the control plane writes both tables.
LEMMA ExitLog ==
  ASSUME CpShape(cp), LogOK(cp), LogFiles(cp.clog)
  PROVE  LogFiles(ControlPlaneExit(cp).clog)
<1> DEFINE s == StoreContainerTable(cp)
           t == StoreAppTable(s)
<1>1. DOMAIN s = CpFields /\ s.tab = cp.tab /\ Stored(cp, s)
  BY DEF StoreContainerTable, Stored, CpShape, CpFields
<1>2. CpShape(s)
  BY <1>1, Zenon DEF CpShape
<1>3. LogFiles(s.clog)
  BY <1>1, <1>2, StoredLog, Zenon
<1> HIDE DEF s
<1>4. t.clog = s.clog
  BY <1>1 DEF StoreAppTable, CpFields
<1>5. LogFiles(t.clog)
  BY <1>3, <1>4, Zenon
<1> QED
  BY <1>5, Zenon DEF ControlPlaneExit, s, t

\* A start on what mkfs has left.
LEMMA StartFresh ==
  ASSUME Plain("restart"), PrimaryStart, primary' = "running",
         ondisk \in {"FORMATTED", "MOUNTED", "UMOUNTED", "CRASHED"},
         primary = "off" /\ ondisk = "FORMATTED" => cp = Formatted
  PROVE  Fresh(cp') /\ ondisk' = "MOUNTED" /\ ondisk = "FORMATTED"
<1>1. primary = "off" /\ ondisk = "FORMATTED"
  BY Zenon DEF PrimaryStart, PrimaryMount
<1>2. ondisk' = "MOUNTED" /\ cp' = ControlPlaneInit([cp EXCEPT !.state = "MOUNTED"])
  BY Zenon DEF PrimaryStart
<1> QED
  BY <1>1, <1>2, FirstStart, Zenon

\* Every step keeps the log right.
LEMMA NextLog ==
  ASSUME LogInv, [Next]_vars
  PROVE  LogInv'
<1>0. ASSUME recv' = <<>>
      PROVE  IsSequence(recv') /\ \A i \in 1..Len(recv') : Known(recv'[i])
  <2>1. recv' \in Seq({}) /\ 1..Len(recv') = {}
    BY <1>0
  <2> QED BY <2>1, Zenon DEF IsSequence
<1>1. CASE UNCHANGED <<cp, primary, recv>>
  BY <1>1, Zenon DEF LogInv
<1>2. CASE NvfuseFormat
  <2>1. cp' = Formatted /\ primary' = primary /\ recv' = recv /\ primary = "off"
    BY <1>2, Zenon DEF NvfuseFormat
  <2>2. DOMAIN cp' = CpFields /\ LogFiles(cp'.clog)
    BY <2>1, FormattedLog, Zenon
  <2> QED BY <2>1, <2>2, Zenon DEF LogInv
<1>3. CASE MountRefused
  BY <1>1, <1>3, Zenon DEF MountRefused
<1>4. CASE PrimaryStart
  <2>1. CASE primary' = "running"
    <3>1. primary = "off" /\ cp' = ControlPlaneInit([cp EXCEPT !.state = "MOUNTED"]) /\ recv' = <<>>
      BY <1>4, <2>1, Zenon DEF PrimaryStart, NvfuseIpcInit
    <3>2. CpShape(cp') /\ LogOK(cp') /\ LogFiles(cp'.clog)
      BY <3>1, StartLog, Zenon DEF LogInv
    <3> QED BY <1>0, <2>1, <3>1, <3>2, Zenon DEF LogInv, CpShape
  <2>2. CASE primary' # "running"
    <3>1. primary' = "stopped" /\ recv' = recv
      BY <1>4, <2>2, Zenon DEF PrimaryStart
    <3> QED BY <3>1, Zenon DEF LogInv
  <2> QED BY <2>1, <2>2, Zenon
<1>5. CASE PrimaryStop \/ PrimaryCrash
  <2>1. /\ primary = "running" /\ primary' = "off" /\ recv' = <<>>
        /\ cp' = Unloaded(cp) \/ cp' = Unloaded(ControlPlaneExit(cp))
    BY <1>5, Zenon DEF PrimaryStop, PrimaryCrash, RingsGone
  <2>2. DOMAIN cp' = CpFields /\ LogFiles(cp'.clog)
    BY <2>1, ExitLog, UnloadedLog, Zenon DEF LogInv
  <2> QED BY <1>0, <2>1, <2>2, Zenon DEF LogInv
<1>6. CASE PrimaryPoll
  <2> DEFINE m == Head(recv)
             t == PrimaryPollCore(cp, m).s
  <2>1. primary = "running" /\ recv # <<>> /\ cp' = t /\ recv' = Tail(recv)
    BY <1>6, Zenon DEF PrimaryPoll
  <2>2. /\ IsSequence(Tail(recv)) /\ Len(recv) \in Nat \ {0}
        /\ Len(Tail(recv)) = Len(recv) - 1
        /\ \A i \in 1..Len(Tail(recv)) : Tail(recv)[i] = recv[i + 1]
        /\ m = recv[1]
    BY <2>1, TailEffect, Zenon DEF LogInv
  <2>3. 1 \in 1..Len(recv) /\ \A i \in 1..Len(Tail(recv)) : i + 1 \in 1..Len(recv)
    BY <2>2
  <2>4. Known(m) /\ \A i \in 1..Len(Tail(recv)) : Known(Tail(recv)[i])
    BY <2>2, <2>3, Zenon DEF LogInv
  <2>5. LogStep(cp, t)
    BY <2>1, <2>4, PollStep, Zenon DEF LogInv
  <2>6. t.stop # "none" => primary' = "stopped"
    BY <1>6, Zenon DEF PrimaryPoll
  <2>7. t.stop = "none" => primary' = primary
    BY <1>6, Zenon DEF PrimaryPoll
  <2> HIDE DEF m, t
  <2>8. CASE t.stop # "none"
    BY <2>1, <2>2, <2>4, <2>6, <2>8, Zenon DEF LogInv
  <2>9. CASE t.stop = "none"
    <3>1. CpShape(t) /\ LogOK(t) /\ LogFiles(t.clog)
      BY <2>1, <2>5, <2>9, StoredLog, UnstoredLog, Zenon DEF LogInv, LogStep
    <3> QED BY <2>1, <2>2, <2>4, <2>7, <2>9, <3>1, Zenon DEF LogInv, CpShape
  <2> QED BY <2>8, <2>9, Zenon
<1>7. ASSUME NEW p \in Procs, Process(p)
      PROVE  LogInv'
  <2>1. cp' = cp /\ primary' = primary
    BY <1>7, ProcessOutside, Zenon DEF world
  <2>2. CASE recv' = recv
    BY <1>1, <2>1, <2>2, Zenon
  <2>3. ASSUME NEW m, recv' = Append(recv, m), Known(m)
        PROVE  LogInv'
    <3>1. /\ IsSequence(recv')
          /\ \A i \in 1..Len(recv') : \/ i \in 1..Len(recv) /\ recv'[i] = recv[i]
                                      \/ recv'[i] = m
      BY <2>3, AppendEffect, Zenon DEF LogInv
    <3> QED BY <2>1, <2>3, <3>1, Zenon DEF LogInv
  <2> QED BY <1>7, <2>2, <2>3, ProcessSends, Zenon
<1> QED
  BY <1>1, <1>2, <1>3, <1>4, <1>5, <1>6, <1>7, Zenon DEF Next, vars

\* Whatever the processes ask for, in whatever order they start, crash and end,
\* and however often the primary process is stopped, killed and started on the
\* files it left: every change of an owner is in the log before the next
\* request is looked at, and what a start reads from the log is in the table.
THEOREM OwnersAreLogged == Spec => []LogHoldsOwners
<1>1. Init => LogInv
  <2> SUFFICES ASSUME Init PROVE LogInv
    BY Zenon
  <2>1. recv \in Seq({}) /\ 1..Len(recv) = {}
    BY DEF Init
  <2>2. cp = Formatted /\ primary = "off"
    BY Zenon DEF Init
  <2> QED BY <2>1, <2>2, FormattedLog, Zenon DEF LogInv, IsSequence
<1>2. LogInv /\ [Next]_vars => LogInv'
  BY NextLog, Zenon
<1>3. LogInv => LogHoldsOwners
  BY Zenon DEF LogInv, LogOK, LogHoldsOwners
<1> QED
  BY <1>1, <1>2, <1>3, PTL DEF Spec

=============================================================================
