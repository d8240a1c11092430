----------------------------- MODULE InodeCache -----------------------------
(***************************************************************************)
(* The cache of inode contexts (nvfuse_inode_cache.c) and the calls of     *)
(* nvfuse_core.c and nvfuse_api.c that get, create, release and delete     *)
(* inodes through it.  ictxc_lock protects the lists and the hash; the     *)
(* lock of a context is held from the get of its inode to the release, and *)
(* is what keeps two threads from working on one inode.                    *)
(*                                                                         *)
(* A deleted inode leaves its context in the hash.  When its number is     *)
(* allocated again a second context with that number joins the first, and  *)
(* the order of the bucket alone decides which one a get finds.            *)
(*                                                                         *)
(* A step ends where the code takes a lock it may have to wait for or      *)
(* drops one.  nvfuse_insert_ictx is called without ictxc_lock when an     *)
(* inode is created: its hlist_add_head is two steps, around the point     *)
(* where another thread may change the bucket.                             *)
(*                                                                         *)
(* Data abstractions: all inode numbers fall into one bucket, kept with    *)
(* its pointers; the bucket of the unused contexts is left out; the lists  *)
(* are sequences, their head first.                                        *)
(***************************************************************************)
EXTENDS Integers, FiniteSets, SequencesExt

CONSTANTS
  Threads,   \* the application threads that share one nvfuse handle
  Ictxs,     \* the NVFUSE_ICTXC_SIZE contexts
  Inos,      \* inode numbers
  Root,      \* ROOT_INO, which mkfs allocates and nothing deletes
  MaxHeld,   \* bound: the inodes a thread holds at a time
  Nobody, NoIno, Null, Poison, First

ASSUME InodeConstants ==
  /\ Root \in Inos
  /\ MaxHeld \in Nat \ {0}

VARIABLES
  ictxc_lock,  \* the owner of ictxc->ictxc_lock
  lists,       \* ictxc->ictxc_list
  first,       \* the head of the hash bucket
  ictx,        \* struct nvfuse_inode_ctx of every context
  ibitmap,     \* the inode bitmap: numbers in use
  itable,      \* the numbers whose inode on disk has i_ino set
  named,       \* the numbers a directory entry names
  pc,          \* where each thread is
  cur,         \* the context the call in progress works on
  ino,         \* the number a get looks for, or a delete will free
  held         \* the contexts each thread has read and not released

disk == <<ibitmap, itable, named>>
vars == <<ictxc_lock, lists, first, ictx, ibitmap, itable, named, pc, cur,
          ino, held>>

\* The lists that are used: nothing is ever put on the dirty list.
Types == {"unused", "ref", "clean"}

Pcs == {"idle", "scan", "lock", "read", "alloc", "insert", "inserting",
        "rel_move", "rel_unlock", "free_ino", "assert", "sleep"}

\* struct nvfuse_inode_ctx; a context being created is on no list.
IctxType == [ino : Inos \cup {NoIno}, type : Types \cup {"none"},
             ref : {0, 1}, lock : Threads \cup {Nobody},
             next : Ictxs \cup {Null, Poison},
             pprev : Ictxs \cup {First, Null, Poison}]

TypeOK ==
  /\ ictxc_lock \in Threads \cup {Nobody}
  /\ \A type \in Types : lists[type] \in Seq(Ictxs)
  /\ first \in Ictxs \cup {Null}
  /\ ictx \in [Ictxs -> IctxType]
  /\ ibitmap \subseteq Inos /\ itable \subseteq Inos /\ named \subseteq Inos
  /\ pc \in [Threads -> Pcs]
  /\ cur \in [Threads -> Ictxs \cup {Null}]
  /\ ino \in [Threads -> Inos \cup {NoIno}]
  /\ held \in [Threads -> SUBSET Ictxs]

\* nvfuse_init_ictx_cache: every context is unused.
Init ==
  /\ ictxc_lock = Nobody
  /\ \E s \in SetToSeqs(Ictxs) :
       lists = [type \in Types |-> IF type = "unused" THEN s ELSE <<>>]
  /\ first = Null
  /\ ictx = [i \in Ictxs |-> [ino |-> NoIno, type |-> "unused", ref |-> 0,
                              lock |-> Nobody, next |-> Null, pprev |-> Null]]
  /\ ibitmap = {Root} /\ itable = {Root} /\ named = {Root}
  /\ pc = [t \in Threads |-> "idle"]
  /\ cur = [t \in Threads |-> Null]
  /\ ino = [t \in Threads |-> NoIno]
  /\ held = [t \in Threads |-> {}]

Goto(t, point) == pc' = [pc EXCEPT ![t] = point]

Return(t) ==
  /\ Goto(t, "idle")
  /\ cur' = [cur EXCEPT ![t] = Null]
  /\ ino' = [ino EXCEPT ![t] = NoIno]

-----------------------------------------------------------------------------
(* The hash bucket and the lists.  A bucket is a pair of its first node and *)
(* the contexts its nodes are part of.                                      *)

\* The nth context of the bucket, from 0.
Nth[n \in 0 .. Cardinality(Ictxs)] ==
  IF n = 0 THEN first
  ELSE IF Nth[n - 1] \in Ictxs THEN ictx[Nth[n - 1]].next ELSE Null

Cyclic == Nth[Cardinality(Ictxs)] \in Ictxs

\* nvfuse_ictx_hash_lookup: the first context with the number.
HashLookup(i) ==
  LET at == {n \in DOMAIN Nth : Nth[n] \in Ictxs /\ ictx[Nth[n]].ino = i} IN
  IF at = {} THEN Null ELSE Nth[Min(at)]

\* hlist_add_head, up to and after the store to the head.
HlistLink(c, h, n) ==
  [i \in Ictxs |-> IF i = n THEN [c[n] EXCEPT !.next = h]
                   ELSE IF i = h THEN [c[h] EXCEPT !.pprev = n] ELSE c[i]]
HlistAddHead(c, h, n) ==
  [HlistLink(c, h, n) EXCEPT ![n].pprev = First]

\* hlist_del: the store through pprev, which may be the head.
HlistDelHead(c, h, n) == IF c[n].pprev = First THEN c[n].next ELSE h
HlistDel(c, n) ==
  [i \in Ictxs |->
     IF i = n THEN [c[n] EXCEPT !.next = Poison, !.pprev = Poison]
     ELSE [c[i] EXCEPT !.next = IF c[n].pprev = i THEN c[n].next ELSE @,
                       !.pprev = IF c[n].next = i THEN c[n].pprev ELSE @]]

\* list_add of a context to one list, after list_del from its own.
ListMove(i, type) ==
  LET off == [l \in Types |-> SelectSeq(lists[l], LAMBDA j : j # i)]
  IN [off EXCEPT ![type] = <<i>> \o @]

\* nvfuse_init_ictx.
InitIctx(c, i, n) ==
  [c EXCEPT ![i] = [@ EXCEPT !.ino = n, !.ref = 0, !.lock = Nobody,
                             !.type = "none"]]

-----------------------------------------------------------------------------
(* Getting an inode: nvfuse_read_inode and nvfuse_get_ictx.                 *)

\* nvfuse_replace_ictx picks the list of the victim and scans it from its
\* tail.  With no unused and no clean context it flushes the buffer cache,
\* which makes no context clean, and fails its assertion.
Replace(t) ==
  LET from == IF lists["unused"] # <<>> THEN "unused" ELSE "clean" IN
  IF lists[from] = <<>>
  THEN Goto(t, "assert") /\ UNCHANGED cur
  ELSE Goto(t, "scan") /\ cur' = [cur EXCEPT ![t] = Last(lists[from])]

\* nvfuse_get_ictx up to the lock of the context; ictxc_lock stays taken.
\* The caller has the number from a directory entry.  The lookup of a number
\* that is not in a bucket whose pointers form a cycle never ends.
Get(t, i) ==
  LET c == HashLookup(i) IN
  /\ pc[t] = "idle"
  /\ ictxc_lock = Nobody
  /\ i \in named
  /\ Cardinality(held[t]) < MaxHeld
  /\ \A h \in held[t] : ictx[h].ino # i
  /\ ictxc_lock' = t
  /\ ino' = [ino EXCEPT ![t] = i]
  /\ \/ /\ c # Null
        /\ lists' = ListMove(c, ictx[c].type)
        /\ cur' = [cur EXCEPT ![t] = c]
        /\ Goto(t, "lock")
     \/ /\ c = Null
        /\ IF Cyclic THEN Goto(t, "sleep") /\ UNCHANGED cur ELSE Replace(t)
        /\ UNCHANGED lists
  /\ UNCHANGED <<first, ictx, disk, held>>

\* The victim leaves its list and the hash, and is initialised: for a get
\* with the number looked for, under ictxc_lock, and inserted at once; for
\* nvfuse_alloc_ictx without a number, after ictxc_lock is dropped, when no
\* other thread can reach it.  The creator then locks it.
TakeVictim(t) ==
  LET v == cur[t]
      used == ictx[v].type # "unused"
      h == IF used THEN HlistDelHead(ictx, first, v) ELSE first
      c == InitIctx(IF used THEN HlistDel(ictx, v) ELSE ictx, v, ino[t])
  IN
  IF ino[t] # NoIno
  THEN /\ lists' = ListMove(v, "ref")
       /\ first' = v
       /\ ictx' = [HlistAddHead(c, h, v) EXCEPT ![v].type = "ref"]
       /\ Goto(t, "lock")
       /\ UNCHANGED ictxc_lock
  ELSE /\ lists' = [l \in Types |-> SelectSeq(lists[l], LAMBDA j : j # v)]
       /\ first' = h
       /\ ictx' = [c EXCEPT ![v].lock = t]
       /\ Goto(t, "alloc")
       /\ ictxc_lock' = Nobody

\* Variant: the scan takes a context whatever its reference count.
ScanUnchecked(t) ==
  /\ pc[t] = "scan"
  /\ TakeVictim(t)
  /\ UNCHANGED <<disk, cur, ino, held>>

\* One round of the scan: it waits for the lock of the context.  A context in
\* use is passed over; past the head of the list it sleeps for ever.
Scan(t) ==
  LET v == cur[t]
      list == lists[ictx[v].type]
      at == CHOOSE n \in DOMAIN list : list[n] = v
  IN
  /\ pc[t] = "scan"
  /\ ictx[v].lock = Nobody
  /\ IF ictx[v].ref = 0
     THEN TakeVictim(t) /\ UNCHANGED cur
     ELSE /\ IF at = 1 THEN Goto(t, "sleep") /\ UNCHANGED cur
             ELSE Goto(t, "scan") /\ cur' = [cur EXCEPT ![t] = list[at - 1]]
          /\ UNCHANGED <<ictxc_lock, lists, first, ictx>>
  /\ UNCHANGED <<disk, ino, held>>

\* The end of nvfuse_get_ictx: the lock of the context.
LockIctx(t) ==
  /\ pc[t] = "lock"
  /\ ictx[cur[t]].lock = Nobody
  /\ ictx' = [ictx EXCEPT ![cur[t]].lock = t]
  /\ ictxc_lock' = Nobody
  /\ Goto(t, "read")
  /\ UNCHANGED <<lists, first, disk, cur, ino, held>>

\* The rest of nvfuse_read_inode: its assertions, and the reference.
ReadInode(t) ==
  LET c == cur[t] IN
  /\ pc[t] = "read"
  /\ IF ictx[c].ino = ino[t] /\ ino[t] \in itable
     THEN /\ ictx' = [ictx EXCEPT ![c].ref = @ + 1]
          /\ held' = [held EXCEPT ![t] = @ \cup {c}]
          /\ Return(t)
     ELSE Goto(t, "assert") /\ UNCHANGED <<ictx, cur, ino, held>>
  /\ UNCHANGED <<ictxc_lock, lists, first, disk>>

-----------------------------------------------------------------------------
(* Creating an inode under the lock of its directory: nvfuse_createfile,    *)
(* nvfuse_mkdir and the b+tree's inode.                                     *)

\* nvfuse_alloc_ictx up to the first lock of a candidate.
Create(t) ==
  /\ pc[t] = "idle"
  /\ ictxc_lock = Nobody
  /\ held[t] # {}
  /\ Cardinality(held[t]) < MaxHeld
  /\ ictxc_lock' = t
  /\ Replace(t)
  /\ UNCHANGED <<lists, first, ictx, disk, ino, held>>

\* nvfuse_alloc_new_inode, which fails its assertion when no number is free,
\* and nvfuse_read_inode with the context given.
AllocNewInode(t) ==
  /\ pc[t] = "alloc"
  /\ \/ \E i \in Inos \ ibitmap :
          /\ ibitmap' = ibitmap \cup {i}
          /\ itable' = itable \cup {i}
          /\ ictx' = [ictx EXCEPT ![cur[t]].ino = i, ![cur[t]].ref = @ + 1]
          /\ Goto(t, "insert")
     \/ /\ ibitmap = Inos
        /\ Goto(t, "assert")
        /\ UNCHANGED <<ibitmap, itable, ictx>>
  /\ UNCHANGED <<ictxc_lock, lists, first, named, cur, ino, held>>

\* nvfuse_insert_ictx without ictxc_lock, up to the store to the bucket's head.
Insert(t) ==
  /\ pc[t] = "insert"
  /\ ictx' = HlistLink(ictx, first, cur[t])
  /\ Goto(t, "inserting")
  /\ UNCHANGED <<ictxc_lock, lists, first, disk, cur, ino, held>>

\* The rest of it.  The caller goes on to write the directory entry.
Inserted(t) ==
  LET c == cur[t] IN
  /\ pc[t] = "inserting"
  /\ first' = c
  /\ ictx' = [ictx EXCEPT ![c].pprev = First, ![c].type = "ref"]
  /\ lists' = ListMove(c, "ref")
  /\ named' = named \cup {ictx[c].ino}
  /\ held' = [held EXCEPT ![t] = @ \cup {c}]
  /\ Return(t)
  /\ UNCHANGED <<ictxc_lock, ibitmap, itable>>

-----------------------------------------------------------------------------
(* Releasing and deleting an inode.                                         *)

\* nvfuse_release_ictx up to ictxc_lock.
Unref(t, c) ==
  /\ ictx' = [ictx EXCEPT ![c].ref = @ - 1]
  /\ Goto(t, IF ictx[c].ref > 0 THEN "rel_move" ELSE "assert")
  /\ cur' = [cur EXCEPT ![t] = c]
  /\ held' = [held EXCEPT ![t] = @ \ {c}]

\* nvfuse_release_inode.
Release(t, c) ==
  /\ pc[t] = "idle"
  /\ c \in held[t]
  /\ Unref(t, c)
  /\ UNCHANGED <<ictxc_lock, lists, first, disk, ino>>

\* Variant: the number is free before the context is released.
DeleteFreeFirst(t, c) ==
  LET i == ictx[c].ino IN
  /\ pc[t] = "idle"
  /\ c \in held[t]
  /\ i # Root
  /\ named' = named \ {i}
  /\ itable' = itable \ {i}
  /\ ibitmap' = ibitmap \ {i}
  /\ Unref(t, c)
  /\ UNCHANGED <<ictxc_lock, lists, first, ino>>

\* nvfuse_relocate_delete_inode, after the directory entry is gone.
Delete(t, c) ==
  LET i == ictx[c].ino IN
  /\ pc[t] = "idle"
  /\ c \in held[t]
  /\ i # Root
  /\ named' = named \ {i}
  /\ itable' = itable \ {i}
  /\ ino' = [ino EXCEPT ![t] = i]
  /\ Unref(t, c)
  /\ UNCHANGED <<ictxc_lock, lists, first, ibitmap>>

\* Variant: the context stays where it is in the hash and on its list.
ReleaseMoveTypeOnly(t) ==
  /\ pc[t] = "rel_move"
  /\ ictxc_lock = Nobody
  /\ ictx' = [ictx EXCEPT ![cur[t]].type = "clean"]
  /\ Goto(t, "rel_unlock")
  /\ UNCHANGED <<ictxc_lock, lists, first, disk, cur, ino, held>>

\* nvfuse_move_ictx_list to the clean list, under ictxc_lock.
ReleaseMove(t) ==
  LET c == cur[t] IN
  /\ pc[t] = "rel_move"
  /\ ictxc_lock = Nobody
  /\ lists' = ListMove(c, "clean")
  /\ ictx' = [HlistAddHead(HlistDel(ictx, c), HlistDelHead(ictx, first, c), c)
                EXCEPT ![c].type = "clean"]
  /\ first' = c
  /\ Goto(t, "rel_unlock")
  /\ UNCHANGED <<ictxc_lock, disk, cur, ino, held>>

\* The end of nvfuse_release_ictx: the unlock of the context.
ReleaseUnlock(t) ==
  /\ pc[t] = "rel_unlock"
  /\ ictx' = [ictx EXCEPT ![cur[t]].lock = Nobody]
  /\ IF ino[t] = NoIno THEN Return(t)
     ELSE Goto(t, "free_ino") /\ UNCHANGED <<cur, ino>>
  /\ UNCHANGED <<ictxc_lock, lists, first, disk, held>>

\* nvfuse_release_ibitmap.
ReleaseIbitmap(t) ==
  /\ pc[t] = "free_ino"
  /\ ibitmap' = ibitmap \ {ino[t]}
  /\ Return(t)
  /\ UNCHANGED <<ictxc_lock, lists, first, ictx, itable, named, held>>

-----------------------------------------------------------------------------
Begin(t) ==
  \/ \E i \in Inos : Get(t, i)
  \/ Create(t)
  \/ \E c \in held[t] : Release(t, c) \/ Delete(t, c)

Continue(t) ==
  \/ Scan(t) \/ LockIctx(t) \/ ReadInode(t)
  \/ AllocNewInode(t) \/ Insert(t) \/ Inserted(t)
  \/ ReleaseMove(t) \/ ReleaseUnlock(t) \/ ReleaseIbitmap(t)

Next == \E t \in Threads : Begin(t) \/ Continue(t)

Spec == Init /\ [][Next]_vars

-----------------------------------------------------------------------------
(* Properties.                                                              *)

\* The inodes a thread has locked: read, being created or being released.
Owned(t) == {c \in Ictxs : ictx[c].lock = t /\ ictx[c].ino # NoIno}

\* No two threads, and no thread twice, work on one inode, although several
\* contexts may carry its number: what every caller of nvfuse_read_inode
\* assumes between the get and the release.
InodeExclusive ==
  \A t, u \in Threads : \A c \in Owned(t), d \in Owned(u) :
    ictx[c].ino = ictx[d].ino => c = d

\* A get of an inode in use finds the context its user has locked, and waits
\* for it: nvfuse_ictx_hash_lookup never returns an older context.
HeldIsFound ==
  \A t \in Threads : \A c \in held[t] : HashLookup(ictx[c].ino) = c

\* An inode in use has one context that counts: its user has locked it, and
\* every other thread is led to it, whatever older contexts carry its number.
OneContext == InodeExclusive /\ HeldIsFound

\* Every context is on the one list its ictx_type names, except those a
\* creator has taken and not inserted yet: none is lost or listed twice, as
\* nvfuse_deinit_ictx_cache asserts when it counts them.
ListsConserve ==
  \A c \in Ictxs :
    /\ \A type \in Types :
         Len(SelectSeq(lists[type], LAMBDA d : d = c)) =
           IF ictx[c].type = type THEN 1 ELSE 0
    /\ ictx[c].type = "none" => \E t \in Threads : c = cur[t]

\* No context is lost from the lists, listed twice or left without a type.
ContextsConserved == TypeOK /\ ListsConserve

\* A context a thread holds, or waits for in nvfuse_get_ictx, is not given
\* another inode by the replacement.
HeldKeepsIno ==
  [][\A t \in Threads :
       /\ \A c \in held[t] : ictx'[c].ino = ictx[c].ino
       /\ pc[t] = "lock" => ictx'[cur[t]].ino = ino[t]]_vars

\* A release that was called gives the inode's lock back: "this inode context
\* is locked until nvfuse_inode_release is called".
ReleaseReturns ==
  \A t \in Threads : pc[t] = "rel_move" ~> pc[t] = "idle"
=============================================================================
