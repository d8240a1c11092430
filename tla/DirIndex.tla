------------------------------ MODULE DirIndex ------------------------------
(* The index of one directory (nvfuse_core.c): a B+tree from the hash of a  *)
(* file name to the number of its directory entry.  Names that share a hash *)
(* share one key; the top NVFUSE_BP_COLLISION_BITS of the item count the    *)
(* others and the number is then 0.  The caller holds the lock of the       *)
(* directory's inode, so every operation is one step.                       *)
EXTENDS BpTree

CONSTANTS Names, Hash, CollisionBits, OffsetRange,
          Scopes,      \* the sets of names one behaviour may use
          EntriesOf    \* the entries a name may be given

ASSUME HashKeys == Hash \in [Names -> Nat \ {0}]
ASSUME OffsetsFit == EntriesOf \in [Names -> SUBSET (1 .. OffsetRange - 1)]
\* A key's counter does not wrap: no more names share a hash than it counts.
ASSUME FewCollisions == \A n \in Names :
  Cardinality({m \in Names : Hash[m] = Hash[n]}) <= 2 ^ CollisionBits

NoEntry == -1
Count(item) == item \div OffsetRange
Offset(item) == item % OffsetRange
\* c << (LOW_BITS - COLLISION_BITS), in 32 bits.
WithCount(c, off) == (c % 2 ^ CollisionBits) * OffsetRange + off

VARIABLES tree,    \* the B+tree file of the directory
          entry    \* the number of the entry of each name of the scope
vars == <<tree, entry>>

\* nvfuse_set_dir_indexing.
SetDirIndexing(t, n, off) ==
  LET Done(r) == IF r.res < 0 THEN UpdateKey(t, Hash[n], WithCount(Count(r.cur) + 1, 0)) ELSE r.t
  IN Done(InsertKey(t, Hash[n], off % OffsetRange))

\* nvfuse_get_dir_indexing: NoEntry, or the entry to look at, 0 to search.
GetDirIndexing(t, n) ==
  LET Entry(f) == IF f.index < 0 THEN NoEntry ELSE IF Count(f.value) # 0 THEN 0 ELSE Offset(f.value)
  IN Entry(FindKey(t, Hash[n]))

\* nvfuse_del_dir_indexing.
DelDirIndexing(t, n) ==
  LET Drop(f) == IF f.index < 0 THEN t
                 ELSE IF Count(f.value) = 0 THEN RemoveKey(t, Hash[n])
                 ELSE UpdateKey(t, Hash[n], WithCount(Count(f.value) - 1, Offset(f.value)))
  IN Drop(FindKey(t, Hash[n]))

Init == tree = InitRoot(AllocInodeAndMaster) /\ \E s \in Scopes : entry = [n \in s |-> NoEntry]

\* A name gets an entry (nvfuse_createfile, nvfuse_mkdir).
Link(n, e) ==
  /\ entry[n] = NoEntry
  /\ tree' = SetDirIndexing(tree, n, e)
  /\ entry' = [entry EXCEPT ![n] = e]

\* A name loses its entry (nvfuse_rmfile, nvfuse_rmdir).
Unlink(n) ==
  /\ entry[n] # NoEntry
  /\ tree' = DelDirIndexing(tree, n)
  /\ entry' = [entry EXCEPT ![n] = NoEntry]

\* nvfuse_shrink_dentry moves the last entry into a hole: del, then set.
Move(n, e) ==
  /\ entry[n] # NoEntry /\ entry[n] # e
  /\ tree' = SetDirIndexing(DelDirIndexing(tree, n), n, e)
  /\ entry' = [entry EXCEPT ![n] = e]

Next == \E n \in DOMAIN entry : Unlink(n) \/ \E e \in EntriesOf[n] : Link(n, e) \/ Move(n, e)
Spec == Init /\ [][Next]_vars
---------------------------------------------------------------------------
Present == {n \in DOMAIN entry : entry[n] # NoEntry}
Sharing(n) == {m \in Present : Hash[m] = Hash[n]}

\* Every name has an entry it may have; the tree is inside its file.
TypeOK ==
  /\ DOMAIN entry \in Scopes
  /\ \A n \in DOMAIN entry : entry[n] \in EntriesOf[n] \cup {NoEntry}
  /\ tree.root \in DOMAIN tree.node /\ tree.size = Len(tree.node) + 1
  /\ tree.bits \subseteq 0 .. tree.size - 1
  /\ \A o \in DOMAIN tree.node : tree.node[o].num \in 0 .. FANOUT

\* After any sequence of insertions, splits, merges and removals
\* nvfuse_get_dir_indexing finds a name's hash exactly when a name with that
\* hash is in the directory, answers with the entry of such a name, and
\* never with an entry number while two names share the hash.
IndexFinds ==
  \A n \in DOMAIN entry : \A got \in {GetDirIndexing(tree, n)}, sharing \in {Sharing(n)} :
    /\ got = NoEntry <=> sharing = {}
    /\ got \in {NoEntry, 0} \cup {entry[m] : m \in sharing}
    /\ Cardinality(sharing) > 1 => got = 0

\* The leaves below a node, in key order, each with its depth.
Leaves ==
  LET Deeper(l) == [j \in DOMAIN l |-> [l[j] EXCEPT !.depth = @ + 1]]
      below[o \in DOMAIN tree.node] ==
        LET n == tree.node[o]
        IN IF n.flag = "data" THEN <<[off |-> o, depth |-> 0]>>
           ELSE FlattenSeq([i \in 1 .. n.num + 1 |-> Deeper(below[Item(n.pair, i - 1)])])
  IN below[tree.root]

\* i_next_node and i_prev_node link the leaves in the order in which the
\* index nodes reach them, through every split and merge.
LeafChain(l) ==
  LET At(i) == IF i \in DOMAIN l THEN l[i].off ELSE 0
  IN \A i \in DOMAIN l : tree.node[At(i)].next = At(i + 1) /\ tree.node[At(i)].prev = At(i - 1)

\* All leaves are at one depth, only the root has i_root, no leaf but the
\* root is empty, and an index node keeps at least half of its children.
Balanced(l) ==
  /\ \A i \in DOMAIN l : l[i].depth = l[1].depth
  /\ \A o \in tree.bits \ {0} :
       LET n == tree.node[o]
       IN /\ n.root <=> o = tree.root
          /\ n.flag = "data" /\ ~n.root => n.num >= 1
          /\ n.flag = "index" => n.num >= (IF n.root THEN 1 ELSE FANOUT \div 2)

\* Every split, merge and redistribution leaves a B+tree: leaves linked in
\* order, at one depth, nodes filled as the code promises.
WellFormed == TypeOK /\ \A l \in {Leaves} : LeafChain(l) /\ Balanced(l)

\* The bitmap of the master node has exactly the nodes the root reaches (no
\* node is lost or used twice), m_bitmap_free, m_dealloc_block and
\* m_alloc_block agree with it, and no assertion on a bit has failed.
NodesAccounted ==
  LET Children(o) == {Item(tree.node[o].pair, i) : i \in 0 .. tree.node[o].num}
      index == {o \in tree.bits \ {0} : tree.node[o].flag = "index"}
      used == UNION {Children(o) : o \in index} \cup {tree.root}
  IN /\ tree.bits = used \cup {0}
     /\ tree.free = tree.size - Cardinality(tree.bits)
     /\ tree.dealloc = tree.free
     /\ tree.allocs = Cardinality(tree.bits)
     /\ ~tree.failed
=============================================================================
