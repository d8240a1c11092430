------------------------------- MODULE BpTree -------------------------------
(* The B+tree of nvfuse_bp_tree.c, as operators on a tree `t`: the master   *)
(* node (root, node bitmap, counters) and the nodes of the B+tree file.     *)
(* The arrays i_key and i_item of a node are one array of pairs, <<0, 0>>   *)
(* being the null pair.  A leaf uses i_num pairs.  An index node uses       *)
(* i_num + 1: pair i holds the offset of a child and a bound on its keys.   *)
(* One master node: the file stays below BP_NODES_PER_MASTER blocks.        *)
EXTENDS Integers, Sequences, FiniteSets, FiniteSetsExt, SequencesExt

CONSTANTS FANOUT, MAX_STACK

ASSUME FanoutOdd == FANOUT \in Nat /\ FANOUT >= 3 /\ FANOUT % 2 = 1

NullPair == <<0, 0>>
\* bp_init_pair.
NullPairs(n) == [i \in 0 .. n - 1 |-> NullPair]
Key(p, i) == p[i][1]
Item(p, i) == p[i][2]

\* The used pairs of an index node, as a sequence.
Pairs(n) == [i \in 1 .. n.num + 1 |-> n.pair[i - 1]]
\* A sequence of pairs in an array of n.
Padded(s, n) == [i \in 0 .. n - 1 |-> IF i < Len(s) THEN s[i + 1] ELSE NullPair]

\* B_PAIR_COPY_N(dst, src, i, j, n).
CopyN(dst, src, i, j, n) ==
  [x \in DOMAIN dst |-> IF x >= i /\ x < i + n THEN src[x - i + j] ELSE dst[x]]

\* bp_merge_key2: insert into a sorted array of max - 1 pairs, shifting the
\* larger ones up.
MergeKey2(p, key, value, max) ==
  LET below == {i \in 0 .. max - 2 : Key(p, i) # 0 /\ Key(p, i) < key}
      Put(up, at) == IF Key(up, at) = 0 THEN [up EXCEPT ![at] = <<key, value>>] ELSE up
      Shift(at) == Put([j \in DOMAIN p |->
                          IF j > at /\ j <= max - 1 THEN p[j - 1]
                          ELSE IF j = at /\ at < max - 1 THEN NullPair ELSE p[j]], at)
  IN Shift(Max({-1} \cup below) + 1)

\* bp_merge_key: the same on a leaf with room.
MergeKey(n, key, value) ==
  [n EXCEPT !.num = @ + 1, !.pair = MergeKey2(@, key, value, n.num + 1)]

\* bubble_sort of the first n pairs by key.
BubbleSort(p, n) ==
  LET Before(i, j) == Key(p, i) < Key(p, j) \/ (Key(p, i) = Key(p, j) /\ i < j)
      rank == [i \in 0 .. n - 1 |-> Cardinality({j \in 0 .. n - 1 : Before(j, i)})]
  IN [x \in DOMAIN p |-> IF x < n THEN p[CHOOSE i \in 0 .. n - 1 : rank[i] = x] ELSE p[x]]

KeyCompare(a, b) == IF a > b THEN 1 ELSE IF a = b THEN 0 ELSE -1

\* bp_bin_search with the comparison cmp[mid]: the index found, or -1.
BinSearch(cmp, hi) ==
  LET from[r \in (0 .. FANOUT) \X (-1 .. FANOUT)] ==
        LET mid == (r[1] + r[2]) \div 2
        IN IF r[2] < r[1] THEN -1
           ELSE IF cmp[mid] = 0 THEN mid
           ELSE IF cmp[mid] < 0 THEN from[<<r[1], mid - 1>>] ELSE from[<<mid + 1, r[2]>>]
  IN from[<<0, hi>>]

\* get_pair_tree: the slot of a key in a leaf, or -1.
GetPair(n, key) ==
  BinSearch([mid \in 0 .. n.num - 1 |-> KeyCompare(key, Key(n.pair, mid))], n.num - 1)

\* bp_compare_index_node: pair mid covers the keys above pair mid - 1.
CompareIndexNode(n, key, mid) ==
  LET c == KeyCompare(key, Key(n.pair, mid))
  IN IF (mid = 0 \/ key > Key(n.pair, mid - 1)) /\ c <= 0 THEN 0 ELSE c

\* Variant of NextNode: a bound belongs to the child above it.
NextNodeMisplaced(n, key) ==
  LET cmp == [mid \in 0 .. n.num |-> CompareIndexNode(n, key, mid)]
  IN IF key >= Key(n.pair, n.num - 1) THEN Item(n.pair, n.num)
     ELSE Item(n.pair, BinSearch(cmp, n.num))

\* bp_next_node: the child that covers the key.
NextNode(n, key) ==
  LET cmp == [mid \in 0 .. n.num |-> CompareIndexNode(n, key, mid)]
  IN IF key > Key(n.pair, n.num - 1) THEN Item(n.pair, n.num)
     ELSE Item(n.pair, BinSearch(cmp, n.num))

\* traverse_empty: the offsets from the root to the leaf; all but the last
\* are what B_PUSH leaves on the stack.
Path(t, key) ==
  LET to[d \in 1 .. MAX_STACK] ==
        IF d = 1 THEN <<t.root>>
        ELSE LET p == to[d - 1] n == t.node[Last(p)]
             IN IF n.flag = "data" THEN p ELSE Append(p, NextNode(n, key))
  IN to[MAX_STACK]

\* search_data_node: the leaf and the slot.
SearchDataNode(t, key) ==
  LET In(o) == [off |-> o, index |-> GetPair(t.node[o], key)] IN In(Last(Path(t, key)))

\* bp_find_key.
FindKey(t, key) ==
  LET Found(s) == [index |-> s.index,
                   value |-> IF s.index >= 0 THEN Item(t.node[s.off].pair, s.index) ELSE 0]
  IN Found(SearchDataNode(t, key))
---------------------------------------------------------------------------
(* The node bitmap of the master node.                                      *)

\* _bp_scan_bitmap: the first clear bit from `start`, cyclically in
\* 1 .. length - 1; 0 when there is none.
FirstClear(bits, start, length) ==
  LET clear == {o \in 1 .. length - 1 : o \notin bits}
      after == {o \in clear : o >= start}
  IN IF clear = {} THEN 0 ELSE IF after # {} THEN Min(after) ELSE Min(clear)

\* bp_scan_bitmap, from the node last found.
ScanBitmap(t) ==
  IF t.free = 0 THEN 0 ELSE FirstClear(t.bits, IF t.last = 0 THEN 1 ELSE t.last, t.size)

\* bp_set_bitmap; the caller asserts that the bit was clear.
SetBitmap(t, o) ==
  [t EXCEPT !.bits = @ \cup {o}, !.free = @ - 1, !.failed = @ \/ o \in t.bits \/ t.free <= 0]

\* bp_clear_bitmap, which asserts that the bit was set.
ClearBitmap(t, o) ==
  [t EXCEPT !.bits = @ \ {o}, !.free = @ + 1, !.failed = @ \/ o \notin t.bits]

\* bp_alloc_node: the header is zeroed, as is the block.
NewNode(flag) == [root |-> FALSE, flag |-> flag, num |-> 0, next |-> 0, prev |-> 0,
                  pair |-> NullPairs(FANOUT)]

\* The file of the tree grows by one block (bp_inc_free_bitmap).
Extend(t, flag) ==
  [t EXCEPT !.free = @ + 1, !.size = @ + 1, !.node = Append(@, NewNode(flag))]

\* bp_alloc_bitmap: reuse a freed node of the file, or extend the file.
Alloc(t, flag) ==
  LET Take(u, o) == [off |-> o, t |-> [SetBitmap(u, o) EXCEPT !.allocs = @ + 1]]
      From(o) ==
        IF o = 0 THEN Take(Extend(t, flag), t.size)
        ELSE Take([t EXCEPT !.last = o, !.dealloc = @ - 1, !.node[o] = NewNode(flag)], o)
  IN From(IF t.dealloc # 0 THEN ScanBitmap(t) ELSE 0)

\* Variant of Dealloc: the freed node is not counted.
DeallocUncounted(t, o) ==
  [ClearBitmap(t, o) EXCEPT !.allocs = @ - 1, !.node[o] = NewNode("free")]

\* bp_dealloc_bitmap.
Dealloc(t, o) ==
  [ClearBitmap(t, o) EXCEPT !.allocs = @ - 1, !.dealloc = @ + 1, !.node[o] = NewNode("free")]

\* bp_alloc_inode_and_master: bit 0 is the master node's own.
AllocInodeAndMaster ==
  SetBitmap([root |-> 0, bits |-> {}, size |-> 1, free |-> 1, dealloc |-> 0, allocs |-> 1,
             last |-> 0, failed |-> FALSE, node |-> <<>>], 0)

\* bp_init_root: an empty leaf.
InitRoot(t) ==
  LET Rooted(r) == [r.t EXCEPT !.root = r.off, !.node[r.off].root = TRUE]
  IN Rooted(Alloc(t, "data"))
---------------------------------------------------------------------------
(* Insertion.                                                               *)

\* The largest key of a leaf, and the pair its parent keeps for it.
LeafPair(t, o) == <<Key(t.node[o].pair, t.node[o].num - 1), o>>

\* The pairs of a full leaf and the new one, halved.
Halve(n, key, value) ==
  LET nl == n.num - n.num \div 2
      nr == n.num \div 2 + 1
      Half(all) == [ln |-> nl, left |-> CopyN(NullPairs(FANOUT), all, 0, 0, nl),
                    rn |-> nr, right |-> CopyN(NullPairs(FANOUT), all, 0, nl, nr)]
  IN Half(MergeKey2(CopyN(NullPairs(FANOUT + 1), n.pair, 0, 0, n.num), key, value, n.num + 1))

\* bp_add_root_node: the full root leaf becomes an index node over two leaves.
AddRootNode(t, dp, key, value) ==
  LET Root(u, l, r) ==
        [u EXCEPT !.node[dp] = [@ EXCEPT !.flag = "index", !.num = 1, !.root = TRUE,
           !.pair = Padded(<<LeafPair(u, l), LeafPair(u, r)>>, FANOUT)]]
      Fill(u, l, r, h) ==
        Root([u EXCEPT !.node[l] = [@ EXCEPT !.num = h.ln, !.pair = h.left, !.next = r],
                       !.node[r] = [@ EXCEPT !.num = h.rn, !.pair = h.right, !.prev = l]], l, r)
      Right(l, r) == Fill(r.t, l, r.off, Halve(t.node[dp], key, value))
      Left(l) == Right(l.off, Alloc(l.t, "data"))
  IN Left(Alloc(t, "data"))

\* The leaf split in two, and in `arr` the pairs of the parent with both.
SplitLeaf(t, ip, dp, key, value) ==
  LET Listed(u, kept, lp, rp) ==
        [t |-> u,
         arr |-> MergeKey2(MergeKey2(Padded(kept, FANOUT + 1), lp[1], lp[2], Len(kept) + 1),
                           rp[1], rp[2], Len(kept) + 2)]
      Parent(u, r) ==
        Listed(u, SelectSeq(Pairs(t.node[ip]), LAMBDA p : p[2] # dp /\ p[1] # 0),
               LeafPair(u, dp), LeafPair(u, r))
      Split(r, h) ==
        Parent([r.t EXCEPT !.node[dp] = [@ EXCEPT !.num = h.ln, !.pair = h.left, !.next = r.off],
                           !.node[r.off] = [@ EXCEPT !.num = h.rn, !.pair = h.right,
                                                     !.next = t.node[dp].next, !.prev = dp]], r.off)
  IN Split(Alloc(t, "data"), Halve(t.node[dp], key, value))

\* bp_split_data_node: the right half is linked behind the left one.
SplitDataNode(t, ip, dp, key, value) ==
  LET Linked(s, next) ==
        IF next = 0 THEN s ELSE [s EXCEPT !.t.node[next].prev = s.t.node[dp].next]
  IN Linked(SplitLeaf(t, ip, dp, key, value), t.node[dp].next)

\* bp_split_data: half of the pairs stay, half go to the sibling; the last
\* pair that stays gives the median.
SplitData(t, ip, arr, sibling, count) ==
  LET half == count \div 2
  IN [t |-> [t EXCEPT
               !.node[ip] = [@ EXCEPT !.root = FALSE, !.num = half - 1,
                                      !.pair = CopyN(NullPairs(FANOUT), arr, 0, 0, half)],
               !.node[sibling] = [@ EXCEPT !.num = half - 1, !.pair = CopyN(@, arr, 0, half, half)]],
      child |-> sibling, median |-> <<Key(arr, half - 1), ip>>]

\* bp_split_index_node (and bp_distribute_node when the pairs fit).
SplitIndexNode(t, ip, arr, count) ==
  LET Split(s) == SplitData(s.t, ip, arr, s.off, count)
  IN IF count - 1 < FANOUT
     THEN [t |-> [t EXCEPT !.node[ip].pair = CopyN(@, arr, 0, 0, t.node[ip].num + 1)],
           child |-> 0, median |-> NullPair]
     ELSE Split(Alloc(t, "index"))

\* One turn of the loop of bp_split_tree above the leaf's parent: `ip`
\* replaces the child that was split by its two halves.
SplitParent(st, ip) ==
  LET Replaced(n, c) ==
        LET kept == SelectSeq(Pairs(n), LAMBDA p : p[2] # st.median[2])
            old == SelectSeq(Pairs(n), LAMBDA p : p[2] = st.median[2])
            arr == MergeKey2(Padded(kept, FANOUT + 1), st.median[1], st.median[2], n.num + 1)
            top == Max({old[1][1], Key(c.pair, c.num)})
        IN BubbleSort(MergeKey2(arr, top, st.child, n.num + 2), n.num + 2)
  IN IF st.child = 0 THEN st
     ELSE SplitIndexNode([st.t EXCEPT !.node[ip].num = @ + 1], ip,
                         Replaced(st.t.node[ip], st.t.node[st.child]), st.t.node[ip].num + 2)

\* The root was split: a new root over its two halves.
SplitRoot(st, ip) ==
  LET KeyAt(o) == Key(st.t.node[o].pair, st.t.node[o].num - 1)
      Over(r, lo, hi) ==
        [r.t EXCEPT !.root = r.off, !.node[ip].root = FALSE, !.node[st.child].root = FALSE,
           !.node[r.off] = [@ EXCEPT !.root = TRUE, !.num = 1,
              !.pair = Padded(<<<<st.median[1], lo>>, <<KeyAt(hi), hi>>>>, FANOUT)]]
      Root(r) == IF KeyAt(ip) < KeyAt(st.child) THEN Over(r, ip, st.child) ELSE Over(r, st.child, ip)
  IN Root(Alloc(st.t, "index"))

\* bp_split_tree: `up` is the stack, the leaf's parent first.
SplitTree(t, up, dp, key, value) ==
  LET Parent(d) == SplitIndexNode([d.t EXCEPT !.node[up[1]].num = @ + 1], up[1], d.arr,
                                  t.node[up[1]].num + 2)
      Top(st) == IF st.child = 0 THEN st.t ELSE SplitRoot(st, Last(up))
  IN Top(FoldLeft(SplitParent, Parent(SplitDataNode(t, up[1], dp, key, value)), Tail(up)))

\* bp_insert_key_tree with update = 0: res = -1 and the present item when
\* the key is there.
InsertKey(t, key, value) ==
  LET Added(path, dp, n) ==
        IF n.root /\ n.num = FANOUT THEN AddRootNode(t, dp, key, value)
        ELSE IF n.num = FANOUT THEN SplitTree(t, Reverse(Front(path)), dp, key, value)
        ELSE [t EXCEPT !.node[dp] = MergeKey(@, key, value)]
      At(path, dp, i) ==
        IF i >= 0 THEN [t |-> t, res |-> -1, cur |-> Item(t.node[dp].pair, i)]
        ELSE [t |-> Added(path, dp, t.node[dp]), res |-> 0, cur |-> 0]
      Down(path) == At(path, Last(path), GetPair(t.node[Last(path)], key))
  IN Down(Path(t, key))

\* bp_update_key_tree and bp_insert_value_tree.
UpdateKey(t, key, value) ==
  LET Set(s) == IF s.index < 0 THEN t ELSE [t EXCEPT !.node[s.off].pair[s.index][2] = value]
  IN Set(SearchDataNode(t, key))
---------------------------------------------------------------------------
(* Removal.                                                                 *)

\* The child and the neighbour bp_redist_data_child picks for it: the two
\* nodes in key order, the slot of the first, all their pairs sorted.  An
\* index node has one pair more than i_num (`extra`).
Neighbours(t, ip, child) ==
  LET n == t.node[ip]
      extra == IF t.node[child].flag = "data" THEN 0 ELSE 1
      Both(t1, t2, other, c1, c2) ==
        [lo |-> IF t2 < t1 THEN other ELSE child, hi |-> IF t2 < t1 THEN child ELSE other,
         at |-> Min({t1, t2}), extra |-> extra, count |-> c1 + c2,
         all |-> BubbleSort(CopyN(CopyN(NullPairs(2 * FANOUT), t.node[child].pair, 0, 0, c1),
                                  t.node[other].pair, c1, 0, c2), c1 + c2)]
      With(t1, t2, other) ==
        Both(t1, t2, other, t.node[child].num + extra, t.node[other].num + extra)
      Beside(t1, t2) == With(t1, t2, Item(n.pair, t2))
      Of(t1) == Beside(t1, IF t1 = 0 THEN 1 ELSE IF t1 >= n.num THEN n.num - 1 ELSE t1 + 1)
  IN Of(CHOOSE i \in 0 .. n.num : Item(n.pair, i) = child)

\* The pairs of both fit a node: the upper one takes them, the lower one
\* leaves its parent and the list of leaves.
MergeNodes(t, ip, b) ==
  LET last == t.node[ip].num
      p == t.node[b.lo].prev
      x == t.node[b.lo].next
      Behind(u) == IF p = 0 THEN u ELSE [u EXCEPT !.node[p].next = x]
      Ahead(u) == IF x = 0 THEN u ELSE [u EXCEPT !.node[x].prev = p]
      joined == [t EXCEPT
        !.node[b.hi] = [@ EXCEPT !.num = b.count - b.extra, !.pair = CopyN(@, b.all, 0, 0, b.count)],
        !.node[ip] = [@ EXCEPT !.num = @ - 1,
           !.pair = [CopyN(@, @, b.at, b.at + 1, last - b.at) EXCEPT ![last] = NullPair]]]
  IN Dealloc(Ahead(Behind(joined)), b.lo)

\* They do not fit: each takes half, and the parent's bounds follow.
ShareNodes(t, ip, b) ==
  LET half == b.count \div 2
      rest == b.count - half
  IN [t EXCEPT
        !.node[b.lo] = [@ EXCEPT !.num = half - b.extra,
                                 !.pair = CopyN(NullPairs(FANOUT), b.all, 0, 0, half)],
        !.node[b.hi] = [@ EXCEPT !.num = rest - b.extra,
                                 !.pair = CopyN(NullPairs(FANOUT), b.all, 0, half, rest)],
        !.node[ip].pair = [@ EXCEPT ![b.at][1] = Key(b.all, half - 1),
                                    ![b.at + 1][1] = Max({@, Key(b.all, b.count - 1)})]]

\* bp_redist_data_child: the child of `ip` underflowed.
RedistChild(t, ip, child) ==
  LET Redist(b) == IF b.count < FANOUT + b.extra THEN MergeNodes(t, ip, b) ELSE ShareNodes(t, ip, b)
      Done(u) == [t |-> u, under |-> u.node[ip].num + 1 < FANOUT \div 2 + 1]
  IN Done(Redist(Neighbours(t, ip, child)))

\* One turn of the loop of bp_merge_key_tree; it ends at the root, or when
\* the node does not underflow.  A later turn looks at a leaf that has been
\* released; B_iALLOC has taken the same node back from the pool by then.
MergeUp(st, ip) ==
  LET Turn(r) == [t |-> r.t, under |-> r.under, top |-> r.t.node[ip].root, child |-> ip]
  IN IF ~st.under \/ st.top THEN st ELSE Turn(RedistChild(st.t, ip, st.child))

\* bp_merge_key_tree: a root left with one child is freed.
MergeKeyTree(t, up, dp) ==
  LET Rooted(u, r) == [u EXCEPT !.root = r, !.node[r].root = TRUE]
      Top(u, o, ip) ==
        IF ip.root /\ ip.num = 0 THEN Rooted(Dealloc(u, o), Item(ip.pair, 0)) ELSE u
      Merged(st) == Top(st.t, st.child, st.t.node[st.child])
  IN IF up = <<>> THEN t
     ELSE Merged(FoldLeft(MergeUp, [t |-> t, under |-> TRUE, top |-> FALSE, child |-> dp], up))

\* The key leaves its leaf.
TakeKey(t, s) ==
  LET n == t.node[s.off]
  IN [t EXCEPT !.node[s.off] = [@ EXCEPT !.num = @ - 1,
        !.pair = [CopyN(@, @, s.index, s.index + 1, n.num - 1 - s.index) EXCEPT ![n.num - 1] = NullPair]]]

\* bp_remove_key: with the delayed redistribution the build uses, a leaf
\* underflows when it is empty.
RemoveKey(t, key) ==
  LET Rest(u, o) == IF u.node[o].num >= 1 THEN u
                    ELSE MergeKeyTree(u, Reverse(Front(Path(t, key))), o)
      Take(s) == IF s.index < 0 THEN t ELSE Rest(TakeKey(t, s), s.off)
  IN Take(SearchDataNode(t, key))
=============================================================================
