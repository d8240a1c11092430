---- MODULE FileMap ----
(***************************************************************************)
(* Regular files of nvfuse: the tree of direct, indirect, double and       *)
(* triple indirect blocks (src/nvfuse_indirect.c), and the calls that grow *)
(* and cut it through the open file table (src/nvfuse_api.c,               *)
(* src/nvfuse_core.c).  Sizes and offsets are counted in units; Unit of    *)
(* them are one cluster.  One thread works on the files: a call runs to    *)
(* its end.  A failed assertion ends the program; "halt" names it.         *)
(***************************************************************************)
EXTENDS BlockGroups

CONSTANTS
  Files,         \* inode numbers of regular files
  Fds,           \* entries of the open file table
  DirectBlocks,  \* DIRECT_BLOCKS
  Ptrs,          \* PTRS_PER_BLOCK
  Unit,          \* CLUSTER_SIZE, in units
  MaxSize,       \* bound: the largest size of each file, in units
  Counts,        \* bound: how much one call reads or writes, in units
  Starts,        \* bound: where a preallocation starts, in units
  Lengths,       \* bound: the lengths of a preallocation, in units
  Back,          \* bound: how far before the end of the file a transfer starts
  Calls,         \* bound: the number of calls that change a tree
  Habits         \* what the application does beyond the plain use (see Plain)

ASSUME FileAssumption ==
  /\ Files \subseteq (Nat \ {0})
  /\ Fds \subseteq Nat
  /\ Ptrs \in Nat \ {0, 1}
  /\ DirectBlocks \in 1..Ptrs
  /\ Unit \in Nat \ {0}
  /\ MaxSize \in [Files -> Nat]
  /\ Counts \subseteq (Nat \ {0})
  /\ Back \in Nat

VARIABLES
  alloc,    \* the block groups
  root,     \* root[f]: the pointers i_blocks of the inode, 0 for none
  ind,      \* ind[f]: the contents of the indirect blocks of f
  isize,    \* isize[f]: i_size
  ft,       \* the open file table
  extent,   \* auxiliary: the device blocks of f in the order of the file, read from its tree
  calls     \* auxiliary: the number of calls that changed a tree

vars == <<alloc, root, ind, isize, ft, extent, calls>>

halt == alloc.stop

Indirect == DirectBlocks
DIndirect == DirectBlocks + 1
TIndirect == DirectBlocks + 2

Closed == [used |-> FALSE, ino |-> 0, size |-> 0]

NoPtrs == [i \in 0..TIndirect |-> 0]

Init ==
  /\ alloc = Formatted
  /\ root = [f \in Files |-> NoPtrs]
  /\ ind = [f \in Files |-> [b \in {} |-> 0]]
  /\ isize = [f \in Files |-> 0]
  /\ ft = [d \in Fds |-> Closed]
  /\ extent = [f \in Files |-> <<>>]
  /\ calls = 0

-----------------------------------------------------------------------------
(* The path to a logical block: a slot of the inode, then a slot of every  *)
(* indirect block on the way.                                              *)

MaxBlocks == DirectBlocks + Ptrs + Ptrs * Ptrs + Ptrs * Ptrs * Ptrs

MaxFileSize == MaxBlocks * Unit

\* Variant: the second index of a double indirect path is taken from the wrong bits.
BlockToPathWrongBits(lb) ==
  LET one == lb - DirectBlocks
      two == one - Ptrs
      tri == two - Ptrs * Ptrs
  IN IF lb < DirectBlocks THEN <<lb>>
     ELSE IF one < Ptrs THEN <<Indirect, one>>
     ELSE IF two < Ptrs * Ptrs THEN <<DIndirect, two \div Ptrs, two \div Ptrs>>
     ELSE IF lb < MaxBlocks
     THEN <<TIndirect, tri \div (Ptrs * Ptrs), (tri \div Ptrs) % Ptrs, tri % Ptrs>>
     ELSE <<>>

BlockToPath(lb) ==
  LET one == lb - DirectBlocks
      two == one - Ptrs
      tri == two - Ptrs * Ptrs
  IN IF lb < DirectBlocks THEN <<lb>>
     ELSE IF one < Ptrs THEN <<Indirect, one>>
     ELSE IF two < Ptrs * Ptrs THEN <<DIndirect, two \div Ptrs, two % Ptrs>>
     ELSE IF lb < MaxBlocks
     THEN <<TIndirect, tri \div (Ptrs * Ptrs), (tri \div Ptrs) % Ptrs, tri % Ptrs>>
     ELSE <<>>

\* The number of slots after this one in the block that holds the pointer.
Boundary(lb) ==
  IF lb < DirectBlocks THEN DirectBlocks - 1 - (lb % Ptrs)
  ELSE Ptrs - 1 - ((lb - DirectBlocks) % Ptrs)

-----------------------------------------------------------------------------
(* An operator below maps m = [a, root, ind], the allocator and the tree   *)
(* of one file, to the next one.                                           *)

Root == 0

Pointers(m, node) == IF node = Root THEN m.root ELSE m.ind[node]

SetPointers(m, node, at, vals) ==
  LET New(old) == [i \in DOMAIN old |-> IF i - at + 1 \in DOMAIN vals THEN vals[i - at + 1] ELSE old[i]]
  IN IF node = Root THEN [m EXCEPT !.root = New(@)] ELSE [m EXCEPT !.ind[node] = New(@)]

\* The chain of (node, slot, key) triples, up to and with the first missing key.
GetBranch(m, path) ==
  LET Entry(node, at) == [node |-> node, at |-> at, key |-> Pointers(m, node)[at]]
      Below(chain, at) ==
        IF Last(chain).key = 0 THEN chain ELSE Append(chain, Entry(Last(chain).key, at))
      upto[d \in 1..Len(path)] ==
        IF d = 1 THEN <<Entry(Root, path[1])>> ELSE Below(upto[d - 1], path[d])
  IN upto[Len(path)]

Least(x, y) == IF x < y THEN x ELSE y

\* The length of the longest initial stretch of 0..(n - 1) on which P holds.
Stretch(n, P(_)) == Min({n} \cup {i \in 0..(n - 1) : ~P(i)})

BlksToAllocate(m, where, k, blks, boundary) ==
  LET n == Least(blks, boundary + 1)
  IN IF k > 0 THEN n ELSE Stretch(n, LAMBDA i : Pointers(m, where.node)[where.at + i] = 0)

\* New indirect blocks are zeroed and linked; the last one points to the data blocks.
AllocBranch(m, f, k, count, offs) ==
  LET Fill(r, i) == [j \in 0..(Ptrs - 1) |->
                       IF j = offs[i] THEN r.blks[i + 1]
                       ELSE IF i = k /\ j - offs[i] \in DOMAIN r.direct THEN r.direct[j - offs[i]]
                       ELSE 0]
      New(r) == [b \in {r.blks[i] : i \in 1..k} |-> Fill(r, CHOOSE i \in 1..k : r.blks[i] = b)]
      Linked(r) ==
        IF r.blks = <<>>
        THEN [m |-> [m EXCEPT !.a = r.a], blks |-> <<>>, direct |-> <<>>]
        ELSE [m |-> [m EXCEPT !.a = IF \A i \in 1..k : offs[i] = 0 THEN r.a
                                    ELSE Stopped(r.a, "assert_offset"),
                              !.ind = New(r) @@ m.ind],
              blks |-> r.blks, direct |-> r.direct]
  IN Linked(AllocFreeBlocks(m.a, f, k, count))

SpliceBranch(m, where, b, k) ==
  SetPointers(m, where.node, where.at,
              IF k = 0 THEN <<b.blks[1]>> \o b.direct ELSE <<b.blks[1]>>)

\* The device block of lb and the number of blocks mapped; with create, missing ones are allocated.
GetBlock(m, f, lb, max, create) ==
  LET Found(last) ==
        [m |-> m, pblock |-> last.key, err |-> FALSE,
         n |-> Stretch(Least(max, Boundary(lb) + 1),
                       LAMBDA i : Pointers(m, last.node)[last.at + i] = last.key + i)]
      None(x, err) == [m |-> x, n |-> 0, pblock |-> 0, err |-> err]
      Spliced(last, k, count, b) ==
        IF b.blks = <<>> THEN None(b.m, TRUE)
        ELSE [m |-> SpliceBranch(b.m, last, b, k), n |-> count, pblock |-> Last(b.blks), err |-> FALSE]
      Added(last, k, count, offs) == Spliced(last, k, count, AllocBranch(m, f, k, count, offs))
      Missing(last, offs) ==
        Added(last, Len(offs), BlksToAllocate(m, last, Len(offs), max, Boundary(lb)), offs)
      At(path, chain) ==
        IF Last(chain).key # 0 THEN Found(Last(chain))
        ELSE IF ~create THEN None(m, FALSE)
        ELSE Missing(Last(chain), SubSeq(path, Len(chain) + 1, Len(path)))
      From(path) == IF path = <<>> THEN None(m, TRUE) ELSE At(path, GetBranch(m, path))
  IN From(BlockToPath(lb))

GetPbn(m, f, lb) == GetBlock(m, f, lb, 1, FALSE).pblock

-----------------------------------------------------------------------------
(* Truncation.                                                             *)

\* The blocks of a pointer array, merged into runs of consecutive numbers, in order.
Runs(ptrs) ==
  LET Step(runs, nr) ==
        IF nr = 0 THEN runs
        ELSE IF runs # <<>> /\ Last(runs).block = nr - Last(runs).count
        THEN [runs EXCEPT ![Len(runs)].count = @ + 1]
        ELSE Append(runs, [block |-> nr, count |-> 1])
  IN FoldLeft(Step, <<>>, ptrs)

FreeData(m, ptrs) ==
  [m EXCEPT !.a = FoldLeft(LAMBDA x, r : FreeBlocks(x, r.block, r.count), m.a, Runs(ptrs))]

Children(m, b) == [i \in 1..Ptrs |-> m.ind[b][i - 1]]

\* An indirect block is freed after everything below it; its cached contents are forgotten here.
RECURSIVE FreeBranches(_, _, _)
FreeBranches(m, ptrs, depth) ==
  LET Free(x, b) ==
        LET y == FreeBranches(x, Children(x, b), depth - 1)
        IN [y EXCEPT !.a = FreeBlocks(@, b, 1),
                     !.ind = [c \in DOMAIN @ \ {b} |-> @[c]]]
  IN IF depth = 0 THEN FreeData(m, ptrs)
     ELSE FoldLeft(LAMBDA x, b : IF b = 0 THEN x ELSE Free(x, b), m, ptrs)

\* Free the pointers of a node from a slot on, and clear them.
FreeTail(m, node, from, to, depth) ==
  LET ptrs == [i \in 1..(to - from + 1) |-> Pointers(m, node)[from + i - 1]]
  IN FreeBranches(SetPointers(m, node, from, [i \in DOMAIN ptrs |-> 0]), ptrs, depth)

\* Free the whole tree below one slot of the inode.
FreeSubtree(m, slot, depth) == FreeTail(m, Root, slot, slot, depth)

\* The last block of the branch that survives: its level, its slot, and the detached top below it.
FindShared(m, path) ==
  LET k == CHOOSE j \in 1..Len(path) :
             /\ j = 1 \/ path[j] # 0
             /\ \A i \in (j + 1)..Len(path) : path[i] = 0
      Shared(c) == \E i \in 0..(c.at - 1) : Pointers(m, c.node)[i] # 0
      Survivor(chain) ==
        CHOOSE j \in 1..Len(chain) :
          /\ j = 1 \/ Shared(chain[j])
          /\ \A i \in (j + 1)..Len(chain) : ~Shared(chain[i])
      At(chain, p, top) == [chain |-> chain, level |-> p, own |-> p = top /\ p > 1]
      Of(chain, top) == At(chain, Survivor(chain), top)
  IN Of(GetBranch(m, SubSeq(path, 1, k)), k)

\* Cut the branch of the new end, then the tails of the blocks it shares, from the leaf up.
TruncateBranch(m, path) ==
  LET Top(s, e) ==
        IF s.own \/ e.key = 0 THEN m
        ELSE FreeTail(IF s.level > 1 THEN [m EXCEPT !.a = Stopped(@, "released_twice")] ELSE m,
                      e.node, e.at, e.at, Len(path) - s.level)
      Clear(s, x, j) ==
        FreeTail(x, s.chain[j].node,
                 IF s.own /\ j = s.level THEN s.chain[j].at ELSE s.chain[j].at + 1,
                 Ptrs - 1, Len(path) - j)
      Cut(s) == FoldLeft(LAMBDA x, j : Clear(s, x, j), Top(s, s.chain[s.level]),
                         [i \in 1..(s.level - 1) |-> s.level - i + 1])
  IN Cut(FindShared(m, path))

\* Variant: the triple indirect tree is not freed.
TruncateBlocksKeepsTriple(m, size) ==
  LET path == BlockToPath((size + Unit - 1) \div Unit)
      cut  == IF Len(path) = 1 THEN FreeTail(m, Root, path[1], DirectBlocks - 1, 0)
              ELSE TruncateBranch(m, path)
      Whole(x, slot) == IF path[1] < slot THEN FreeSubtree(x, slot, slot - DirectBlocks + 1) ELSE x
  IN IF path = <<>> THEN m ELSE FoldLeft(Whole, cut, <<Indirect, DIndirect>>)

TruncateBlocks(m, size) ==
  LET path == BlockToPath((size + Unit - 1) \div Unit)
      cut  == IF Len(path) = 1 THEN FreeTail(m, Root, path[1], DirectBlocks - 1, 0)
              ELSE TruncateBranch(m, path)
      Whole(x, slot) == IF path[1] < slot THEN FreeSubtree(x, slot, slot - DirectBlocks + 1) ELSE x
  IN IF path = <<>> THEN m ELSE FoldLeft(Whole, cut, <<Indirect, DIndirect, TIndirect>>)

Ceil(size) == (size + Unit - 1) \div Unit

\* nvfuse_free_inode_size; the buffers it throws away first are not kept here.
FreeInodeSize(m, old, size) ==
  IF Ceil(old) = 0 \/ Ceil(old) <= size \div Unit THEN m ELSE TruncateBlocks(m, size)

-----------------------------------------------------------------------------
(* The calls.                                                              *)

Extent(m, f) ==
  LET Mapped(pbn) == [i \in 1..Stretch(Ceil(MaxSize[f]), LAMBDA lb : pbn[lb] # 0) |-> pbn[i - 1]]
  IN Mapped([lb \in 0..Ceil(MaxSize[f]) |-> GetPbn(m, f, lb)])

Tree(f) == [a |-> alloc, root |-> root[f], ind |-> ind[f]]

Store(f, new, size) ==
  \E m \in {new} :
    /\ calls' = IF m = Tree(f) THEN calls ELSE calls + 1
    /\ calls' <= Calls
    /\ alloc' = m.a
    /\ root' = [root EXCEPT ![f] = m.root]
    /\ ind' = [ind EXCEPT ![f] = m.ind]
    /\ isize' = [isize EXCEPT ![f] = size]
    /\ extent' = [extent EXCEPT ![f] = Extent(m, f)]

Running == halt = "none"

Open(f) == {d \in Fds : ft[d].used /\ ft[d].ino = f}

\* Plain use has none of the habits: one descriptor for a file, sizes changed by others only while
\* the file is closed, nothing written or preallocated beyond the end, and direct writes of one cluster.
Plain(habit) == habit \notin Habits

\* The first unused entry of the table.
AllocateOpenFileTable == Min({d \in Fds : ~ft[d].used})

OpenFile(f) ==
  /\ Running
  /\ Plain("shared") => Open(f) = {}
  /\ \E d \in Fds : ~ft[d].used
  /\ ft' = [ft EXCEPT ![AllocateOpenFileTable] = [used |-> TRUE, ino |-> f, size |-> isize[f]]]
  /\ UNCHANGED <<alloc, root, ind, isize, extent, calls>>

CloseFile(d) ==
  /\ Running
  /\ ft[d].used
  /\ ft' = [ft EXCEPT ![d] = Closed]
  /\ UNCHANGED <<alloc, root, ind, isize, extent, calls>>

\* A buffer of a block that is not mapped is an assertion failure.
GetBh(m, f, lb) == IF GetPbn(m, f, lb) = 0 THEN [m EXCEPT !.a = Stopped(@, "assert_pno")] ELSE m

\* Variant: no block is allocated when the size is the offset.
WriteClusterOffByOne(w, f) ==
  LET remain == Least(Unit - (w.off % Unit), w.count)
      got    == IF w.isize < w.off
                THEN GetBlock(w.m, f, w.isize \div Unit, 1, TRUE).m ELSE w.m
      off    == w.off + remain
      size   == IF off > w.size THEN off ELSE w.size
  IN IF w.count = 0 \/ w.m.a.stop # "none" THEN w
     ELSE [m |-> GetBh(got, f, w.off \div Unit), off |-> off, count |-> w.count - remain,
           size |-> size, isize |-> size]

\* One turn of the loop: the part of the write that falls into one cluster.  The return on an error
\* of nvfuse_get_block is not taken: where there is no block left the allocation has stopped already.
WriteCluster(w, f) ==
  LET remain == Least(Unit - (w.off % Unit), w.count)
      got    == IF w.isize <= w.off
                THEN GetBlock(w.m, f, w.isize \div Unit, 1, TRUE).m ELSE w.m
      off    == w.off + remain
      size   == IF off > w.size THEN off ELSE w.size
  IN IF w.count = 0 \/ w.m.a.stop # "none" THEN w
     ELSE [m |-> GetBh(got, f, w.off \div Unit), off |-> off, count |-> w.count - remain,
           size |-> size, isize |-> size]

Capped(m, size) == IF size >= MaxFileSize THEN [m EXCEPT !.a = Stopped(@, "assert_max_size")] ELSE m

WriteFile(d, off, count) ==
  LET f == ft[d].ino
      w == FoldLeft(LAMBDA x, i : WriteCluster(x, f),
                    [m |-> Tree(f), off |-> off, count |-> count, size |-> ft[d].size, isize |-> isize[f]],
                    [i \in 1..(Ceil(count) + 1) |-> i])
  IN /\ Running
     /\ ft[d].used
     /\ Plain("gap") => off <= isize[f]
     /\ off + count <= MaxSize[f]
     /\ Store(f, Capped(w.m, w.isize), w.isize)
     /\ ft' = [ft EXCEPT ![d].size = w.size]
   
\* The blocks of a direct write are allocated before the device is asked to write.
WriteDirect(d, off, count) ==
  LET f == ft[d].ino
      grows == isize[f] <= off
      r == GetBlock(Tree(f), f, isize[f] \div Unit, count \div Unit, TRUE)
      size == IF off + count > ft[d].size THEN off + count ELSE ft[d].size
  IN /\ Running
     /\ ft[d].used
     /\ count % Unit = 0
     /\ Plain("direct") => count = Unit /\ isize[f] % Unit = 0 /\ off % Unit = 0 /\ off <= isize[f]
     /\ off + count <= MaxSize[f]
     /\ IF grows
        THEN Store(f, Capped(r.m, isize[f]), IF r.err THEN isize[f] ELSE isize[f] + count)
        ELSE UNCHANGED <<alloc, root, ind, isize, extent, calls>>
     /\ ft' = [ft EXCEPT ![d].size = IF grows /\ r.err THEN @ ELSE size]
   
\* Every block read must be mapped.
ReadFile(d, off, count) ==
  LET f == ft[d].ino
      to == Least(off + count, isize[f])
      m == FoldLeft(LAMBDA x, lb : GetBh(x, f, lb), Tree(f),
                    [i \in 1..(Ceil(to) - (off \div Unit)) |-> (off \div Unit) + i - 1])
  IN /\ Running
     /\ ft[d].used
     /\ off < isize[f]
     /\ alloc' = m.a
        /\ UNCHANGED <<root, ind, isize, ft, extent, calls>>

\* A direct read beyond the end returns nothing; another one may move the size the descriptor holds.
ReadDirect(d, off, count) ==
  LET end == off + count
  IN /\ Running
     /\ ft[d].used
     /\ count % Unit = 0
     /\ end <= isize[ft[d].ino]
     /\ ft' = [ft EXCEPT ![d].size = IF end > @ THEN end ELSE @]
        /\ UNCHANGED <<alloc, root, ind, isize, extent, calls>>

\* Neither call touches the sizes the descriptors hold.
CutTo(f, size) ==
  /\ Plain("extend") => size <= isize[f]
  /\ Store(f, FreeInodeSize(Tree(f), isize[f], size), size)
  /\ UNCHANGED ft

Truncate(f, size) ==
  /\ Running
  /\ Plain("stale") => Open(f) = {}
  /\ CutTo(f, size)

Ftruncate(d, size) ==
  /\ Running
  /\ ft[d].used
  /\ Plain("stale") => size = ft[d].size
  /\ CutTo(ft[d].ino, size)

\* Blocks are asked for from the cluster of start, as many as length needs, until all of them are
\* there; the file never shrinks.
Fallocate(f, start, length) ==
  LET More(r, i) ==
        IF r.remain = 0 THEN r
        ELSE LET g == GetBlock(r.m, f, r.curr, r.remain, TRUE)
             IN [m |-> g.m, curr |-> r.curr + g.n, remain |-> IF g.n = 0 THEN 0 ELSE r.remain - g.n]
      r == FoldLeft(More, [m |-> Tree(f), curr |-> start \div Unit, remain |-> Ceil(length)],
                    [i \in 1..Ceil(length) |-> i])
      size == IF isize[f] < r.curr * Unit THEN r.curr * Unit ELSE isize[f]
  IN /\ Running
     /\ Plain("stale") => Open(f) = {}
     /\ Plain("gap") => start <= isize[f]
     /\ isize[f] < start + length
     /\ start + length <= MaxSize[f]
     /\ Store(f, Capped(r.m, size), size)
     /\ UNCHANGED ft

Transfer(d) ==
  \E back \in (-Unit)..Back, count \in Counts :
    LET off == isize[ft[d].ino] - back
    IN /\ off >= 0
       /\ \/ WriteFile(d, off, count)
          \/ WriteDirect(d, off, count)
          \/ ReadFile(d, off, count)
          \/ ReadDirect(d, off, count)

Next ==
  \/ \E f \in Files : OpenFile(f)
  \/ \E f \in Files : \E size \in 0..MaxSize[f] : Truncate(f, size)
  \/ \E f \in Files, start \in Starts, length \in Lengths : Fallocate(f, start, length)
  \/ \E d \in Fds : CloseFile(d)
  \/ \E d \in {e \in Fds : ft[e].used} :
       Transfer(d) \/ \E size \in 0..MaxSize[ft[d].ino] : Ftruncate(d, size)

Spec == Init /\ [][Next]_vars

-----------------------------------------------------------------------------
(* Properties.                                                             *)

\* The slots of the tree of f that point to a block.
Slots(f) ==
  {x \in ({Root} \X (0..TIndirect)) \cup ((DOMAIN ind[f]) \X (0..(Ptrs - 1))) :
     Pointers(Tree(f), x[1])[x[2]] # 0}

Pointed(f) == {Pointers(Tree(f), x[1])[x[2]] : x \in Slots(f)}

\* The variables have their types: bitmaps hold data blocks only, the pointers of inodes and
\* indirect blocks are 0 or data blocks.
TypeOK ==
  /\ alloc.bits \in [Bgs -> SUBSET DataOffsets]
  /\ alloc.free \in [Bgs -> 0..DataPerBg]
  /\ alloc.next \in [Bgs -> {0} \cup DataOffsets]
  /\ alloc.hint.bg \in Bgs
  /\ \A f \in Files :
       /\ root[f] \in [0..TIndirect -> {0} \cup Blocks]
       /\ DOMAIN ind[f] \subseteq Blocks
       /\ \A b \in DOMAIN ind[f] : ind[f][b] \in [0..(Ptrs - 1) -> {0} \cup Blocks]
       /\ isize[f] \in Nat
  /\ \A d \in Fds : ft[d].used => ft[d].ino \in Files

\* In plain use no assertion of the block map, the bitmaps or the buffers fails: no bit is cleared
\* twice, no branch is allocated in the middle, every block a read or write needs is mapped.
AssertionsHold == halt \in {"none", "no_space"}

\* A block is marked in a bitmap exactly when the root directory or one pointer of one file owns it:
\* truncation and growth neither leak a block nor free or hand out one that is in use.
BlocksAccounted ==
  halt = "none" =>
    LET owned == {RootBlock} \cup UNION {Pointed(f) : f \in Files}
    IN /\ Cardinality(owned) = 1 + MapThenSumSet(LAMBDA f : Cardinality(Slots(f)), Files)
       /\ owned = UNION {{Block(bg, o) : o \in alloc.bits[bg]} : bg \in Bgs}

\* The counters of a group and of the file system are the number of clear bits.
CountersAgree ==
  halt = "none" =>
    /\ \A bg \in Bgs : alloc.free[bg] = DataPerBg - Cardinality(alloc.bits[bg])
    /\ alloc.sbFree = FoldFunction(LAMBDA x, y : x + y, 0, alloc.free)

\* Bitmaps, counters and the pointers of the files tell the same of every block.
SpaceAccounted == TypeOK /\ BlocksAccounted /\ CountersAgree

\* The logical blocks of a file that are mapped are exactly those below its size: all of them are
\* found through the tree, and the tree points to no other data block.
MappedToSize ==
  halt = "none" =>
    \A f \in Files :
      /\ Len(extent[f]) = Ceil(isize[f])
      /\ Cardinality(Slots(f)) = Len(extent[f]) + Cardinality(DOMAIN ind[f])

\* An indirect block is there only while its first pointer is in use, and every one is pointed to
\* by its file: a cut leaves no empty indirect block behind.
NoEmptyIndirect ==
  halt = "none" =>
    \A f \in Files :
      /\ DOMAIN ind[f] \subseteq Pointed(f)
      /\ \A b \in DOMAIN ind[f] : ind[f][b][0] # 0

\* The tree of a file has the blocks its size needs, data and indirect, and no other.
MapExact == MappedToSize /\ NoEmptyIndirect

Abstract == INSTANCE BlockMap WITH map <- extent

\* The tree of pointers behaves as a sequence of blocks for each file that grows by fresh blocks
\* and is cut at its end, and whose blocks never move.
ImplementsBlockMap == Abstract!Spec
====
