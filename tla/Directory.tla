----------------------------- MODULE Directory -----------------------------
(* Directories of nvfuse_api.c and nvfuse_core.c: the entries in the blocks *)
(* of a directory, its index, the link counts and the position i_ptr, and   *)
(* the calls that create, remove, link, rename and list.                    *)
(*                                                                          *)
(* One thread changes the name space, so a call is one step; a second one   *)
(* lists the root with nvfuse_readdir, one locked step per entry.  A call   *)
(* is an operator on the file system `f`, so that a call that makes others  *)
(* (nvfuse_rename) is their composition.  f.halt names the assertion, the   *)
(* endless loop or the lock that stops the program.                         *)
(*                                                                          *)
(* The index is the map it implements (DirIndex): names have distinct       *)
(* hashes.  An inode that is allocated is any free one.                     *)
EXTENDS Integers, FiniteSets, FiniteSetsExt

CONSTANTS Names, Calls, Inodes, NoIno, Root, RootIndex, EntryNum

\* The calls a behaviour makes: a directory part, "/" or a name, and a name.
ASSUME CallsAssumption == Calls \subseteq ({"/"} \cup Names) \X Names

ASSUME RootsAssumption ==
  Root \in Inodes /\ RootIndex \in Inodes /\ Root # RootIndex /\ NoIno \notin Inodes
ASSUME EntryNumAssumption == EntryNum \in Nat /\ EntryNum >= 3

NoEntry == -1
\* The entries of a directory: d_flag, and for a used entry its name and inode.
\* The data of a file, read as entries, has other values for d_flag.
Empty == [flag |-> "EMPTY"]
Deleted == [flag |-> "DELETED"]
Data == [flag |-> "DATA"]
Used(n, i) == [flag |-> "USED", name |-> n, ino |-> i]
Dot(i) == Used(".", i)
DotDot(i) == Used("..", i)

\* struct nvfuse_inode; i_size counts blocks.
Inode(type, links, ptr, size, bpino) ==
  [type |-> type, links |-> links, ptr |-> ptr, size |-> size, bpino |-> bpino]
FreeInode == Inode("free", 0, 0, 0, NoIno)

VARIABLES fs,    \* the file system
          scan   \* the listing of the root
vars == <<fs, scan>>

\* The file system: inodes, the bytes of their blocks read as entries (a first
\* block that is freed leaves them in its buffer), index of every directory,
\* inodes that an error return left locked, and why the program stopped.
Mounted ==
  [inode |-> [i \in Inodes |->
                IF i = Root THEN Inode("dir", 2, 1, 1, RootIndex)
                ELSE IF i = RootIndex THEN Inode("index", 1, 0, 1, NoIno) ELSE FreeInode],
   ent |-> [i \in Inodes |-> IF i = Root
              THEN [s \in 0 .. EntryNum - 1 |->
                      IF s = 0 THEN Dot(i) ELSE IF s = 1 THEN DotDot(i) ELSE Empty]
              ELSE [s \in 0 .. EntryNum - 1 |-> Empty]],
   index |-> [i \in Inodes |-> [n \in Names |-> NoEntry]],
   held |-> {}, halt |-> "no"]

Stop(f, why) == [f EXCEPT !.halt = why]
\* The rest of a call, when the part before it returned.
Then(f, Rest(_)) == IF f.halt = "no" THEN Rest(f) ELSE f
\* nvfuse_read_inode of an inode whose lock was never released does not return.
Locked(f, i) == i \in f.held
\* nvfuse_dir_is_invalid.
Invalid(e) == e.flag \in {"EMPTY", "DELETED"}
Slots(f, d) == 0 .. f.inode[d].size * EntryNum - 1
---------------------------------------------------------------------------
(* The index of a directory: nvfuse_set_, get_ and del_dir_indexing.        *)

SetDirIndexing(f, d, n, e) ==
  IF f.inode[d].bpino = NoIno THEN Stop(f, "assert_bpino")
  ELSE IF Locked(f, f.inode[d].bpino) THEN Stop(f, "hang")
  ELSE [f EXCEPT !.index[d][n] = IF @ = NoEntry THEN e ELSE 0]

\* A name that is not in the index keeps the index inode locked.
DelDirIndexing(f, d, n) ==
  IF f.inode[d].bpino = NoIno THEN Stop(f, "assert_bpino")
  ELSE IF Locked(f, f.inode[d].bpino) THEN Stop(f, "hang")
  ELSE IF n \notin Names \/ f.index[d][n] = NoEntry
  THEN [f EXCEPT !.held = @ \cup {f.inode[d].bpino}]
  ELSE [f EXCEPT !.index[d][n] = NoEntry]

\* Why a read of the index stops, or "no".
IndexStops(f, d) ==
  IF f.inode[d].bpino = NoIno THEN "assert_bpino"
  ELSE IF Locked(f, f.inode[d].bpino) THEN "hang" ELSE "no"

\* nvfuse_find_existing_dentry: the entry of a name, or -1.
FindExistingDentry(f, d, n) ==
  LET from == IF f.index[d][n] = NoEntry THEN 0 ELSE f.index[d][n]
      match == {s \in Slots(f, d) : s >= from /\ f.ent[d][s].flag = "USED" /\ f.ent[d][s].name = n}
  IN IF match = {} THEN -1 ELSE Min(match)

\* nvfuse_find_empty_dentry: from the entry after the last used one to the
\* end of its block and round, then block by block; a new block if all is full.
FindEmptyDentry(f, d) ==
  LET i == f.inode[d]
      total == i.size * EntryNum
      blk == (i.links - 1) \div EntryNum
      nxt == i.links % EntryNum
      After(s) == ((s \div EntryNum - blk) % i.size) * EntryNum
                  + (IF s \div EntryNum = blk THEN (s - nxt) % EntryNum ELSE s % EntryNum)
      free == {s \in Slots(f, d) : Invalid(f.ent[d][s])}
  IN IF total = i.links \/ free = {}
     THEN [slot |-> total,
           f |-> [f EXCEPT !.inode[d].size = @ + 1,
                           !.ent[d] = [s \in 0 .. total + EntryNum - 1 |->
                                         IF s < total THEN @[s] ELSE Empty]]]
     ELSE [slot |-> CHOOSE s \in free : \A t \in free : After(s) <= After(t), f |-> f]
---------------------------------------------------------------------------
(* Lookup.                                                                  *)

\* nvfuse_lookup_bptree and nvfuse_lookup_linear: the inode of a name, NoIno
\* when there is none.  The linear search does not advance.
LookupStops(f, d, n) ==
  LET e == f.index[d][n]
  IN IF Locked(f, d) THEN "hang"
     ELSE IF f.inode[d].bpino = NoIno THEN "no"
     ELSE IF IndexStops(f, d) # "no" THEN IndexStops(f, d)
     ELSE IF e = NoEntry THEN "no"
     ELSE IF e = 0 THEN "loop"
     ELSE IF e \notin Slots(f, d) THEN "assert_pno"
     ELSE IF f.ent[d][e].flag # "USED" \/ f.ent[d][e].name # n THEN "assert_bptree" ELSE "no"

\* nvfuse_lookup: what it finds when it returns.
Lookup(f, d, n) ==
  IF f.inode[d].bpino = NoIno \/ f.index[d][n] = NoEntry THEN NoIno
  ELSE LET e == f.index[d][n] IN IF e \in Slots(f, d) /\ ~Invalid(f.ent[d][e]) THEN f.ent[d][e].ino ELSE NoIno

\* A call that looks a name up first: it stops there, or goes on with the
\* inode found.
WithLookup(f, d, n, Rest(_)) ==
  LET why == LookupStops(f, d, n) IN IF why # "no" THEN Stop(f, why) ELSE Rest(Lookup(f, d, n))
---------------------------------------------------------------------------
(* Creation.                                                                *)

FreeInodes(f) == {i \in Inodes : f.inode[i].type = "free"}

\* nvfuse_make_first_directory: the first block is taken without clearing
\* it; `left` says that the buffer still has the bytes of whatever had the
\* inode number before, a directory or a file.
MakeFirstDirectory(f, d, left) ==
  IF f.inode[d].size # 0 THEN Stop(f, "assert_size")
  ELSE [f EXCEPT !.inode[d].size = 1,
                 !.ent[d] = [s \in 0 .. EntryNum - 1 |->
                   IF s = 0 THEN Dot(d) ELSE IF s = 1 THEN DotDot(d)
                   ELSE IF left THEN @[s] ELSE Empty]]

\* nvfuse_create_bptree with the inode b; none left fails an assertion.  The
\* first block of the index is cleared; what is written to it afterwards, its
\* header and bitmap, ends before the third entry.
CreateBptree(f, d, b) ==
  IF b \notin FreeInodes(f) THEN Stop(f, "assert_inodes")
  ELSE [f EXCEPT !.inode[d].bpino = b, !.inode[b] = Inode("index", 1, 0, 1, NoIno),
                 !.ent[b] = [s \in 0 .. EntryNum - 1 |-> Empty],
                 !.index[d] = [n \in Names |-> NoEntry]]

\* A new entry at slot s for the new inode i.
AddEntry(f, d, n, s, i, new) ==
  LET f1 == [f EXCEPT !.inode[d].links = @ + 1, !.inode[d].ptr = s]
      f2 == [f1 EXCEPT !.inode[i] = new, !.ent[d][s] = Used(n, i)]
  IN IF f1.inode[d].links # s + 1 THEN Stop(f1, "assert_links")
     ELSE IF i \notin FreeInodes(f1) THEN Stop(f1, "assert_inodes")
     ELSE SetDirIndexing(f2, d, n, s)

\* The common part of nvfuse_createfile and nvfuse_mkdir: c has the inodes
\* the allocations return and what is left in the first block.
CreateIn(f, d, n, new, c) ==
  LET first == f.inode[d].links = 2 /\ f.inode[d].bpino = NoIno
      g1 == IF first THEN MakeFirstDirectory(f, d, c.left) ELSE f
      Entry(g) == LET e == FindEmptyDentry(g, d)
                      g2 == IF first THEN CreateBptree(e.f, d, c.bp) ELSE e.f
                      Add(h) == AddEntry(h, d, n, e.slot, c.ino, new)
                  IN Then(g2, Add)
  IN Then(g1, Entry)

\* nvfuse_createfile.
CreateFile(f, d, n, c) ==
  IF Locked(f, d) THEN Stop(f, "hang") ELSE CreateIn(f, d, n, Inode("file", 1, 0, 0, NoIno), c)

\* nvfuse_mkdir: an existing name is no error to the caller.
MkDir(f, d, n, c) ==
  LET Rest(i) == IF i # NoIno THEN f
                 ELSE IF f.inode[d].ptr + 1 # f.inode[d].links THEN Stop(f, "assert_links")
                 ELSE CreateIn(f, d, n, Inode("dir", 2, 1, 0, NoIno), c)
  IN WithLookup(f, d, n, Rest)

\* nvfuse_mknod creates a file, under a name that is new.
MkNod(f, d, n, c) ==
  LET Rest(i) == IF i # NoIno THEN f ELSE CreateFile(f, d, n, c) IN WithLookup(f, d, n, Rest)

\* nvfuse_writefile to the first block of file i.  Where the caller's bytes do
\* not cover the block, it is read from the device, and a new block is not
\* cleared there: any of the entries may look used.  The blocks of a file are
\* not counted here (see FileMap).
WriteFile(f, i, used) ==
  [f EXCEPT !.ent[i] = [s \in 0 .. EntryNum - 1 |-> IF s \in used THEN Data ELSE Empty]]

\* nvfuse_symlink: a file with the path as its data.
SymLink(f, d, n, c) ==
  LET Write(g) == WriteFile(g, c.ino, c.used)
      Rest(i) == IF i # NoIno THEN f ELSE Then(CreateFile(f, d, n, c), Write)
  IN WithLookup(f, d, n, Rest)

\* nvfuse_openfile with O_CREAT: opening a directory leaves it locked.
OpenFile(f, d, n, c) ==
  LET Rest(i) == IF i = NoIno THEN CreateFile(f, d, n, c)
                 ELSE IF Locked(f, i) THEN Stop(f, "hang")
                 ELSE IF f.inode[i].type # "file" THEN [f EXCEPT !.held = @ \cup {i}]
                 ELSE f
  IN WithLookup(f, d, n, Rest)
---------------------------------------------------------------------------
(* Removal.                                                                 *)

\* Variant: the index keeps the old place of the entry that moved.
ShrinkDentryNoIndex(f, d, to, from) ==
  IF to >= from THEN f
  ELSE [f EXCEPT !.ent[d] = [@ EXCEPT ![to] = f.ent[d][from], ![from] = Deleted]]

\* nvfuse_shrink_dentry: the last entry moves into the hole.
ShrinkDentry(f, d, to, from) ==
  LET moved == f.ent[d][from]
      name == IF moved.flag = "USED" THEN moved.name ELSE "none"
      f1 == [f EXCEPT !.ent[d] = [@ EXCEPT ![to] = moved, ![from] = Deleted]]
      Set(g) == SetDirIndexing(g, d, name, to)
  IN IF to = from THEN f
     ELSE IF to > from THEN Stop(f, "assert_shrink")
     ELSE IF from \notin Slots(f, d) THEN Stop(f, "assert_pno")
     ELSE IF moved.flag = "DELETED" \/ f.ent[d][to].flag # "DELETED" THEN Stop(f, "assert_shrink")
     ELSE Then(DelDirIndexing(f1, d, name), Set)

\* The last block is freed when no entry is left in it.
FreeLastBlock(f, d) ==
  LET size == f.inode[d].size - 1
  IN IF f.inode[d].links % EntryNum # 0 THEN f
     ELSE [f EXCEPT !.inode[d].size = size,
                    !.ent[d] = [s \in 0 .. Max({size, 1}) * EntryNum - 1 |-> @[s]]]

\* nvfuse_free_inode_size to nothing: the bytes of the first block, entries or
\* data, stay in its buffer (the first two entries are never read again).
FreeInodeSize(f, i) ==
  [f EXCEPT !.inode[i].size = 0,
            !.ent[i] = [s \in 0 .. EntryNum - 1 |-> IF s < 2 THEN Empty ELSE @[s]]]

\* nvfuse_relocate_delete_inode.
RelocateDeleteInode(f, i) == [f EXCEPT !.inode[i] = FreeInode]
DeleteInode(f, i) == RelocateDeleteInode(FreeInodeSize(f, i), i)

\* Why the program stops before it has entry e, or "no": -1 is an entry far
\* beyond the directory, as the code keeps it in an unsigned number.
EntryStops(f, d, e) ==
  LET why == IF Locked(f, d) THEN "hang" ELSE IndexStops(f, d)
  IN IF why # "no" THEN why
     ELSE IF e = -1 THEN "assert_pno"
     ELSE IF Locked(f, f.ent[d][e].ino) THEN "hang" ELSE "no"

\* The rest of a call that needs the entry of n.
WithEntry(f, d, n, Rest(_)) ==
  LET Go(e, why) == IF why = "no" THEN Rest(e) ELSE Stop(f, why)
      At(e) == Go(e, EntryStops(f, d, e))
  IN At(FindExistingDentry(f, d, n))

\* Variant: i_ptr is not moved back.
DropEntryKeepsPtr(f, d, e) ==
  LET links == f.inode[d].links - 1
      f1 == [f EXCEPT !.inode[d].links = links, !.ent[d][e] = Deleted]
      Free(g) == FreeLastBlock(g, d)
  IN Then(ShrinkDentry(f1, d, e, links), Free)

\* Variant: the hole stays.
DropEntryLeavesHole(f, d, e) ==
  LET links == f.inode[d].links - 1
  IN [f EXCEPT !.inode[d].links = links, !.inode[d].ptr = links - 1, !.ent[d][e] = Deleted]

\* The directory loses entry e: links, i_ptr, the flag, and the entry that
\* nvfuse_shrink_dentry moves into the hole.
DropEntry(f, d, e) ==
  LET links == f.inode[d].links - 1
      f1 == [f EXCEPT !.inode[d].links = links, !.inode[d].ptr = links - 1, !.ent[d][e] = Deleted]
      Free(g) == FreeLastBlock(g, d)
  IN Then(ShrinkDentry(f1, d, e, links), Free)

\* nvfuse_rmfile: its error returns leave both inodes locked.
RmFile(f, d, n) ==
  LET Rest(e) ==
        LET i == f.ent[d][e].ino
            f1 == DelDirIndexing(f, d, n)
            f2 == IF f1.inode[i].links = 1 THEN DeleteInode(f1, i)
                  ELSE [f1 EXCEPT !.inode[i].links = @ - 1]
        IN IF f.inode[i].type # "file" THEN [f EXCEPT !.held = @ \cup {d, i}]
           ELSE IF f1.halt # "no" THEN f1 ELSE DropEntry(f2, d, e)
  IN WithEntry(f, d, n, Rest)

\* Variant: the inode of the index is not freed.
RmDirKeepsIndex(f, d, n) ==
  LET Rest(e) ==
        LET i == f.ent[d][e].ino
            f1 == DelDirIndexing(f, d, n)
        IN IF f.inode[i].type # "dir" \/ f.inode[i].links > 2 THEN [f EXCEPT !.held = @ \cup {d, i}]
           ELSE IF f1.halt # "no" THEN f1 ELSE DropEntry(DeleteInode(f1, i), d, e)
  IN WithEntry(f, d, n, Rest)

\* Variant: a directory that has entries is removed too.
RmDirAnyLinks(f, d, n) ==
  LET Rest(e) ==
        LET i == f.ent[d][e].ino
            b == f.inode[i].bpino
            f1 == DelDirIndexing(f, d, n)
            f2 == IF b = NoIno THEN f1 ELSE DeleteInode(f1, b)
        IN IF f.inode[i].type # "dir" THEN [f EXCEPT !.held = @ \cup {d, i}]
           ELSE IF f1.halt # "no" THEN f1
           ELSE IF Locked(f, b) THEN Stop(f1, "hang") ELSE DropEntry(DeleteInode(f2, i), d, e)
  IN WithEntry(f, d, n, Rest)

\* nvfuse_rmdir, of an empty directory.
RmDir(f, d, n) ==
  LET Rest(e) ==
        LET i == f.ent[d][e].ino
            b == f.inode[i].bpino
            f1 == DelDirIndexing(f, d, n)
            f2 == IF b = NoIno THEN f1 ELSE DeleteInode(f1, b)
        IN IF f.inode[i].type # "dir" \/ f.inode[i].links > 2 THEN [f EXCEPT !.held = @ \cup {d, i}]
           ELSE IF f1.halt # "no" THEN f1
           ELSE IF Locked(f, b) THEN Stop(f1, "hang") ELSE DropEntry(DeleteInode(f2, i), d, e)
  IN WithEntry(f, d, n, Rest)
---------------------------------------------------------------------------
(* Hard links and renaming.                                                 *)

\* nvfuse_link: the new entry is written at i_ptr, the last entry in use.
LinkName(f, d, n, i) ==
  LET Rest(found) ==
        LET g == FindEmptyDentry(f, d).f
            s == f.inode[d].ptr
            f1 == [g EXCEPT !.inode[d].links = @ + 1]
            f2 == [f1 EXCEPT !.inode[i].links = @ + 1, !.ent[d][s] = Used(n, i)]
        IN IF found # NoIno THEN f
           ELSE IF i = NoIno \/ Locked(f, i) \/ i = d THEN Stop(f1, "hang")
           ELSE IF s \notin Slots(f1, d) THEN Stop(f1, "assert_pno")
           ELSE SetDirIndexing(f2, d, n, s)
  IN WithLookup(f, d, n, Rest)

\* nvfuse_hardlink.
HardLink(f, d, n, d2, n2) ==
  LET Rest(i) == IF i = NoIno THEN f ELSE LinkName(f, d2, n2, i)
  IN WithLookup(f, d, n, Rest)

\* nvfuse_rm_direntry: the entry goes, the directory's counts stay.
RmDirentry(f, d, n) ==
  LET Rest(e) ==
        LET i == f.ent[d][e].ino
            f1 == [f EXCEPT !.inode[i].links = @ - 1, !.ent[d][e] = Deleted]
        IN IF f.inode[i].type = "free" THEN [f EXCEPT !.held = @ \cup {d, i}]
           ELSE DelDirIndexing(f1, d, n)
  IN WithEntry(f, d, n, Rest)

\* nvfuse_rename: an existing target is removed first.
Rename(f, d, n, d2, n2) ==
  LET ino == f.ent[d][FindExistingDentry(f, d, n)].ino
      Clear(g) == LET Rest(i) == IF i = NoIno THEN g
                                 ELSE IF Locked(g, i) THEN Stop(g, "hang")
                                 ELSE IF g.inode[i].type = "dir" THEN RmDir(g, d2, n2)
                                 ELSE RmFile(g, d2, n2)
                  IN WithLookup(g, d2, n2, Rest)
      Add(g) == LinkName(g, d2, n2, ino)
  IN Then(Then(RmDirentry(f, d, n), Clear), Add)
---------------------------------------------------------------------------
(* A listing: the offset, the names reported and not removed since, and the *)
(* names it still owes: those there at its start, if none is removed.       *)

NoScan == [on |-> FALSE, off |-> 0, seen |-> {}, due |-> {}]
ScanMinus(n) == [scan EXCEPT !.seen = @ \ {n}, !.due = {}]
---------------------------------------------------------------------------
(* The calls.  A path is a name in the root, or in a directory of the root. *)

\* nvfuse_path_resolve: the directories a path may lead to.
PathDir(p) == IF p = "/" THEN Root ELSE Lookup(fs, Root, p)
PathStops(p) == IF p = "/" THEN "no" ELSE LookupStops(fs, Root, p)
Resolves(p) ==
  /\ fs.halt = "no" /\ PathStops(p) = "no"
  /\ PathDir(p) # NoIno /\ fs.inode[PathDir(p)].type = "dir"
Paths == {c[1] : c \in Calls}
\* The entries that the data of a file may make look used: only those after
\* "." and ".." matter.
DataSlots == SUBSET (2 .. EntryNum - 1)
ShowsData == \E i \in Inodes, s \in 2 .. EntryNum - 1 : fs.ent[i][s] = Data

\* The bounds on a behaviour: one call returns with inodes locked, the data of
\* one file at a time looks like entries, and such data, locked inodes and a
\* listing of the root, which none of them changes, are not combined.
Bounded ==
  /\ fs.held # {} => fs'.held = fs.held
  /\ ~(ShowsData /\ fs.held # {})' /\ ~(ShowsData /\ scan.on)' /\ ~(fs.held # {} /\ scan.on)'

\* What the allocations of a creation in d may return.
Picks(d, n) ==
  LET free == FreeInodes(fs)
      One(s) == IF s = {} THEN {NoIno} ELSE s
      first == fs.inode[d].links = 2 /\ fs.inode[d].bpino = NoIno
  IN IF Lookup(fs, d, n) # NoIno \/ LookupStops(fs, d, n) # "no"
     THEN {[bp |-> NoIno, ino |-> NoIno, left |-> FALSE]}
     ELSE IF ~first THEN {[bp |-> NoIno, ino |-> i, left |-> FALSE] : i \in One(free)}
     ELSE UNION {{[bp |-> b, ino |-> i, left |-> l] : i \in One(free \ {b}), l \in BOOLEAN} :
                   b \in One(free)}

Create(p, n, Op(_, _, _, _)) ==
  /\ Resolves(p)
  /\ \E c \in Picks(PathDir(p), n) : fs' = Op(fs, PathDir(p), n, c)
  /\ UNCHANGED scan

OpenFilePath(p, n) == Create(p, n, OpenFile)
MkNodPath(p, n) == Create(p, n, MkNod)
MkDirPath(p, n) == Create(p, n, MkDir)
SymLinkPath(p, n) ==
  \E used \in DataSlots :
    LET Op(f, d, m, c) == SymLink(f, d, m, [bp |-> c.bp, ino |-> c.ino, left |-> c.left, used |-> used])
    IN Create(p, n, Op)

\* A file that is open is written to.
WriteFilePath(p, n) ==
  /\ Resolves(p) /\ LookupStops(fs, PathDir(p), n) = "no"
  /\ LET i == Lookup(fs, PathDir(p), n)
     IN /\ i # NoIno /\ fs.inode[i].type = "file" /\ ~Locked(fs, i)
        /\ \E used \in DataSlots : fs' = WriteFile(fs, i, used)
  /\ UNCHANGED scan

Remove(p, n, Op(_, _, _)) ==
  /\ Resolves(p)
  /\ fs' = Op(fs, PathDir(p), n)
  /\ scan' = IF p = "/" THEN ScanMinus(n) ELSE scan

RmFilePath(p, n) == Remove(p, n, RmFile)
RmDirPath(p, n) == Remove(p, n, RmDir)

\* A path with "." in it: nvfuse_get_dir_indexing returns early, with the
\* inode of the index locked, and the linear search matches the first entry.
LookupDot(p) ==
  /\ Resolves(p) /\ fs.inode[PathDir(p)].bpino # NoIno
  /\ fs' = LET d == PathDir(p) IN
           IF Locked(fs, d) \/ Locked(fs, fs.inode[d].bpino) THEN Stop(fs, "hang")
           ELSE [fs EXCEPT !.held = @ \cup {fs.inode[d].bpino}]
  /\ UNCHANGED scan

ResolveStops(p) ==
  /\ fs.halt = "no" /\ PathStops(p) # "no"
  /\ fs' = Stop(fs, PathStops(p))
  /\ UNCHANGED scan

HardLinkPath(p, n, p2, n2) ==
  /\ Resolves(p) /\ Resolves(p2)
  /\ fs' = HardLink(fs, PathDir(p), n, PathDir(p2), n2)
  /\ UNCHANGED scan

RenamePath(p, n, p2, n2) ==
  /\ Resolves(p) /\ Resolves(p2)
  /\ fs' = Rename(fs, PathDir(p), n, PathDir(p2), n2)
  /\ scan' = IF p = "/" THEN ScanMinus(n) ELSE scan
---------------------------------------------------------------------------
(* nvfuse_opendir and nvfuse_readdir on the root, by another thread.        *)

Entries(f, d) == {s \in Slots(f, d) : f.ent[d][s].flag = "USED" /\ f.ent[d][s].name \in Names}
EntryNames(f, d) == {f.ent[d][s].name : s \in Entries(f, d)}
ScanStart ==
  /\ fs.halt = "no" /\ ~scan.on
  /\ scan' = [NoScan EXCEPT !.on = TRUE, !.due = EntryNames(fs, Root)]
  /\ UNCHANGED fs

\* The entry at the offset is reported, or the listing ends: at the end of
\* the blocks or at an invalid entry.
ScanNext ==
  LET more == scan.off \in Slots(fs, Root) /\ ~Invalid(fs.ent[Root][scan.off])
      e == fs.ent[Root][scan.off]
  IN /\ fs.halt = "no" /\ scan.on /\ ~Locked(fs, Root)
     /\ more => ~Locked(fs, e.ino)
     /\ scan' = IF more
                THEN [scan EXCEPT !.off = @ + 1, !.seen = @ \cup {e.name}, !.due = @ \ {e.name}]
                ELSE NoScan
     /\ UNCHANGED fs

Init == fs = Mounted /\ scan = NoScan

Next ==
  /\ \/ \E c \in Calls :
          \/ OpenFilePath(c[1], c[2]) \/ MkNodPath(c[1], c[2])
          \/ MkDirPath(c[1], c[2]) \/ SymLinkPath(c[1], c[2]) \/ WriteFilePath(c[1], c[2])
          \/ RmFilePath(c[1], c[2]) \/ RmDirPath(c[1], c[2])
     \/ \E p \in Paths : LookupDot(p) \/ ResolveStops(p)
     \/ ScanStart \/ ScanNext
  /\ Bounded
Spec == Init /\ [][Next]_vars

\* With the calls that go through nvfuse_link.
NextLinks ==
  \/ Next
  \/ \E c, e \in Calls : HardLinkPath(c[1], c[2], e[1], e[2]) \/ RenamePath(c[1], c[2], e[1], e[2])
SpecLinks == Init /\ [][NextLinks]_vars
---------------------------------------------------------------------------
Dirs == {i \in Inodes : fs.inode[i].type = "dir"}
Sound(d) == fs.halt = "no" /\ d \notin fs.held

\* Every inode, entry and index item has a value of its kind.
TypeOK ==
  /\ \A i \in Inodes :
       /\ fs.inode[i].type \in {"free", "file", "dir", "index"}
       /\ fs.inode[i].links \in Nat /\ fs.inode[i].size \in Nat
       /\ fs.inode[i].ptr \in Nat /\ fs.inode[i].bpino \in Inodes \cup {NoIno}
       /\ fs.index[i] \in [Names -> Nat \cup {NoEntry}]
       /\ DOMAIN fs.ent[i] = 0 .. Max({fs.inode[i].size, 1}) * EntryNum - 1
  /\ fs.held \subseteq Inodes

\* The first block of d was that of a removed file, whose data it still shows.
Inherited(d) == \E s \in Slots(fs, d) : fs.ent[d][s] = Data

\* The assertions on the entries nvfuse_shrink_dentry moves, on a first block,
\* and on what the B+tree leads nvfuse_lookup_bptree to never fail; no lookup
\* goes to the linear search, which would not end.  The assertions that i_ptr
\* is the last entry (nvfuse_createfile, nvfuse_mkdir) fail, but only in a
\* directory whose first block nvfuse_make_first_directory took over from a
\* removed file: what a removed directory or index leaves there does no harm.
AssertionsHold ==
  /\ fs.halt \notin {"assert_shrink", "assert_bptree", "assert_size", "loop"}
  /\ fs.halt = "assert_links" =>
       \A d \in Dirs : fs.inode[d].ptr + 1 # fs.inode[d].links => Inherited(d)

\* The entries of a directory are dense: the first i_links_count slots are in
\* use and no other, the blocks are as few as hold them, and i_ptr is the last.
\* nvfuse_readdir, nvfuse_find_empty_dentry and nvfuse_shrink_dentry rely on it.
\* Where a directory shows the data of a removed file, that data is in the way
\* behind the entries, and everything else is as in any other directory.
Dense ==
  fs.halt = "no" =>
    \A d \in Dirs : LET i == fs.inode[d] IN
      /\ i.ptr = i.links - 1
      /\ i.size > 0 => /\ \A s \in Slots(fs, d) :
                            IF s < i.links THEN fs.ent[d][s].flag = "USED"
                            ELSE Invalid(fs.ent[d][s]) \/ fs.ent[d][s] = Data
                       /\ (i.size - 1) * EntryNum < i.links /\ i.links <= i.size * EntryNum
      /\ i.size = 0 => i.links = 2 /\ i.bpino = NoIno

\* The index of a directory maps exactly the names of its entries to them:
\* nvfuse_lookup finds what nvfuse_readdir lists, and nothing else.
IndexAgrees ==
  fs.halt = "no" =>
    \A d \in Dirs, n \in Names :
      (IF fs.inode[d].bpino = NoIno THEN {} ELSE {fs.index[d][n]} \ {NoEntry})
      = {s \in Entries(fs, d) : fs.ent[d][s].name = n}

\* What creation, removal, lookup and listing take for granted of a directory:
\* its entries are dense and its index agrees with them.
EntriesSound == TypeOK /\ Dense /\ IndexAgrees

\* An inode that is in use is the root, or is named by exactly one entry of a
\* directory, or is the index of exactly one; an entry names no free inode.
\* Removal frees a directory's index with it, and creation leaks nothing.
InodesAccounted ==
  fs.halt = "no" =>
    \A i \in Inodes :
      Cardinality({e \in Dirs \X (0 .. fs.inode[Root].size * EntryNum) :
                     e[2] \in Entries(fs, e[1]) /\ fs.ent[e[1]][e[2]].ino = i})
      + Cardinality({d \in Dirs : fs.inode[d].bpino = i})
      = IF i = Root \/ fs.inode[i].type = "free" THEN 0 ELSE 1

\* A listing of the root reports no name twice, unless the name was removed
\* meanwhile (nvfuse_shrink_dentry only moves entries towards the front), and
\* one during which nothing was removed reports every name that was there when
\* it began, whatever was created meanwhile.
ScanExact ==
  [][/\ scan'.off = scan.off + 1 => scan'.seen # scan.seen
     /\ scan.on /\ ~scan'.on => scan.due = {}]_vars

\* The name space that lookups see.
Seen ==
  LET all == {<<d, n, Lookup(fs, d, n)>> : d \in Dirs, n \in Names}
  IN {[dir |-> x[1], name |-> x[2], ino |-> x[3], kind |-> fs.inode[x[3]].type] :
        x \in {y \in all : y[3] # NoIno}}
NS == INSTANCE Namespace WITH tree <- Seen

\* The directories implement a name space in which a call adds one new name,
\* removes one file or empty directory, or changes nothing.
ImplementsNamespace == NS!Spec
=============================================================================
