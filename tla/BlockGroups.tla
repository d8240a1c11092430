---- MODULE BlockGroups ----
(***************************************************************************)
(* The block groups of nvfuse: one data bitmap and one descriptor for each *)
(* group, the counters of free blocks, and the hints that say where the    *)
(* next search starts (src/nvfuse_core.c, src/nvfuse_indirect.c).  The     *)
(* module has no variables: an operator maps an allocator state to the     *)
(* next one, and the field "stop" names the assertion that ended it.       *)
(***************************************************************************)
EXTENDS Integers, FiniteSets, SequencesExt

CONSTANTS
  BgNum,         \* sb_bg_num
  BlocksPerBg,   \* sb_no_of_blocks_per_bg
  DtableStart,   \* bd_dtable_start: the metadata blocks of a group come first
  InodesPerBg    \* sb_no_of_inodes_per_bg

ASSUME GroupsAssumption ==
  /\ BgNum \in Nat \ {0}
  /\ BlocksPerBg \in Nat
  /\ DtableStart \in 1..(BlocksPerBg - 1)
  /\ InodesPerBg \in Nat \ {0}

Bgs == 0..(BgNum - 1)

DataOffsets == DtableStart..(BlocksPerBg - 1)

DataPerBg == BlocksPerBg - DtableStart

Block(bg, offset) == bg * BlocksPerBg + offset

Blocks == {Block(bg, o) : bg \in Bgs, o \in DataOffsets}

BgId(b) == b \div BlocksPerBg

\* The one block the root directory has after a format.
RootBlock == DtableStart

\* A descriptor as the formatter makes it: the hint is 0.
MakeBgDescriptor == [free |-> DataPerBg, next |-> 0]

\* Every group gets a descriptor, and the superblock the sum of the free blocks.
FormatWriteBd ==
  [bits |-> [bg \in Bgs |-> {}],
   free |-> [bg \in Bgs |-> MakeBgDescriptor.free],
   next |-> [bg \in Bgs |-> MakeBgDescriptor.next],
   sbFree |-> BgNum * MakeBgDescriptor.free,
   hint |-> [bg |-> 0, ino |-> 0],
   stop |-> "none"]

\* The groups once the root directory has its block.
Formatted ==
  [FormatWriteBd EXCEPT !.bits[0] = {RootBlock}, !.free[0] = @ - 1, !.sbFree = @ - 1]

Stopped(a, why) == IF a.stop = "none" THEN [a EXCEPT !.stop = why] ELSE a

DecFreeBlocks(a, bg, n) ==
  LET b == [a EXCEPT !.free[bg] = @ - n, !.sbFree = @ - n]
  IN IF b.sbFree < 0 THEN Stopped(b, "assert_sb_free") ELSE b

IncFreeBlocks(a, bg, n) ==
  LET b == [a EXCEPT !.free[bg] = @ + n, !.sbFree = @ + n]
  IN IF b.free[bg] > BlocksPerBg \/ b.sbFree > BgNum * BlocksPerBg
     THEN Stopped(b, "assert_max_blocks")
     ELSE b

\* The search starts at the hint; at offset 0 it jumps over the metadata blocks.
ScanOrder(a, bg) ==
  LET from == IF a.next[bg] = 0 THEN DtableStart ELSE a.next[bg]
  IN [i \in 1..DataPerBg |-> DtableStart + ((from - DtableStart + i - 1) % DataPerBg)]

\* The first free blocks the search meets, at most num.
FirstFree(a, bg, num) ==
  LET open == SelectSeq(ScanOrder(a, bg), LAMBDA o : o \notin a.bits[bg])
  IN SubSeq(open, 1, IF num < Len(open) THEN num ELSE Len(open))

\* Variant: the bit of the last block found is not set.
TakeBitsForgetsLast(a, bg, took) ==
  IF took = <<>>
  THEN [a |-> a, blks |-> <<>>]
  ELSE [a |-> DecFreeBlocks([a EXCEPT !.bits[bg] = @ \cup ToSet(Front(took)),
                                      !.next[bg] = Last(took)], bg, Len(took)),
        blks |-> [i \in DOMAIN took |-> Block(bg, took[i])]]

TakeBits(a, bg, took) ==
  IF took = <<>>
  THEN [a |-> a, blks |-> <<>>]
  ELSE [a |-> DecFreeBlocks([a EXCEPT !.bits[bg] = @ \cup ToSet(took),
                                      !.next[bg] = Last(took)], bg, Len(took)),
        blks |-> [i \in DOMAIN took |-> Block(bg, took[i])]]

AllocDbitmap(a, bg, num) == TakeBits(a, bg, FirstFree(a, bg, num))

\* A bit that is already clear is an assertion failure.
FreeDbitmap(a, bg, offset, n) ==
  LET offs == offset..(offset + n - 1)
  IN IF offs \subseteq a.bits[bg]
     THEN IncFreeBlocks([a EXCEPT !.bits[bg] = @ \ offs, !.next[bg] = offset], bg, n)
     ELSE Stopped(a, "assert_cleared")

\* A run of blocks is freed group by group.
FreeBlocks(a, block, n) ==
  LET last == block + n - 1
      InGroup(x, bg) ==
        LET from == IF bg = BgId(block) THEN block % BlocksPerBg ELSE 0
            to   == IF bg = BgId(last) THEN last % BlocksPerBg ELSE BlocksPerBg - 1
        IN FreeDbitmap(x, bg, from, to - from + 1)
  IN FoldLeft(InGroup, a,
              [i \in 1..(BgId(last) - BgId(block) + 1) |-> BgId(block) + i - 1])

\* The home group of the inode, or the group that served this inode last; then the others in turn.
AllocFreeBlock(a, ino, num) ==
  LET start == IF ino = a.hint.ino THEN a.hint.bg ELSE ino \div InodesPerBg
      Got(r, bg, d) ==
        [a |-> [d.a EXCEPT !.hint = [bg |-> bg, ino |-> ino]], blks |-> r.blks \o d.blks]
      FromGroup(r, bg) ==
        IF Len(r.blks) = num \/ r.a.free[bg] = 0
        THEN r
        ELSE Got(r, bg, AllocDbitmap(r.a, bg, num - Len(r.blks)))
      Checked(r) == IF Len(r.blks) = 0 THEN [r EXCEPT !.a = Stopped(@, "no_space")] ELSE r
  IN Checked(FoldLeft(FromGroup, [a |-> a, blks |-> <<>>],
                      [i \in 1..BgNum |-> (start + i - 1) % BgNum]))

\* First the indirect blocks and one data block, then the other data blocks.
AllocFreeBlocks(a, ino, numIndirect, num) ==
  LET Both(first, rest) ==
        IF Len(first.blks) # numIndirect + 1
        THEN [a |-> Stopped(first.a, "no_space"), blks |-> <<>>, direct |-> <<>>]
        ELSE IF Len(rest.blks) # num - 1
        THEN [a |-> Stopped(rest.a, "no_space"), blks |-> <<>>, direct |-> <<>>]
        ELSE [a |-> rest.a, blks |-> first.blks, direct |-> rest.blks]
      Rest(first) ==
        Both(first, IF num = 1 THEN [a |-> first.a, blks |-> <<>>]
                    ELSE AllocFreeBlock(first.a, ino, num - 1))
  IN Rest(AllocFreeBlock(a, ino, numIndirect + 1))
====
