----------------------------- MODULE Namespace -----------------------------
(* What the directory calls of nvfuse promise: a tree of names.  An entry   *)
(* of `tree` is a name in a directory, with the inode it names.             *)
EXTENDS FiniteSets

CONSTANTS Names, Inodes, Root

VARIABLE tree

Kinds == {"file", "dir"}
Directories(t) == {Root} \cup {e.ino : e \in {x \in t : x.kind = "dir"}}
InUse(t) == {Root} \cup {e.ino : e \in t}

Init == tree = {}

\* A name that is new to its directory, for an inode that is not in use.
MayAdd(t, e) ==
  /\ e \in [dir : Directories(t), name : Names, ino : Inodes \ InUse(t), kind : Kinds]
  /\ \A x \in t : ~(x.dir = e.dir /\ x.name = e.name)

\* A file, or a directory with nothing in it.
MayDrop(t, e) == e \in t /\ \A x \in t : x.dir # e.ino

Next ==
  LET old == tree
      new == tree'
  IN \/ \E e \in new \ old : new = old \cup {e} /\ MayAdd(old, e)
     \/ \E e \in old \ new : new = old \ {e} /\ MayDrop(old, e)
Spec == Init /\ [][Next]_tree
=============================================================================
