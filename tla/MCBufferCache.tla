--------------------------- MODULE MCBufferCache ---------------------------
(* BufferCache with the flush scheduled fairly: the thread that flushes    *)
(* runs on, and the device completes the writes it was given.              *)
EXTENDS BufferCache, TLC

FairSpec ==
  Spec /\ \A t \in Threads : WF_vars(pc[t] # "idle" /\ Flush(t))

\* The buffers are interchangeable.
BcSymmetry == Permutations(Bcs)
=============================================================================
