----------------------------- MODULE MCVmalloc -----------------------------
(* Vmalloc with a few pages, frames and page directories. *)
EXTENDS Vmalloc, TLC

CONSTANTS f1, f2, f3, f4, f5, f6, d1

SomeFrames == {f1, f2, f3, f4, f5, f6}
TwoDirs == {kern_pd, d1}

(* A cleared frame, and one full of entries that are present. *)
ClearedOrNot == {[p \in Pages |-> none], [p \in Pages |-> KernelFrame]}

FrameSymmetry == Permutations(Frames)
=============================================================================
