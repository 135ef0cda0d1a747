---------------------------- MODULE MCAllocators ----------------------------
(***************************************************************************)
(* The allocators below vmalloc: physical frames (pmm.c) and the chunks of *)
(* a heap (kmalloc.c, libc's malloc.c).  They share no state, so each is   *)
(* explored by itself; `which', chosen at the start, tells which.          *)
(***************************************************************************)
EXTENDS Pmm, Malloc

VARIABLE which

MCInit == pmm_init /\ Init /\ which \in {"frames", "chunks"}

MCNext ==
    \/ which = "frames" /\ PmmNext /\ UNCHANGED <<vars, which>>
    \/ which = "chunks" /\ Next /\ UNCHANGED <<pmm_vars, which>>

MCSpec == MCInit /\ [][MCNext]_<<pmm_vars, vars, which>>
=============================================================================
