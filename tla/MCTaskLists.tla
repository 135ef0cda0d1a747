---------------------------- MODULE MCTaskLists ----------------------------
(***************************************************************************)
(* The lists that run through the TCBs: the scheduler's queues and the     *)
(* sibling lists of the task tree.  They use different fields of a TCB, so *)
(* each is explored by itself; `which', chosen at the start, tells which.  *)
(***************************************************************************)
EXTENDS TaskQueueList

CONSTANTS t1, t2, t3, t4, Parents

ASSUME ParentsAssumption == NULL \notin Parents

FourTasks == {t1, t2, t3, t4}

VARIABLES first_child, last_child, prev_sibling, next_sibling, parent, which

treeVars == <<first_child, last_child, prev_sibling, next_sibling, parent>>

Tree == INSTANCE ChildList WITH Children <- Tasks

MCInit == Init /\ Tree!Init /\ which \in {"queues", "tree"}

MCNext ==
    \/ which = "queues" /\ Next /\ UNCHANGED <<treeVars, which>>
    \/ which = "tree" /\ Tree!Next /\ UNCHANGED <<vars, which>>

MCSpec == MCInit /\ [][MCNext]_<<vars, treeVars, which>>

(* No child is linked to a TCB that was freed. *)
NoFreedSibling == Tree!NoFreedSibling

(* The sibling lists implement sequences. *)
ImplementsLists == Tree!ImplementsLists
=============================================================================
