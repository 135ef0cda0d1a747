----------------------------- MODULE ChildList -----------------------------
(***************************************************************************)
(* The task tree as task.c keeps it: each task has first_child and         *)
(* last_child, and its children are linked through prev_sibling and        *)
(* next_sibling.  There is no counter, and _remove_child leaves the links  *)
(* of the removed child alone: its TCB is about to be freed.               *)
(*                                                                         *)
(* A definition mut_... is a faulty variant of one that follows it, used   *)
(* only to show that the properties notice the fault.                      *)
(***************************************************************************)
EXTENDS Integers, FiniteSets, Sequences

CONSTANTS
    Parents,    \* tasks that fork and do not end here
    Children,   \* addresses of their children's TCBs
    NULL

VARIABLES
    first_child, last_child,        \* of the parents
    prev_sibling, next_sibling,     \* of the children
    parent                          \* NULL: no TCB at this address

vars == <<first_child, last_child, prev_sibling, next_sibling, parent>>

Init ==
    /\ first_child = [p \in Parents |-> NULL]
    /\ last_child = [p \in Parents |-> NULL]
    /\ prev_sibling = [c \in Children |-> NULL]
    /\ next_sibling = [c \in Children |-> NULL]
    /\ parent = [c \in Children |-> NULL]

mut_add_child_prev(p, c) ==
    /\ parent[c] = NULL
    /\ parent' = [parent EXCEPT ![c] = p]
    /\ last_child' = [last_child EXCEPT ![p] = c]
    /\ prev_sibling' = [prev_sibling EXCEPT ![c] = NULL]
    /\ IF first_child[p] = NULL
       THEN /\ first_child' = [first_child EXCEPT ![p] = c]
            /\ next_sibling' = [next_sibling EXCEPT ![c] = NULL]
       ELSE /\ next_sibling' = [next_sibling EXCEPT ![last_child[p]] = c, ![c] = NULL]
            /\ UNCHANGED first_child

(* task_new: the TCB is cleared, then _add_child links it behind its siblings. *)
_add_child(p, c) ==
    /\ parent[c] = NULL
    /\ parent' = [parent EXCEPT ![c] = p]
    /\ last_child' = [last_child EXCEPT ![p] = c]
    /\ IF first_child[p] = NULL
       THEN /\ first_child' = [first_child EXCEPT ![p] = c]
            /\ prev_sibling' = [prev_sibling EXCEPT ![c] = NULL]
            /\ next_sibling' = [next_sibling EXCEPT ![c] = NULL]
       ELSE /\ next_sibling' = [next_sibling EXCEPT ![last_child[p]] = c, ![c] = NULL]
            /\ prev_sibling' = [prev_sibling EXCEPT ![c] = last_child[p]]
            /\ UNCHANGED first_child

(* _remove_child, by the position of c; kfree then takes the TCB. *)
remove_head(p, c) ==
    /\ prev_sibling[c] = NULL /\ next_sibling[c] # NULL
    /\ first_child' = [first_child EXCEPT ![p] = next_sibling[c]]
    /\ prev_sibling' = [prev_sibling EXCEPT ![next_sibling[c]] = NULL]
    /\ UNCHANGED <<last_child, next_sibling>>

mut_remove_only(p, c) ==
    /\ prev_sibling[c] = NULL /\ next_sibling[c] = NULL
    /\ first_child' = first_child
    /\ last_child' = [last_child EXCEPT ![p] = NULL]
    /\ UNCHANGED <<prev_sibling, next_sibling>>

(* The only child: the first test of _remove_child falls through to the second. *)
remove_only(p, c) ==
    /\ prev_sibling[c] = NULL /\ next_sibling[c] = NULL
    /\ first_child' = [first_child EXCEPT ![p] = NULL]
    /\ last_child' = [last_child EXCEPT ![p] = NULL]
    /\ UNCHANGED <<prev_sibling, next_sibling>>

remove_tail(p, c) ==
    /\ prev_sibling[c] # NULL /\ next_sibling[c] = NULL
    /\ last_child' = [last_child EXCEPT ![p] = prev_sibling[c]]
    /\ next_sibling' = [next_sibling EXCEPT ![prev_sibling[c]] = NULL]
    /\ UNCHANGED <<first_child, prev_sibling>>

remove_inner(p, c) ==
    /\ prev_sibling[c] # NULL /\ next_sibling[c] # NULL
    /\ next_sibling' = [next_sibling EXCEPT ![prev_sibling[c]] = next_sibling[c]]
    /\ prev_sibling' = [prev_sibling EXCEPT ![next_sibling[c]] = prev_sibling[c]]
    /\ UNCHANGED <<first_child, last_child>>

_remove_child(c) ==
    LET p == parent[c] IN
    /\ p # NULL
    /\ \/ remove_head(p, c) \/ remove_only(p, c)
       \/ remove_tail(p, c) \/ remove_inner(p, c)
    /\ parent' = [parent EXCEPT ![c] = NULL]

Next ==
    \/ \E p \in Parents, c \in Children : _add_child(p, c)
    \/ \E c \in Children : _remove_child(c)

Spec == Init /\ [][Next]_vars

-----------------------------------------------------------------------------
ChildrenOf(p) == {c \in Children : parent[c] = p}

(* The children of p along next_sibling, as the loop of task_destroy visits
   them. *)
Siblings(p) ==
    LET n == Cardinality(ChildrenOf(p))
        at[i \in 1..n] == IF i = 1 THEN first_child[p] ELSE next_sibling[at[i - 1]]
    IN  [i \in 1..n |-> at[i]]

(* No allocated child is linked to memory that has been freed. *)
NoFreedSibling ==
    \A c \in Children : parent[c] # NULL =>
        \A d \in {prev_sibling[c], next_sibling[c]} \ {NULL} : parent[d] = parent[c]

(* The sibling lists implement the sequences of TaskQueue. *)
Abstract == INSTANCE TaskQueue WITH Tasks <- Children, Queues <- Parents,
                                    q <- [p \in Parents |-> Siblings(p)]
ImplementsLists == Abstract!Spec
=============================================================================
