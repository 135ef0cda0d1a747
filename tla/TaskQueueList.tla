--------------------------- MODULE TaskQueueList ---------------------------
(***************************************************************************)
(* The scheduler's queues as scheduler.c implements them: doubly linked    *)
(* through the TCBs, with first, last and counter in the head.  `last' of  *)
(* a queue that has become empty keeps pointing to the removed task.       *)
(*                                                                         *)
(* A definition mut_... is a faulty variant of one that follows it, used   *)
(* only to show that the properties notice the fault.                      *)
(***************************************************************************)
EXTENDS Integers, FiniteSets, Sequences

CONSTANTS Tasks, Queues, NULL

ASSUME NullAssumption == NULL \notin Tasks /\ NULL \notin Queues

VARIABLES
    first, last, counter,   \* queue_t
    next, prev,             \* links in the TCBs
    home                    \* the queue _set_queue selects for a queued task

vars == <<first, last, counter, next, prev, home>>

Init ==
    /\ first = [i \in Queues |-> NULL]
    /\ last = [i \in Queues |-> NULL]
    /\ counter = [i \in Queues |-> 0]
    /\ next = [t \in Tasks |-> NULL]
    /\ prev = [t \in Tasks |-> NULL]
    /\ home = [t \in Tasks |-> NULL]

mut_IsEmpty(i) == last[i] = NULL

(* _add_to_queue asks `first' whether the queue is empty, never `last'. *)
IsEmpty(i) == first[i] = NULL

_add_to_queue(t, i) ==
    /\ home[t] = NULL
    /\ IF IsEmpty(i)
       THEN /\ first' = [first EXCEPT ![i] = t]
            /\ prev' = [prev EXCEPT ![t] = NULL]
            /\ next' = [next EXCEPT ![t] = NULL]
       ELSE /\ prev' = [prev EXCEPT ![t] = last[i]]
            /\ next' = [next EXCEPT ![last[i]] = t, ![t] = NULL]
            /\ UNCHANGED first
    /\ last' = [last EXCEPT ![i] = t]
    /\ counter' = [counter EXCEPT ![i] = @ + 1]
    /\ home' = [home EXCEPT ![t] = i]

(* _remove_from_queue, by the position of t: *)
remove_first(t, i) ==
    /\ first[i] = t
    /\ first' = [first EXCEPT ![i] = next[t]]
    /\ prev' = IF next[t] = NULL THEN [prev EXCEPT ![t] = NULL]
               ELSE [prev EXCEPT ![next[t]] = NULL, ![t] = NULL]
    /\ next' = [next EXCEPT ![t] = NULL]
    /\ UNCHANGED last

remove_last(t, i) ==
    /\ first[i] # t /\ last[i] = t
    /\ last' = [last EXCEPT ![i] = prev[t]]
    /\ next' = [next EXCEPT ![prev[t]] = NULL, ![t] = NULL]
    /\ prev' = [prev EXCEPT ![t] = NULL]
    /\ UNCHANGED first

mut_remove_middle(t, i) ==
    /\ first[i] # t /\ last[i] # t
    /\ next' = [next EXCEPT ![prev[t]] = next[t], ![t] = NULL]
    /\ prev' = [prev EXCEPT ![t] = NULL]
    /\ UNCHANGED <<first, last>>

remove_middle(t, i) ==
    /\ first[i] # t /\ last[i] # t
    /\ next' = [next EXCEPT ![prev[t]] = next[t], ![t] = NULL]
    /\ prev' = [prev EXCEPT ![next[t]] = prev[t], ![t] = NULL]
    /\ UNCHANGED <<first, last>>

_remove_from_queue(t, i) ==
    /\ home[t] = i
    /\ remove_first(t, i) \/ remove_last(t, i) \/ remove_middle(t, i)
    /\ counter' = [counter EXCEPT ![i] = @ - 1]
    /\ home' = [home EXCEPT ![t] = NULL]

Next == \E t \in Tasks, i \in Queues :
            _add_to_queue(t, i) \/ _remove_from_queue(t, i)

Spec == Init /\ [][Next]_vars

-----------------------------------------------------------------------------
(* The tasks __find_in_queue passes, in order; `counter' of them. *)
Walk(i) ==
    LET at[n \in 1..counter[i]] == IF n = 1 THEN first[i] ELSE next[at[n - 1]]
    IN  [n \in 1..counter[i] |-> at[n]]

(* The backward links mirror the forward links; a wrong one does no harm until
   a later removal from the middle. *)
BackLinks ==
    \A t \in Tasks :
        /\ next[t] # NULL => prev[next[t]] = t
        /\ prev[t] # NULL => next[prev[t]] = t

(* The linked lists implement the sequences of TaskQueue. *)
Abstract == INSTANCE TaskQueue WITH q <- [i \in Queues |-> Walk(i)]
ImplementsQueues == Abstract!Spec
=============================================================================
