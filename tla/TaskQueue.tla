----------------------------- MODULE TaskQueue -----------------------------
(***************************************************************************)
(* What the kernel expects of its intrusive lists of tasks: several        *)
(* sequences, a task in at most one of them, insertion at the tail and     *)
(* removal from anywhere.                                                  *)
(***************************************************************************)
EXTENDS Integers, SequencesExt

CONSTANTS
    Tasks,      \* the elements
    Queues      \* the list heads

VARIABLE q      \* head |-> the tasks behind it, in order

In(t, i) == t \in ToSet(q[i])

Init == q = [i \in Queues |-> <<>>]

Add(t, i) ==
    /\ \A j \in Queues : ~In(t, j)
    /\ q' = [q EXCEPT ![i] = Append(@, t)]

Delete(t, i) ==
    \E k \in DOMAIN q[i] : q[i][k] = t /\ q' = [q EXCEPT ![i] = RemoveAt(@, k)]

Next == \E t \in Tasks, i \in Queues : Add(t, i) \/ Delete(t, i)

Spec == Init /\ [][Next]_q
=============================================================================
