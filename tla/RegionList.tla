----------------------------- MODULE RegionList -----------------------------
(* The linked lists of regions, as sequences: what inserting a node after the
   i-th one (in front of all for i = 0) and unlinking the i-th one leave. *)
EXTENDS Integers, Sequences

InsertAfter(s, i, x) ==
    [j \in 1..(Len(s) + 1) |-> IF j <= i THEN s[j] ELSE IF j = i + 1 THEN x ELSE s[j - 1]]

RemoveIndex(s, i) == [j \in 1..(Len(s) - 1) |-> IF j < i THEN s[j] ELSE s[j + 1]]
=============================================================================
