------------------------------- MODULE Areas -------------------------------
(***************************************************************************)
(* What an allocator of address ranges promises: the ranges in use lie in  *)
(* the space it manages and do not overlap.  Nothing is said of where a    *)
(* new range lies, nor of when a request is refused.                       *)
(***************************************************************************)
EXTENDS Integers

CONSTANTS Low, High     \* the managed space is Low..High-1

VARIABLE areas          \* the ranges in use

Range == [vaddr : Low..High, size : 0..(High - Low)]

Apart(a, b) == a.vaddr + a.size <= b.vaddr \/ b.vaddr + b.size <= a.vaddr

Fits(a) == a.vaddr + a.size <= High

Init == areas \subseteq Range /\ \A a \in areas : Fits(a) /\ \A b \in areas : a # b => Apart(a, b)

Take(a) ==
    /\ Fits(a)
    /\ \A b \in areas : Apart(a, b)
    /\ areas' = areas \cup {a}

GiveBack(a) == areas' = areas \ {a}

Next == \/ \E a \in Range : Take(a)
        \/ \E a \in areas : GiveBack(a)

Spec == Init /\ [][Next]_areas
=============================================================================
