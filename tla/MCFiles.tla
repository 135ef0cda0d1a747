------------------------------ MODULE MCFiles ------------------------------
(* Files with room for two new files, three descriptors and two tasks. *)
EXTENDS Files, TLC

CONSTANTS n1, n2, f1, f2, f3, shell

TwoNodes == {n1, n2}
ThreeFds == {f1, f2, f3}
TwoTasks == {init, shell}

SomePaths == {<<>>, <<"a">>, <<"d">>, <<"d", "a">>, <<"d", "", "a">>, <<"bin", "sh">>, <<"dev", "zero">>}

Pools == Permutations(NodePool) \cup Permutations(FdPool)
=============================================================================
