------------------------------- MODULE MCVmm -------------------------------
(* Vmm on a machine with pages of two bytes and nine user pages. *)
EXTENDS Vmm, TLC

CONSTANTS parent, child

TwoSpaces == {parent, child}

(* A read-only text segment, and data of one byte with one byte of bss on the
   same page. *)
Hello == << [vaddr |-> 2, filesz |-> 2, memsz |-> 2, align |-> 2, rw |-> FALSE],
            [vaddr |-> 4, filesz |-> 1, memsz |-> 2, align |-> 2, rw |-> TRUE] >>

(* Two segments on one page: the second one cannot be loaded, because the region
   of the first goes to the end of the page. *)
Broken == << [vaddr |-> 4, filesz |-> 1, memsz |-> 1, align |-> 2, rw |-> TRUE],
             [vaddr |-> 5, filesz |-> 1, memsz |-> 1, align |-> 2, rw |-> TRUE] >>

SomePrograms == {Hello, Broken}

SomeBreaks == {-2, 0, 1, 3, 55}

(* A frame whose contents read as entries for the page behind the data, and for
   the one below the second area that mmap finds. *)
Stale == {[p \in UserPages |-> IF p \in {3, 4} THEN [frame |-> 3, rw |-> FALSE] ELSE Absent]}
=============================================================================
