------------------------------- MODULE Malloc -------------------------------
(***************************************************************************)
(* The two heaps: the kernel's (klib/kmalloc.c, kfree.c), over the fixed   *)
(* area from VM_KMALLOC_START to VM_KMALLOC_END, and that of a program     *)
(* (libc/stdlib/malloc.c, free.c), over a data segment that grows by sbrk. *)
(* `owner', chosen at the start, tells whose heap this is.                 *)
(***************************************************************************)
EXTENDS Heap

CONSTANTS
    Owners,         \* whose heap: "kernel", "libc"
    Gap,            \* 0x1000: VM_KMALLOC_START is kernel_end + Gap
    InitialSize,    \* the kernel's area; DEFAULT_HEAP_SIZE of the C library
    ExpandUnit,     \* EXPAND_SIZE_OFF
    MaxVoid         \* bound: no chunk is created beyond this address

ASSUME MallocAssumption ==
    /\ Owners \subseteq {"kernel", "libc"}
    /\ Gap \in 0..HeapStart /\ InitialSize \in Nat \ {0}
    /\ ExpandUnit \in Nat \ {0} /\ MaxVoid \in Nat

VARIABLES
    owner,
    heap_size,      \* bytes that really belong to the heap
    panicked        \* panic("[PANIC] kmalloc run out of memory!")

vars == <<heapVars, owner, heap_size, panicked>>

(* VM_KMALLOC_START is `kernel_end + 0x1000' without parentheses, so that
   VM_KMALLOC_END - VM_KMALLOC_START adds the gap instead of subtracting it. *)
KernelVoidSize ==
    LET kernel_end == HeapStart - Gap
        VM_KMALLOC_END == HeapStart + InitialSize
    IN  VM_KMALLOC_END - kernel_end + Gap

Init ==
    /\ owner \in Owners
    /\ heap_size = InitialSize
    /\ panicked = FALSE
    /\ HeapInit(IF owner = "kernel" THEN KernelVoidSize ELSE InitialSize)

(* _find_free_chunk has found one. *)
malloc_from_bins(req) ==
    LET n == AlignedSize(req) IN
    /\ ~panicked
    /\ \/ take_from_sizebin(n, req)
       \/ take_from_sortedbin(n, req)
       \/ split_from_sortedbin(n, req)
    /\ UNCHANGED <<owner, heap_size, panicked>>

malloc_from_void(req) ==
    LET n == AlignedSize(req) IN
    /\ ~panicked
    /\ NothingFound(n)
    /\ void_size >= n
    /\ void + n <= MaxVoid
    /\ take_from_void(n, req, void_size - n)
    /\ UNCHANGED <<owner, heap_size, panicked>>

(* The void chunk is too small: the kernel gives up ... *)
kmalloc_panic(req) ==
    LET n == AlignedSize(req) IN
    /\ owner = "kernel" /\ ~panicked
    /\ NothingFound(n)
    /\ void_size < n
    /\ panicked' = TRUE
    /\ UNCHANGED <<heapVars, owner, heap_size>>

(* _heap_expand rounds up to the expansion unit. *)
ExpandSize(n) ==
    IF n % ExpandUnit = 0 THEN n ELSE n - (n % ExpandUnit) + ExpandUnit

(* ... and the C library expands the heap before it creates the chunk.  The size
   of what is left is computed from the size before the expansion.  (When sbrk
   fails, malloc returns NULL and changes nothing.) *)
malloc_expand(req) ==
    LET n == AlignedSize(req) IN
    /\ owner = "libc"
    /\ NothingFound(n)
    /\ void_size < n
    /\ void + n <= MaxVoid
    /\ heap_size' = heap_size + ExpandSize(n)
    /\ take_from_void(n, req, (void_size - n) % Word)
    /\ UNCHANGED <<owner, panicked>>

free(c) ==
    /\ ~panicked
    /\ kfree(c)
    /\ UNCHANGED <<owner, heap_size, panicked>>

Next ==
    \/ \E req \in Requests :
        \/ malloc_from_bins(req) \/ malloc_from_void(req)
        \/ kmalloc_panic(req) \/ malloc_expand(req)
    \/ \E c \in Chunks : free(c)

Spec == Init /\ [][Next]_vars
=============================================================================
