------------------------------ MODULE Vmalloc ------------------------------
(***************************************************************************)
(* The kernel's virtual memory: the list of used regions (klib/vmalloc.c,  *)
(* vfree.c) and the pages behind them (memory/vmm_misc.c and the functions *)
(* of arch/i386/paging.c for the current page directory).                  *)
(*                                                                         *)
(* Addresses and sizes are counted in pages.  A page directory holds, for  *)
(* each group of TablePages pages, the frame of a page table or nothing;   *)
(* the kernel's half of a new directory is copied from kern_pd, so that    *)
(* directories share the page tables that existed then.  A page table made *)
(* later is a frame that is not cleared: it holds what its last user left. *)
(* Which free frame the allocator hands out does not matter here (see Pmm).*)
(***************************************************************************)
EXTENDS RegionList, FiniteSets

CONSTANTS
    VM_VMALLOC_START, VM_VMALLOC_END,
    Sizes,              \* what callers ask for, in pages
    PhyTypes,           \* the vmalloc_req_t they use
    TablePages,         \* pages one page table covers (1024)
    Frames,
    Dirs, kern_pd,      \* page directories; the boot directory
    Garbage,            \* what a frame may hold, read as a page table
    none

ASSUME VmallocAssumption ==
    /\ VM_VMALLOC_START \in Nat \ {0}
    /\ VM_VMALLOC_END \in Nat
    /\ VM_VMALLOC_START < VM_VMALLOC_END
    /\ Sizes \subseteq Nat
    /\ PhyTypes \subseteq {"MAPPED", "PHY_CONT", "ON_DEMAND"}
    /\ TablePages \in Nat \ {0}
    /\ kern_pd \in Dirs
    /\ none \notin Frames

Pages  == VM_VMALLOC_START..(VM_VMALLOC_END - 1)
Group(p) == p \div TablePages
Groups == {Group(p) : p \in Pages}

(* Physical page 0 and the frames after it: the kernel's own, never handed out. *)
KernelFrame == "kernel frame"
Entry == Frames \cup {none, KernelFrame}

ASSUME GarbageAssumption == Garbage \subseteq [Pages -> Entry] /\ Garbage # {}

VARIABLES
    ureg,               \* the regions, in the order of the linked list
    used_pages,
    current_pd,         \* the directory in CR3
    live,               \* directories in use
    dir_frame,          \* directory |-> its frame; the boot directory has none
    table,              \* directory, group |-> frame of its page table
    pte,                \* frame of a table, page |-> frame of the page
    free,               \* what the frame allocator has left
    status

vars == <<ureg, used_pages, current_pd, live, dir_frame, table, pte, free, status>>
maps == <<current_pd, live, dir_frame, table, pte, free>>

Region == [vaddr : Nat, size : Nat, phy_type : {"MAPPED", "PHY_CONT", "ON_DEMAND"}]

End(r) == r.vaddr + r.size

(* The entry through which directory d reaches page p: _get_page. *)
_get_page(d, p) ==
    IF table[d][Group(p)] = none THEN none ELSE pte[table[d][Group(p)]][p]

(***************************************************************************)
(* The list of regions.                                                    *)
(***************************************************************************)
mut_insert_region(i, x) == Append(ureg, x)

(* _insert_region: prev = NULL is i = 0. *)
_insert_region(i, x) == InsertAfter(ureg, i, x)

mut_Hole(i, size) ==
    IF i = 0
    THEN ureg[1].vaddr > VM_VMALLOC_START /\ ureg[1].vaddr - VM_VMALLOC_START >= size
    ELSE IF i < Len(ureg)
    THEN ureg[i + 1].vaddr - ureg[i].vaddr >= size
    ELSE End(ureg[i]) < VM_VMALLOC_END /\ VM_VMALLOC_END - End(ureg[i]) >= size

(* The hole behind region i, or in front of the first one for i = 0, is large
   enough for size pages. *)
Hole(i, size) ==
    IF i = 0
    THEN ureg[1].vaddr > VM_VMALLOC_START /\ ureg[1].vaddr - VM_VMALLOC_START >= size
    ELSE IF i < Len(ureg)
    THEN ureg[i + 1].vaddr - ureg[i].vaddr - ureg[i].size >= size
    ELSE End(ureg[i]) < VM_VMALLOC_END /\ VM_VMALLOC_END - End(ureg[i]) >= size

(* _find_hole_in_as returns the first hole that is large enough. *)
find_hole(i, size) ==
    /\ i \in 0..Len(ureg)
    /\ Hole(i, size)
    /\ \A j \in 0..(i - 1) : ~Hole(j, size)

HoleAddress(i) == IF i = 0 THEN VM_VMALLOC_START ELSE End(ureg[i])

(***************************************************************************)
(* Page tables.                                                            *)
(***************************************************************************)
Taken(f) == {f[p] : p \in DOMAIN f} \cap Frames

(* pg_map for every page of DOMAIN f; `tables' are the frames for the page
   tables that directory d lacks.  A new table is not cleared: it holds junk. *)
pg_map(d, f, tables, junk) ==
    /\ table' = [table EXCEPT ![d] = [g \in Groups |-> IF g \in DOMAIN tables THEN tables[g] ELSE @[g]]]
    /\ pte' = [t \in Frames |-> [p \in Pages |->
                 IF p \in DOMAIN f /\ t = table'[d][Group(p)] THEN f[p]
                 ELSE IF t \in Taken(tables) THEN junk[p] ELSE pte[t][p]]]

Missing(d, S) == {g \in Groups : table[d][g] = none /\ \E p \in S : Group(p) = g}

Injections(S, T) == {f \in [S -> T] : \A x, y \in S : f[x] = f[y] => x = y}

(* The frames that back the pages S of a new region: pmm_get_frame for each,
   one pool, or none yet.  pmm_get_pool may find no run of frames however many
   are free; its result 0 is used as an address. *)
Backing(S, phy_type) ==
    CASE phy_type = "MAPPED"    -> Injections(S, free)
      [] phy_type = "PHY_CONT"  -> Injections(S, free) \cup {[p \in S |-> KernelFrame]}
      [] phy_type = "ON_DEMAND" -> {[p \in S |-> none]}

Panic == status' = "panic" /\ UNCHANGED <<ureg, used_pages, maps>>

(* vmm_cont_unmap: pg_unmap clears the entries that are present. *)
unmap(S) ==
    [t \in Frames |-> [p \in Pages |->
        IF p \in S /\ t = table[current_pd][Group(p)] THEN none ELSE pte[t][p]]]

(* What pg_unmap returns for an entry, `paddr | PG_ALIGN', is never the address
   of a frame: pmm_free_frame and pmm_free_pool ignore it. *)
pg_unmap_frames(S) == {}

(***************************************************************************)
(* Actions.                                                                *)
(***************************************************************************)
(* sched_init has made the first call: the kernel task's stack, which is never
   released.  The machine starts with memory cleared, and so with that table. *)
Init ==
    \E stack, t \in Frames :
        /\ stack # t
        /\ ureg = <<[vaddr |-> VM_VMALLOC_START, size |-> 1, phy_type |-> "MAPPED"]>>
        /\ used_pages = 1
        /\ current_pd = kern_pd
        /\ live = {kern_pd}
        /\ dir_frame = [d \in Dirs |-> none]
        /\ table = [d \in Dirs |-> [g \in Groups |->
                      IF d = kern_pd /\ g = Group(VM_VMALLOC_START) THEN t ELSE none]]
        /\ pte = [x \in Frames |-> [p \in Pages |->
                    IF x = t /\ p = VM_VMALLOC_START THEN stack ELSE none]]
        /\ free = Frames \ {stack, t}
        /\ status = "running"

vmalloc(size, phy_type) ==
    \E i \in 0..Len(ureg) :
        LET vaddr == HoleAddress(i)
            new == vaddr..(vaddr + size - 1)
        IN
        /\ find_hole(i, size)
        /\ \E f \in Backing(new, phy_type), tables \in Injections(Missing(current_pd, new), free),
              junk \in Garbage :
              /\ Taken(f) \cap Taken(tables) = {}
              /\ pg_map(current_pd, f, tables, junk)
              /\ free' = free \ (Taken(f) \cup Taken(tables))
        /\ ureg' = _insert_region(i, [vaddr |-> vaddr, size |-> size, phy_type |-> phy_type])
        /\ used_pages' = used_pages + size
        /\ UNCHANGED <<current_pd, live, dir_frame, status>>

(* No hole, or no frame: panic. *)
vmalloc_panic(size, phy_type) ==
    /\ \/ \A i \in 0..Len(ureg) : ~Hole(i, size)
       \/ \E i \in 0..Len(ureg) :
            LET new == HoleAddress(i)..(HoleAddress(i) + size - 1)
            IN /\ find_hole(i, size)
               /\ Cardinality(free) < Cardinality(Missing(current_pd, new))
                                      + (IF phy_type = "MAPPED" THEN size ELSE 0)
    /\ Panic

_remove_region(i) == RemoveIndex(ureg, i)

mut_used_pages(i) == used_pages - 1

used_pages_after(i) == used_pages - ureg[i].size

(* A caller releases what it was given; the first region with the address is
   taken out of the list and its pages are unmapped. *)
vfree(vaddr) ==
    \E i \in 2..Len(ureg) :
        /\ ureg[i].vaddr = vaddr
        /\ \A j \in 1..(i - 1) : ureg[j].vaddr # vaddr
        /\ LET S == vaddr..(End(ureg[i]) - 1)
           IN /\ pte' = unmap(S)
              /\ free' = free \cup pg_unmap_frames(S)
        /\ ureg' = _remove_region(i)
        /\ used_pages' = used_pages_after(i)
        /\ UNCHANGED <<current_pd, live, dir_frame, table, status>>

(* pg_page_fault_handler in kernel mode: a task touches a page of a region that
   its directory does not map. *)
Touch(p) ==
    /\ \E i \in 1..Len(ureg) : p \in ureg[i].vaddr..(End(ureg[i]) - 1)
    /\ _get_page(current_pd, p) = none
    /\ \E f \in [{p} -> free], tables \in Injections(Missing(current_pd, {p}), free),
          junk \in Garbage :
          /\ Taken(f) \cap Taken(tables) = {}
          /\ pg_map(current_pd, f, tables, junk)
          /\ free' = free \ (Taken(f) \cup Taken(tables))
    /\ UNCHANGED <<ureg, used_pages, current_pd, live, dir_frame, status>>

(* No frame for the page, or for its page table. *)
Touch_panic(p) ==
    /\ \E i \in 1..Len(ureg) : p \in ureg[i].vaddr..(End(ureg[i]) - 1)
    /\ _get_page(current_pd, p) = none
    /\ Cardinality(free) < Cardinality(Missing(current_pd, {p})) + 1
    /\ Panic

mut_pg_create_directory(d) ==
    /\ d \notin live
    /\ \E f \in free :
          /\ dir_frame' = [dir_frame EXCEPT ![d] = f]
          /\ free' = free \ {f}
    /\ live' = live \cup {d}
    /\ UNCHANGED <<ureg, used_pages, current_pd, table, pte, status>>

(* pg_create_directory for a new address space: a frame, cleared, and
   _clone_kernel_tables. *)
pg_create_directory(d) ==
    /\ d \notin live
    /\ \E f \in free :
          /\ dir_frame' = [dir_frame EXCEPT ![d] = f]
          /\ free' = free \ {f}
    /\ live' = live \cup {d}
    /\ table' = [table EXCEPT ![d] = table[kern_pd]]
    /\ UNCHANGED <<ureg, used_pages, current_pd, pte, status>>

(* No frame for it. *)
pg_create_directory_panic(d) ==
    /\ d \notin live
    /\ free = {}
    /\ Panic

(* pg_destroy_directory, called by task_destroy while another task or the
   kernel task is current: the frame is free, the tables are not. *)
pg_destroy_directory(d) ==
    /\ d \in live \ {kern_pd, current_pd}
    /\ live' = live \ {d}
    /\ table' = [table EXCEPT ![d] = [g \in Groups |-> none]]
    /\ free' = free \cup {dir_frame[d]}
    /\ dir_frame' = [dir_frame EXCEPT ![d] = none]
    /\ UNCHANGED <<ureg, used_pages, current_pd, pte, status>>

pg_switch_pd(d) ==
    /\ d \in live
    /\ current_pd' = d
    /\ UNCHANGED <<ureg, used_pages, live, dir_frame, table, pte, free, status>>

Next ==
    /\ status = "running"
    /\ \/ \E size \in Sizes, phy_type \in PhyTypes :
            vmalloc(size, phy_type) \/ vmalloc_panic(size, phy_type)
       \/ \E i \in 1..Len(ureg) : vfree(ureg[i].vaddr)
       \/ \E p \in Pages : Touch(p) \/ Touch_panic(p)
       \/ \E d \in Dirs : \/ pg_create_directory(d) \/ pg_create_directory_panic(d)
                        \/ pg_destroy_directory(d) \/ pg_switch_pd(d)

Spec == Init /\ [][Next]_vars

(***************************************************************************)
(* Properties.                                                             *)
(***************************************************************************)
(* The variables have their types. *)
TypeOK ==
    /\ ureg \in Seq(Region)
    /\ Len(ureg) >= 1
    /\ used_pages \in Int
    /\ current_pd \in live
    /\ live \subseteq Dirs
    /\ dir_frame \in [Dirs -> Frames \cup {none}]
    /\ table \in [Dirs -> [Groups -> Frames \cup {none}]]
    /\ pte \in [Frames -> [Pages -> Entry]]
    /\ free \subseteq Frames
    /\ status \in {"running", "panic"}

(* The regions of the list lie in the vmalloc area, in order of their addresses
   and without overlap, whatever was released in between: _find_hole_in_as
   relies on the order. *)
RegionsApart ==
    /\ \A i \in 1..Len(ureg) : VM_VMALLOC_START <= ureg[i].vaddr /\ End(ureg[i]) <= VM_VMALLOC_END
    /\ \A i, j \in 1..Len(ureg) : i < j => End(ureg[i]) <= ureg[j].vaddr

(* used_pages is the number of pages that lie in some region. *)
UsedPagesExact == 
    used_pages = Cardinality(UNION {ureg[i].vaddr..(End(ureg[i]) - 1) : i \in 1..Len(ureg)})

(* The pages of the page table made at boot, which every directory shares. *)
BootPages == {p \in Pages : Group(p) = Group(VM_VMALLOC_START)}

(* In the part of the area that the boot table covers (where the search for a hole
   looks first), whichever address space is current and whatever other tables hold:
   the pages of every region that was not asked for on demand are mapped, no page
   outside the regions is, no two pages share a frame or use a free one or that of a
   directory, and every address space sees the same. *)
RegionsBacked ==
    LET inside == UNION {ureg[i].vaddr..(End(ureg[i]) - 1) : i \in 1..Len(ureg)}
        entry(p) == _get_page(kern_pd, p)
    IN /\ \A i \in 1..Len(ureg) : ureg[i].phy_type = "MAPPED" =>
             \A p \in BootPages \cap ureg[i].vaddr..(End(ureg[i]) - 1) : entry(p) # none
       /\ \A p \in BootPages : entry(p) # none =>
             /\ p \in inside
             /\ entry(p) \in Frames \ free
             /\ \A d \in Dirs : entry(p) # dir_frame[d]
             /\ \A q \in BootPages : entry(p) = entry(q) => p = q
       /\ \A d \in live, p \in BootPages : _get_page(d, p) = entry(p)

(* The list implements a set of ranges that do not overlap. *)
Abstract == INSTANCE Areas
    WITH Low <- VM_VMALLOC_START, High <- VM_VMALLOC_END,
         areas <- {[vaddr |-> ureg[i].vaddr, size |-> ureg[i].size] : i \in 1..Len(ureg)}

ImplementsAreas == Abstract!Spec
=============================================================================
