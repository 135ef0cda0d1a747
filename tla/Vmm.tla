-------------------------------- MODULE Vmm --------------------------------
(***************************************************************************)
(* The address spaces of programs: memory/vmm.c with its callers mmap.c,   *)
(* munmap.c, brk.c, sbrk.c, cpu/elf_loader.c, the address-space parts of   *)
(* cpu/execve.c, fork.c and task_destroy, and the functions of             *)
(* arch/i386/paging.c they use.                                            *)
(*                                                                         *)
(* Addresses are bytes of a small machine: PAGE_SIZE and 2^32 (`Word') are *)
(* constants.  An address space is a record with the sorted list of        *)
(* regions, the limits of the heap and the stack, the page counter and     *)
(* `pt', which gives for every user page the frame and the write           *)
(* permission of its page table entry, `tables', the page tables it has,   *)
(* and `pd', the frame of its directory.  A page table is a frame that     *)
(* nobody clears: its entries are what was in the frame.  The PG_USER flag *)
(* of such an entry is left out: an entry without PG_RW shows the same.    *)
(* The frame allocator hands out its lowest frame; which one does not      *)
(* matter (see Pmm).  The temporary mappings through which the kernel      *)
(* reaches a frame are left out.                                           *)
(*                                                                         *)
(* System calls run to their end with interrupts off: one action each.     *)
(* `odd' records which unusual things programs have done so far, so that a *)
(* property can be stated for the programs it is true for.                 *)
(***************************************************************************)
EXTENDS RegionList, FiniteSets, FiniteSetsExt

CONSTANTS
    PAGE_SIZE, Word,
    VM_USER_END, VM_USER_STACK,
    StackSize,          \* PAGE_SIZE * 2
    Programs,           \* ELF files: sequences of PT_LOAD headers
    MmapSizes, Breaks,  \* sizes and changes of the break that programs ask for
    Frames,             \* 1..n
    TableEntries,       \* entries of a page table: 1024
    Used,               \* frames in use before the first step of this model
    Garbage,            \* what a frame that was used may hold, read as entries
    Spaces,             \* room for address spaces: tasks
    first,              \* the task that runs first
    MaxOdd,             \* how many kinds of unusual things are explored together
    MaxCalls,           \* how many steps programs take
    Hints,              \* addresses programs pass to mmap
    Protections,        \* whether they ask for PROT_WRITE
    NULL

Segment == [vaddr : Nat \ {0}, filesz : Nat, memsz : Nat, align : Nat \ {0}, rw : BOOLEAN]

ASSUME VmmAssumption ==
    /\ PAGE_SIZE \in Nat \ {0, 1}
    /\ Word \in Nat
    /\ VM_USER_STACK \in Nat /\ VM_USER_END \in Nat /\ StackSize \in Nat \ {0}
    /\ VM_USER_STACK % PAGE_SIZE = 0 /\ VM_USER_END % PAGE_SIZE = 0 /\ StackSize % PAGE_SIZE = 0
    /\ StackSize + PAGE_SIZE <= VM_USER_STACK
    /\ VM_USER_STACK <= VM_USER_END
    /\ VM_USER_END + PAGE_SIZE <= Word
    /\ Frames \subseteq Nat \ {0} /\ IsFiniteSet(Frames)
    /\ TableEntries \in Nat \ {0} /\ Used \subseteq Frames
    /\ Programs \subseteq Seq(Segment)
    /\ Hints \subseteq Nat
    /\ MmapSizes \subseteq 0..(Word - PAGE_SIZE)
    /\ Breaks \subseteq Int
    /\ Protections \subseteq BOOLEAN
    /\ first \in Spaces

VARIABLES
    as,                 \* task |-> its address space, or NULL
    free,               \* frames the allocator has left
    touched,            \* frames that are not as they were when the machine started
    drift,              \* how often a frame was freed that was free already
    odd,                \* what unusual things programs did
    calls,              \* how many steps were taken
    fault,              \* the worst that came of a page fault
    status              \* running, panic; corrupt: kernel memory overwritten;
                        \* wrapped: a region goes over the end of the address space

vars == <<as, free, touched, drift, odd, calls, fault, status>>

UserPages == 0..((VM_USER_END - 1) \div PAGE_SIZE)
Page(addr) == addr \div PAGE_SIZE
PagesOf(addr, size) == IF size = 0 THEN {} ELSE Page(addr)..Page(addr + size - 1)

(* A page table entry: not present, or a frame and its PG_RW flag.  Frame 0 is
   physical page 0, which the allocator never hands out. *)
Absent == [frame |-> -1, rw |-> FALSE]
Entry == [frame : Frames \cup {0}, rw : BOOLEAN] \cup {Absent}

Region == [addr : Nat, size : Nat, rw : BOOLEAN]
End(r) == r.addr + r.size

Clear == [p \in UserPages |-> Absent]

ASSUME GarbageAssumption == Garbage \subseteq [UserPages -> Entry]

(* vmm_aspace_create and pg_create_directory: the directory is cleared. *)
EmptySpace(pd) ==
    [regs |-> <<>>, pt |-> Clear, tables |-> {}, pd |-> pd,
     elf_end |-> 0, data_end |-> 0, stack_end |-> 0, page_counter |-> 0]

Nth(S, k) == CHOOSE x \in S : Cardinality({y \in S : y <= x}) = k
Lowest(S, k) == {x \in S : Cardinality({y \in S : y <= x}) <= k}

TableOf(p) == p \div TableEntries

(* pg_map_to makes the tables of the pages in S that are missing, each when the
   first of its pages is mapped.  The rest of the table is what `junk' says. *)
missing_tables(a, S) == {TableOf(p) : p \in S} \ a.tables

make_tables(a, S, junk) ==
    LET new == missing_tables(a, S)
        behind(p) == \E q \in S : TableOf(q) = TableOf(p) /\ q < p
        before(p) == \A q \in S : TableOf(q) = TableOf(p) => p < q
    IN [a EXCEPT !.tables = @ \cup new,
                 !.pt = [p \in UserPages |-> IF TableOf(p) \in new /\ (behind(p) \/ before(p))
                                             THEN junk[p] ELSE @[p]]]

(* The frames that are left when these tables have theirs. *)
without_tables(fr, a, S) == fr \ Lowest(fr, Cardinality(missing_tables(a, S)))

(* The pages that an operation mapped, where it had as many frames as it could
   use. *)
Plenty == UserPages
Mapped(a) == {p \in UserPages : a.pt[p] # Absent}

mut_pg_map_to(pt, p, frame, rw) == [pt EXCEPT ![p] = [frame |-> frame, rw |-> FALSE]]

pg_map_to(pt, p, frame, rw) == [pt EXCEPT ![p] = [frame |-> frame, rw |-> rw]]

pg_unmap_from(pt, S) == [p \in UserPages |-> IF p \in S THEN Absent ELSE pt[p]]

RoundUp(n, unit) == IF n % unit # 0 THEN (n - (n % unit)) + unit ELSE n

(* Programs are as the linker writes them: segments in the order of their
   addresses, in units of whole pages, between the first page and the stack, with protections that
   differ on different pages only; the writable data comes last. *)
ASSUME ProgramAssumption ==
    \A prog \in Programs :
        /\ \A k \in 1..Len(prog) :
              /\ prog[k].filesz <= prog[k].memsz /\ prog[k].memsz # 0
              /\ prog[k].vaddr >= PAGE_SIZE /\ prog[k].align % PAGE_SIZE = 0
              /\ RoundUp(prog[k].vaddr + prog[k].memsz, prog[k].align) + PAGE_SIZE <= VM_USER_STACK - StackSize
        /\ \A j, k \in 1..Len(prog) : j < k =>
              /\ prog[j].vaddr + prog[j].memsz <= prog[k].vaddr
              /\ prog[j].rw # prog[k].rw => Page(prog[j].vaddr + prog[j].memsz - 1) < Page(prog[k].vaddr)
        /\ prog # <<>> /\ prog[Len(prog)].rw

(***************************************************************************)
(* The list of regions.                                                    *)
(***************************************************************************)
mut_is_area_free(a, addr, size) ==
    LET behind == {i \in 1..Len(a.regs) : addr <= a.regs[i].addr}
    IN a.regs = <<>> \/ behind = {} \/ (addr + size) % Word <= a.regs[Min(behind)].addr

(* _is_area_free compares the area with the first region that does not begin
   before it, and with nothing else. *)
_is_area_free(a, addr, size) ==
    LET behind == {i \in 1..Len(a.regs) : addr <= a.regs[i].addr}
    IN IF a.regs = <<>> THEN TRUE
       ELSE IF addr >= End(a.regs[Len(a.regs)]) THEN (addr + size) % Word <= VM_USER_END
       ELSE IF behind = {} THEN FALSE
       ELSE (addr + size) % Word <= a.regs[Min(behind)].addr

mut_insert_region(regs, r) ==
    LET i == Cardinality({j \in 1..Len(regs) : regs[j].addr < r.addr}) IN InsertAfter(regs, i, r)

(* _insert_region puts the region where it fits between its neighbours; a
   region that fits nowhere is not linked into the list at all. *)
_insert_region(regs, r) ==
    LET places == {i \in 0..Len(regs) : /\ i = 0 \/ End(regs[i]) <= r.addr
                                        /\ i = Len(regs) \/ End(r) <= regs[i + 1].addr}
    IN IF places = {} THEN regs
       ELSE InsertAfter(regs, IF Len(regs) \in places /\ 0 \notin places
                              THEN Len(regs) ELSE Min(places), r)

(* _find_region: the byte after a region counts as part of it. *)
_find_region(a, addr) ==
    LET found == {i \in 1..Len(a.regs) : a.regs[i].addr <= addr /\ addr <= End(a.regs[i])}
    IN IF found = {} THEN 0 ELSE Min(found)

(* One round of the search in _find_free_area: from an address that is not free
   down to one in front of the region that is there. *)
search_round(a, size, addr) ==
    LET i == _find_region(a, addr)
    IN IF addr < a.data_end + PAGE_SIZE \/ _is_area_free(a, addr, size) THEN addr
       ELSE IF i = 0 THEN addr - size
       ELSE a.regs[i].addr - size

(* _find_free_area searches downwards from the page below the stack.  No search
   has more than VM_USER_END rounds.  An address below 0 wraps around and is
   taken to be free. *)
_find_free_area(a, size) ==
    LET at[k \in 0..VM_USER_END] ==
            IF k = 0 THEN a.stack_end - PAGE_SIZE - size ELSE search_round(a, size, at[k - 1])
        addr == at[VM_USER_END]
    IN IF addr < 0 THEN (addr + Word) % Word
       ELSE IF addr < a.data_end + PAGE_SIZE THEN 0
       ELSE addr

(* _remove_region compares addresses to tell the ends of the list. *)
_remove_region(regs, i) ==
    IF regs[1].addr = regs[i].addr THEN SubSeq(regs, i + 1, Len(regs))
    ELSE IF regs[Len(regs)].addr = regs[i].addr THEN SubSeq(regs, 1, i - 1)
    ELSE RemoveIndex(regs, i)

mut_Steps(r) == {Page(r.addr) + k : k \in 0..((r.size \div PAGE_SIZE) - 1)}

(* The pages that a walk over a region in steps of PAGE_SIZE visits. *)
Steps(r) == {Page(x) : x \in {r.addr + k * PAGE_SIZE : k \in 0..r.size} \cap (r.addr..(End(r) - 1))}

(* _destroy_region unmaps the pages.  What pg_unmap_from returns for a frame,
   `paddr | PG_ALIGN', is no frame to pmm_free_frame: none goes back. *)
_destroy_region(a, i) ==
    [a EXCEPT !.regs = _remove_region(a.regs, i),
              !.pt = pg_unmap_from(@, Steps(a.regs[i]))]

(***************************************************************************)
(* vmm_mmap_at.                                                            *)
(***************************************************************************)
Result(st, a, fr, ret) == [st |-> st, a |-> a, free |-> fr, ret |-> ret]

aligned_size(addr, size, align) ==
    IF size % align # 0 THEN RoundUp(size, align) - (addr % align) ELSE size

(* The area is mapped page by page; `avail' bytes of the object can be read.  A
   page at which the read fails leaves the pages before it mapped, with no
   region, and its frame taken. *)
mmap_area(a, fr, addr, size, asize, rw, avail) ==
    LET pages == PagesOf(addr, size)
        offset(p) == IF p * PAGE_SIZE <= addr THEN 0 ELSE p * PAGE_SIZE - addr
        failed == {p \in pages : offset(p) >= avail}
        reached == {p \in pages : failed = {} \/ p <= Min(failed)}
        new == {p \in reached : a.pt[p] = Absent}
        rank(p) == Cardinality({q \in new : q <= p})
        pt == [p \in UserPages |->
                 IF p \in reached \ failed
                 THEN [frame |-> IF p \in new THEN Nth(fr, rank(p)) ELSE a.pt[p].frame, rw |-> rw]
                 ELSE a.pt[p]]
    IN IF addr = 0 \/ ~_is_area_free(a, addr, asize) THEN Result("ENOMEM", a, fr, 0)
       ELSE IF size = 0 THEN Result("nothing", a, fr, 0)
       ELSE IF ~(reached \subseteq UserPages) THEN Result("corrupt", a, fr, 0)
       ELSE IF Cardinality(fr) < Cardinality(new) THEN Result("panic", a, fr, 0)
       ELSE IF failed # {} THEN Result("EIO", [a EXCEPT !.pt = pt], fr \ Lowest(fr, Cardinality(new)), 0)
       ELSE Result("ok", [a EXCEPT !.pt = pt,
                                   !.regs = _insert_region(@, [addr |-> addr, size |-> asize, rw |-> rw]),
                                   !.page_counter = @ + Cardinality(new)],
                   fr \ Lowest(fr, Cardinality(new)), addr)

(* The pages that it maps. *)
mmap_pages(a, addr, size, asize, avail) ==
    IF addr = 0 \/ ~_is_area_free(a, addr, asize) THEN {}
    ELSE {p \in PagesOf(addr, size) \cap UserPages : avail > 0 /\ p * PAGE_SIZE < addr + avail}

vmm_mmap_at(a, fr, hint, size, align, rw, avail) ==
    LET asize == aligned_size(hint, size, IF align = 0 THEN PAGE_SIZE ELSE align)
    IN mmap_area(a, fr, IF hint = 0 THEN _find_free_area(a, asize) ELSE hint, size, asize, rw, avail)

(***************************************************************************)
(* vmm_munmap.                                                             *)
(***************************************************************************)
(* The loop over the pages of region i.  Each round looks up the frame at the
   address that was given, not at the current one, and unmaps the current. *)
looked_up(addr, current) == addr

munmap_round(a, i, addr, k, s) ==
    LET r == a.regs[i]
        page == Page(r.addr) + k - 1
        current == IF k = 1 THEN r.addr ELSE page * PAGE_SIZE
        rest == End(r) - current
        room == PAGE_SIZE - (current % PAGE_SIZE)
        e == s.pt[Page(looked_up(addr, current))]
        neighbour == \/ i > 1 /\ r.addr - End(a.regs[i - 1]) < PAGE_SIZE
                     \/ i < Len(a.regs) /\ a.regs[i + 1].addr - End(r) < PAGE_SIZE
    IN IF s.st # "ok" THEN s
       ELSE IF e = Absent THEN [s EXCEPT !.st = "panic"]
       ELSE IF neighbour /\ (room < PAGE_SIZE \/ rest < PAGE_SIZE)
       THEN IF rest > room THEN [s EXCEPT !.st = "corrupt"] ELSE s
       ELSE [s EXCEPT !.pt[page] = Absent,
                      !.free = @ \cup {e.frame},
                      !.twice = @ + (IF e.frame \in s.free THEN 1 ELSE 0),
                      !.ctr = @ + 1]

munmap_loop(a, fr, i, addr) ==
    LET n == Cardinality(PagesOf(a.regs[i].addr, a.regs[i].size))
        round[k \in 0..n] ==
            IF k = 0 THEN [st |-> "ok", pt |-> a.pt, free |-> fr, twice |-> 0, ctr |-> 0]
            ELSE munmap_round(a, i, addr, k, round[k - 1])
    IN round[n]

vmm_munmap(a, fr, addr) ==
    LET i == _find_region(a, addr)
        m == munmap_loop(a, fr, i, addr)
        b == _destroy_region([a EXCEPT !.pt = m.pt, !.page_counter = @ - m.ctr], i)
    IN IF i = 0 THEN Result("EINVAL", a, fr, 0)
       ELSE IF m.st # "ok" THEN Result(m.st, a, fr, 0)
       ELSE Result("ok", b, m.free, m.twice)

(***************************************************************************)
(* vmm_set_brk.                                                            *)
(***************************************************************************)
(* The first growth creates the data region.  Ends of regions are sums of 32
   bits: one that goes over the end of the address space is granted when the
   sum that is left of it fits.  The model ends there. *)
brk_first(a, fr, addr) ==
    LET size == RoundUp(addr - a.data_end, PAGE_SIZE)
        r == [addr |-> a.data_end, size |-> size, rw |-> TRUE]
    IN IF ~_is_area_free(a, a.data_end, size) THEN Result("ENOMEM", a, fr, 0)
       ELSE IF a.data_end + size >= Word THEN Result("wrapped", a, fr, 0)
       ELSE Result("ok", [a EXCEPT !.regs = _insert_region(@, r), !.data_end = addr], fr, 0)

mut_brk_grow(a, fr, i, addr) ==
    Result("ok", [a EXCEPT !.data_end = addr], fr, 0)

(* Growth within the region, or of the region up to the next one.  With no next
   region control falls through to the shrinking code, whose size underflows:
   it unmaps 2^32 bytes, the kernel's included. *)
brk_grow(a, fr, i, addr) ==
    LET r == a.regs[i]
        size == RoundUp(addr - a.data_end, PAGE_SIZE)
    IN IF addr <= End(r) THEN Result("ok", [a EXCEPT !.data_end = addr], fr, 0)
       ELSE IF i = Len(a.regs) THEN Result("corrupt", a, fr, 0)
       ELSE IF (End(r) + size) % Word > a.regs[i + 1].addr THEN Result("ENOMEM", a, fr, 0)
       ELSE IF End(r) + size >= Word THEN Result("wrapped", a, fr, 0)
       ELSE Result("ok", [a EXCEPT !.data_end = addr, !.regs[i].size = @ + size], fr, 0)

(* The pages unmapped are counted down from the one after the region.  The size
   of a region that is not the heap's may fall below 0. *)
brk_shrink(a, fr, i, addr) ==
    LET r == a.regs[i]
        ctr == (a.data_end - addr) \div PAGE_SIZE
        gone == {Page(End(r) - k * PAGE_SIZE) : k \in 0..(ctr - 1)}
    IN IF addr <= a.elf_end THEN Result("ENOMEM", a, fr, 0)
       ELSE IF ctr * PAGE_SIZE > r.size THEN Result("wrapped", a, fr, 0)
       ELSE Result("ok", [a EXCEPT !.data_end = addr,
                                   !.regs[i].size = @ - ctr * PAGE_SIZE,
                                   !.pt = pg_unmap_from(@, gone)],
                   fr, 0)

vmm_set_brk(a, fr, addr) ==
    LET i == _find_region(a, a.elf_end + 1)
    IN IF addr < a.elf_end THEN Result("ENOMEM", a, fr, 0)
       ELSE IF a.data_end = a.elf_end THEN brk_first(a, fr, addr)
       ELSE IF i = 0 THEN Result("panic", a, fr, 0)
       ELSE IF addr > a.data_end THEN brk_grow(a, fr, i, addr)
       ELSE brk_shrink(a, fr, i, addr)

(***************************************************************************)
(* Programs: fork and execve.                                              *)
(***************************************************************************)
(* _fork_aspace copies region by region.  A page of two regions is copied
   twice; for a page that is not present pg_duplicate_page returns 0, and the
   child gets physical page 0. *)
Copies(a) == UNION {{<<i, p>> : p \in Steps(a.regs[i])} : i \in 1..Len(a.regs)}

mut_fork_entry(a, fr, i, p, k) == a.pt[p]

fork_entry(a, fr, i, p, k) ==
    [frame |-> IF a.pt[p] = Absent THEN 0 ELSE Nth(fr, k), rw |-> a.regs[i].rw]

_fork_aspace(a, dst, fr) ==
    LET needed == {c \in Copies(a) : a.pt[c[2]] # Absent}
        rank(c) == Cardinality({d \in needed : d[1] < c[1] \/ (d[1] = c[1] /\ d[2] <= c[2])})
        last(p) == Max({i \in 1..Len(a.regs) : <<i, p>> \in Copies(a)})
        pt == [p \in UserPages |->
                 IF \E i \in 1..Len(a.regs) : <<i, p>> \in Copies(a)
                 THEN fork_entry(a, fr, last(p), p, rank(<<last(p), p>>))
                 ELSE dst.pt[p]]
    IN IF Cardinality(fr) < Cardinality(needed) THEN Result("panic", a, fr, 0)
       ELSE Result("ok", [a EXCEPT !.pt = pt, !.tables = dst.tables, !.pd = dst.pd],
                   fr \ Lowest(fr, Cardinality(needed)), 0)

(* _load_exe_format: one or two mappings for each segment. *)
load_segment(m, seg) ==
    LET file == vmm_mmap_at(m.a, m.free, seg.vaddr, seg.filesz,
                            IF seg.memsz > seg.filesz THEN seg.filesz ELSE seg.align, seg.rw, Word)
        bss == vmm_mmap_at(file.a, file.free, seg.vaddr + seg.filesz, seg.memsz - seg.filesz,
                           seg.align, seg.rw, Word)
    IN IF m.st # "ok" THEN m
       ELSE IF seg.memsz > seg.filesz /\ file.st \in {"ok", "nothing"}
       THEN [bss EXCEPT !.ret = RoundUp(seg.vaddr + seg.memsz, seg.align)]
       ELSE [file EXCEPT !.ret = RoundUp(seg.vaddr + seg.memsz, seg.align)]

(* The break of a program that was loaded is where its last segment ends. *)
set_ends(m) == [m EXCEPT !.a.elf_end = m.ret, !.a.data_end = m.ret]

elf_load(a, fr, prog) ==
    LET loaded[k \in 0..Len(prog)] ==
            IF k = 0 THEN Result("ok", a, fr, 0) ELSE load_segment(loaded[k - 1], prog[k])
    IN set_ends(loaded[Len(prog)])

(* do_execve maps the stack and does not look at the result, except that lack
   of frames is a panic. *)
map_stack(m) ==
    LET stack_end == VM_USER_STACK - StackSize
        s == vmm_mmap_at(m.a, m.free, stack_end, StackSize, 0, TRUE, Word)
    IN IF m.st # "ok" THEN m
       ELSE [s EXCEPT !.st = IF s.st = "panic" THEN "panic" ELSE "ok", !.a.stack_end = stack_end]

(* The new address space of do_execve: the program and its stack. *)
execve_space(a, fr, prog) == map_stack(elf_load(a, fr, prog))

(* The pages it maps. *)
LoadedPages == [prog \in Programs |-> Mapped(execve_space(EmptySpace(0), Plenty, prog).a)]

(* The space with its directory and its tables, and the program loaded into it. *)
exec_tables(fr, prog, junk) == make_tables(EmptySpace(Min(fr)), LoadedPages[prog], junk)

exec_aspace(fr, prog, junk) ==
    IF fr = {} THEN Result("panic", EmptySpace(0), fr, 0)
    ELSE execve_space(exec_tables(fr, prog, junk),
                      without_tables(fr \ {Min(fr)}, EmptySpace(0), LoadedPages[prog]), prog)

(***************************************************************************)
(* Actions.                                                                *)
(***************************************************************************)
(* What a new page table may hold, when k frames are taken before its own:
   frames that were put back are handed out first, and memory that was never
   used is zero. *)
JunkIn(fr, old, k) == IF Cardinality(fr \cap old) > k THEN Garbage \cup {Clear} ELSE {Clear}
Junk(k) == JunkIn(free, touched, k)

Unclear(pt, made) == IF made = pt THEN {} ELSE {"uncleared table"}

Init ==
    \E prog \in Programs, junk \in JunkIn(Frames, Used, 2) : \E m \in {exec_aspace(Frames, prog, junk)} :
        /\ m.st = "ok"
        /\ as = [t \in Spaces |-> IF t = first THEN m.a ELSE NULL]
        /\ free = m.free
        /\ touched = Used \cup (Frames \ m.free)
        /\ drift = 0
        /\ odd = Unclear(Clear, exec_tables(Frames, prog, junk).pt)
        /\ calls = 0
        /\ fault = "none"
        /\ status = "running"

Halt(m) == IF m.st \in {"panic", "corrupt", "wrapped"} THEN m.st ELSE status

(* The caller's address space and the frames after operation m; `what' is the
   set of unusual things about it. *)
Apply(t, m, what) ==
    /\ as' = [as EXCEPT ![t] = m.a]
    /\ free' = m.free
    /\ odd' = odd \cup what
    /\ status' = Halt(m)
    /\ UNCHANGED fault

InUse(a, addr, size) ==
    \E i \in 1..Len(a.regs) : a.regs[i].addr < addr + size /\ addr < End(a.regs[i])

(* The address that an mmap tries. *)
mmap_address(a, hint, size) == IF hint = 0 THEN _find_free_area(a, aligned_size(0, size, PAGE_SIZE)) ELSE hint

(* do_mmap. *)
mmap(t, hint, size, rw, avail, junk) ==
    \E addr \in {mmap_address(as[t], hint, size)} :
    LET asize == aligned_size(hint, size, PAGE_SIZE)
        S == mmap_pages(as[t], addr, size, asize, avail)
        made == make_tables(as[t], S, junk)
        m == mmap_area(made, without_tables(free, as[t], S), addr, size, asize, rw, avail)
    IN /\ Apply(t, m, Unclear(as[t].pt, made.pt) \cup
                {x \in {"fixed address", "unaligned address", "short file", "wraps around", "area in use"} :
                      \/ x = "fixed address" /\ hint # 0 /\ hint % PAGE_SIZE = 0
                      \/ x = "unaligned address" /\ hint % PAGE_SIZE # 0
                      \/ x = "short file" /\ avail < size
                      \/ x = "wraps around" /\ addr + asize >= Word
                      \/ x = "area in use" /\ hint = 0 /\ m.st = "ok" /\ InUse(as[t], m.ret, size)})
       /\ UNCHANGED drift

(* A program that unmaps one whole page it got from mmap does nothing odd. *)
munmap(t, addr) ==
    LET i == _find_region(as[t], addr)
        r == as[t].regs[i]
        m == vmm_munmap(as[t], free, addr)
    IN /\ i # 0
       /\ Apply(t, m, IF /\ addr = r.addr /\ r.size = PAGE_SIZE /\ r.addr % PAGE_SIZE = 0
                         /\ r.addr >= as[t].data_end /\ r.addr # as[t].stack_end
                      THEN {} ELSE {"odd munmap"})
       /\ drift' = drift + m.ret

(* The heap, from the end of the program to the break, lies in region i. *)
HeapRegion(a, i) == a.regs[i].rw /\ a.regs[i].addr = a.elf_end /\ a.data_end <= End(a.regs[i])
HasHeap(a) == a.data_end > a.elf_end => \E i \in 1..Len(a.regs) : HeapRegion(a, i)

(* do_brk and do_sbrk. *)
brk(t, inc) ==
    LET addr == (as[t].data_end + inc) % Word IN
    /\ Apply(t, vmm_set_brk(as[t], free, addr),
             {x \in {"shrink", "lost heap"} :
                  \/ x = "shrink" /\ as[t].data_end - addr >= PAGE_SIZE
                  \/ x = "lost heap" /\ ~HasHeap(as[t])})
    /\ UNCHANGED drift

(* A program accesses a byte: pg_page_fault_handler in user mode and
   vmm_page_fault_handler.  A fault that changes nothing comes again for ever. *)
InRegion(a, addr) == \E i \in 1..Len(a.regs) : a.regs[i].addr <= addr /\ addr < End(a.regs[i])
Writable(a, addr) == \E i \in 1..Len(a.regs) : /\ a.regs[i].addr <= addr /\ addr < End(a.regs[i])
                                              /\ a.regs[i].rw

segfault(a, addr, write) ==
    \/ _find_region(a, addr) = 0
    \/ write /\ ~a.regs[_find_region(a, addr)].rw

access(t, addr, write, junk) ==
    LET a == as[t]
        e == a.pt[Page(addr)]
        legal == InRegion(a, addr) /\ (write => Writable(a, addr))
        what == IF legal THEN {} ELSE {"illegal access"}
        made == make_tables(a, {Page(addr)}, junk)
        left == without_tables(free, a, {Page(addr)})
    IN /\ e = Absent \/ (write /\ ~e.rw)
       /\ IF segfault(a, addr, write)
          THEN /\ fault' = IF legal THEN "refused" ELSE fault
               /\ UNCHANGED <<as, free, status>>
          ELSE IF e # Absent
          THEN /\ fault' = "repeats"
               /\ UNCHANGED <<as, free, status>>
          ELSE IF left = {}
          THEN status' = "panic" /\ UNCHANGED <<as, free, fault>>
          ELSE /\ as' = [as EXCEPT ![t] = [made EXCEPT !.pt = pg_map_to(@, Page(addr), Min(left),
                                                                       a.regs[_find_region(a, addr)].rw),
                                                       !.page_counter = @ + 1]]
               /\ free' = left \ {Min(left)}
               /\ UNCHANGED <<fault, status>>
       /\ odd' = odd \cup what \cup (IF as'[t] = a THEN {} ELSE Unclear(a.pt, made.pt))
       /\ UNCHANGED drift

(* do_fork: vmm_aspace_create(t->aspace) for the child. *)
fork(t, c, junk) ==
    LET S == {x[2] : x \in Copies(as[t])} \cap UserPages
        dst == make_tables(EmptySpace(Min(free)), S, junk)
        left == without_tables(free \ {Min(free)}, EmptySpace(0), S)
        m == IF Cardinality(free) <= Cardinality(missing_tables(EmptySpace(0), S))
             THEN Result("panic", as[t], free, 0) ELSE _fork_aspace(as[t], dst, left)
    IN /\ as[c] = NULL
       /\ as' = [as EXCEPT ![c] = IF m.st = "ok" THEN m.a ELSE NULL]
       /\ free' = m.free
       /\ odd' = odd \cup (IF \E x \in Copies(as[t]) : as[t].pt[x[2]] = Absent
                           THEN {"fork before use"} ELSE {})
                     \cup (IF m.st = "ok" THEN Unclear(Clear, dst.pt) ELSE {})
       /\ status' = Halt(m)
       /\ UNCHANGED <<drift, fault>>

(* do_execve, whose arguments can be copied or not: a failure leaves the new
   space behind, with its frames.  The directory of the old one stays behind,
   too. *)
execve(t, prog, copied, junk) ==
    \E m \in {exec_aspace(free, prog, junk)} :
    LET done == m.st = "ok" /\ copied IN
    /\ as' = [as EXCEPT ![t] = IF done THEN m.a ELSE @]
    /\ free' = m.free
    /\ odd' = odd \cup IF done THEN Unclear(Clear, exec_tables(free, prog, junk).pt) ELSE {}
    /\ status' = Halt(m)
    /\ UNCHANGED <<drift, fault>>

(* task_destroy: vmm_aspace_destroy and vmm_destroy_directory. *)
exit(t) ==
    /\ t # first
    /\ as' = [as EXCEPT ![t] = NULL]
    /\ free' = free \cup {as[t].pd}
    /\ drift' = drift + (IF as[t].pd \in free THEN 1 ELSE 0)
    /\ UNCHANGED <<odd, fault, status>>

Live == {t \in Spaces : as[t] # NULL}
UserAddresses == 0..(VM_USER_END - 1)

Next ==
    /\ status = "running"
    /\ calls < MaxCalls /\ calls' = calls + 1
    /\ \E t \in Live :
        \/ \E hint \in {0} \cup Hints, size \in MmapSizes, rw \in Protections,
             avail \in {0, PAGE_SIZE, Word}, junk \in Junk(1) : mmap(t, hint, size, rw, avail, junk)
        \/ \E addr \in UserAddresses : munmap(t, addr)
        \/ \E inc \in Breaks : brk(t, inc)
        \/ \E addr \in UserAddresses, write \in BOOLEAN, junk \in Junk(1) : access(t, addr, write, junk)
        \/ \E c \in Spaces, junk \in Junk(2) : fork(t, c, junk)
        \/ \E prog \in Programs, copied \in BOOLEAN, junk \in Junk(2) : execve(t, prog, copied, junk)
        \/ exit(t)
    /\ touched' = touched \cup (free \ free')
    /\ Cardinality(odd' \ {"uncleared table"}) <= MaxOdd

Spec == Init /\ [][Next]_vars

(***************************************************************************)
(* Properties.                                                             *)
(***************************************************************************)
Space == [regs : Seq(Region), pt : [UserPages -> Entry], tables : SUBSET Nat, pd : Frames \cup {0},
          elf_end : Nat, data_end : Nat, stack_end : Nat, page_counter : Int]

(* The variables have their types. *)
TypeOK ==
    /\ \A t \in Live : as[t] \in Space
    /\ free \subseteq Frames \cup {0}
    /\ touched \subseteq Frames \cup {0}
    /\ drift \in Nat
    /\ fault \in {"none", "refused", "repeats"}
    /\ status \in {"running", "panic", "corrupt", "wrapped"}

(* The regions of an address space are in order and do not overlap, however
   mmap, brk, munmap, fork and execve follow each other, until a program whose
   heap is in another region moves its break or a break wraps around. *)
RegionsSorted ==
    TypeOK /\ ("lost heap" \notin odd /\ status # "wrapped" =>
        \A t \in Live : \A i, j \in 1..Len(as[t].regs) :
            i < j => End(as[t].regs[i]) <= as[t].regs[j].addr)

(* No two pages of programs share a frame, none is the directory of a program,
   no frame in use is free and none is freed twice, unless a program forked with
   memory it had never touched, unmapped something other than a single page of
   its own, or got a page table that held something. *)
FramesExclusive ==
    odd \cap {"fork before use", "odd munmap", "uncleared table"} = {} =>
        /\ drift = 0
        /\ \A t, u \in Live :
              /\ as[t].pd \in Frames \ free
              /\ as[t].pd = as[u].pd => t = u
              /\ \A p, q \in UserPages :
                    LET e == as[t].pt[p] IN
                    e # Absent => /\ e.frame \in Frames \ free /\ e.frame # as[u].pd
                                  /\ e.frame = as[u].pt[q].frame => t = u /\ p = q

(* The heap, from the end of the program to the break, lies in one writable
   region: what sbrk has granted stays granted, unless the break wrapped around. *)
HeapCovered ==
    odd \cap {"odd munmap", "fixed address", "unaligned address"} = {} /\ status # "wrapped" =>
        \A t \in Live : as[t].elf_end <= as[t].data_end /\ HasHeap(as[t])

(* A program is not killed for accessing its own memory, and no page fault
   repeats for ever, where page tables were clear. *)
FaultsHonest ==
    odd \cap {"area in use", "odd munmap", "illegal access", "fixed address", "unaligned address",
              "short file", "shrink", "uncleared table"} = {} => fault = "none"

(* User mappings never reach the kernel's half of the address space. *)
KernelUntouched ==
    odd \cap {"wraps around", "unaligned address", "odd munmap", "lost heap"} = {} => status # "corrupt"

(* A child has every page of its parent's regions that its parent has:
   _fork_aspace walks regions that need not begin at a page in steps of a page.
   The one exception is the last page of a region that begins inside a page and
   has the size of whole pages, which the walk never visits. *)
ForkIsComplete ==
    [][odd \cap {"unaligned address", "odd munmap", "lost heap"} = {} =>
       \A t \in Live, c \in Spaces \ Live :
          as'[c] # NULL /\ (\E junk \in Junk(2) : fork(t, c, junk)) =>
          \A i \in 1..Len(as[t].regs) : LET r == as[t].regs[i] IN
              r.addr % PAGE_SIZE = 0 \/ r.size % PAGE_SIZE # 0 =>
                  \A p \in PagesOf(r.addr, r.size) \cap UserPages :
                      as[t].pt[p] # Absent => as'[c].pt[p] # Absent]_vars

(* "each entry indicate one frame mapped to virtual address space or its lack"
   (virtual_memory.md): an entry is present where a frame was mapped into a region
   of the address space, and nowhere else.  The code does not keep this: pg_map_to
   does not clear the table it makes. *)
MappedInRegions ==
    odd \subseteq {"uncleared table"} =>
        \A t \in Live : \A p \in Mapped(as[t]) :
            \E i \in 1..Len(as[t].regs) : p \in PagesOf(as[t].regs[i].addr, as[t].regs[i].size)
=============================================================================
