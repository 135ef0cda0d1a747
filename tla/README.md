# A verification project for TrytonOS (POLX)

TrytonOS is a small i386 kernel with a C library and a handful of programs. This
directory models its own logic in TLA+: the tasks and their scheduler, the lists they are
kept in, physical frames, page tables and address spaces, the two heaps, files and their
descriptors, and the terminal. TLC checks the models on small instances; TLAPS proves the
properties of frames, address spaces, task lists, tasks, heaps, the kernel's virtual areas,
files and the terminal for every size.

Paths are relative to the repository root (`src/` in front of them in `PROJECT.json`).

## 1. The system

One CPU. The kernel runs with interrupts off, except in the idle loop of `task_switch`;
interrupts and system calls enter it from user mode. Kernel functions that end in
`context_switch` do not return to their callers.

| component | state | operations | interacts with |
|---|---|---|---|
| physical memory manager, `kernel/memory/pmm.c` | bitmap, `free_frames`, `last_free_idx` | get/free frame, get/free pool | paging, vmm, ramfs take and give back frames |
| kernel heap, `kernel/klib/kmalloc.c`, `kfree.c` | chunk headers, five sizebins, sortedbin, void chunk | `kmalloc`, `kfree` | everything in the kernel |
| C library heap, `libc/stdlib/malloc.c`, `free.c` | the same, and `heap_size` | `malloc`, `free`, `_heap_expand` | `sbrk` |
| scheduler, `kernel/cpu/scheduler.c` | `os_q`, `user_q`, `sleep_q`, three counters, `actual_task`, `next_to_run` | add, remove, sleep, wake, next task | task.c, all blocking system calls |
| tasks, `kernel/cpu/task.c`, `fork.c`, `exit.c`, `waitpid.c` | TCBs, task tree, `old_tid` | new, destroy, switch, fork, exit, waitpid | scheduler, signals, vmm, fds |
| signals, `kernel/ipc/signal.c` | `mask`, `current` of a TCB | `sig_send`, `sig_handler` | exit wakes the parent; task switch handles SIGCHLD |
| stdin, `kernel/vfs/dev_stdin.c` | `wait4input` | `_stdin_read`, `dev_stdin_recall` | scheduler, terminal |
| timer and interrupts, `dev/timer`, `kernel/arch/i386/isr.c` | tick | task switch every tenth tick | `task_switch` |
| vmalloc, `kernel/klib/vmalloc.c`, `vfree.c` | list of used regions | `vmalloc`, `vfree` | kernel stacks, ramfs |
| address spaces, `kernel/memory/vmm.c` | regions, break, stack of a task | mmap, munmap, brk, fork, page fault | paging, pmm |
| paging, `kernel/arch/i386/paging.c` | page directories and tables | map, unmap, copy | vmm |
| file descriptors, `kernel/vfs/fd.c`, `open.c` ... | `used_fd`, `fd_ctr`, positions, `active_fds` | open, close, read, write, lseek | shared by fork |
| file systems, `kernel/vfs/` | tree of nodes, ramfs frames | lookup, create, remove, read, write | pmm, kmalloc |
| program loading, `kernel/cpu/execve.c`, `elf_loader.c` | none of its own | `execve` | vmm, files |
| terminal, `dev/terminal/`, `dev/keyboard/` | screen, edited line, cursor | keys, output | stdin |

What is hard here, and a test hardly reaches (`PROJECT.json`, `hazards`, has the lines):

* the order of fork, exit, waitpid and timer ticks of several tasks;
* pointers that outlive what they point to: `wait4`, `wait4input.t`, `actual_task`, the
  links in freed TCBs, `last` of an empty queue; the allocator reuses addresses;
* functions that are abandoned half-way because a callee switches tasks (`do_exit` called
  from `task_destroy`, itself called from `sig_handler`);
* hand-kept counters (`free_frames`, `running_tasks`) on which panics, the idle loop and a
  recursion depend;
* everybody asleep;
* page tables shared between directories that were copied at different times, and made of
  frames that nobody clears;
* regions that need not begin or end at a page, and frames reached through them;
* descriptors shared by fork without a count of references, counters that stop loops, and a
  list through descriptors whose links outlive them;
* a line of input that exists only on a screen that wraps and scrolls.

## 2. Modules

| module | models | how |
|---|---|---|
| `Pmm` | pmm.c | the bitmap is the set `used`; `holders` records who holds a frame |
| `MemoryProofs` | | theorems about `Pmm` and `Vmm` |
| `TaskQueue` | | the abstract sequences that task lists promise |
| `TaskQueueList` | scheduler.c, the queues | `first`, `last`, `counter`, `next`, `prev`, pointer by pointer |
| `ChildList` | task.c, `_add_child`, `_remove_child` | `first_child` ... `next_sibling`, pointer by pointer |
| `MCTaskLists` | | runs both of the above |
| `TaskListsProofs` | | theorems about both, and their refinement of `TaskQueue` |
| `Heap` | what kmalloc.c/kfree.c and malloc.c/free.c have in common | chunk headers by address, bins as sequences |
| `Malloc` | the two heaps | adds the kernel's area and panic, the C library's expansion |
| `HeapProofs` | | theorems about `Malloc`, so about both heaps |
| `Tasks` | scheduler.c, task.c, fork.c, exit.c, waitpid.c, signal.c, dev_stdin.c | see below |
| `TasksProofs` | | theorems about `Tasks` |
| `RegionList` | the insertions and removals of the two lists of regions | sequences |
| `Areas` | | abstract: a set of ranges that do not overlap |
| `Vmalloc` | vmalloc.c, vfree.c, vmm_misc.c, paging.c for the current directory | list of regions, directories, shared page tables, frames |
| `VmallocProofs` | | theorems about `Vmalloc` |
| `Vmm` | vmm.c, mmap.c, munmap.c, sbrk.c, elf_loader.c; the address-space parts of execve.c, fork.c, task.c; paging.c for other directories | one record per address space |
| `Files` | vfs.c, namei.c, ramfs.c, tarfs.c, devfs.c, dev_zero.c, initrd.c, the file system calls; the descriptor parts of fork.c, exit.c, execve.c, main.c | vnodes and descriptors by address |
| `FilesProofs` | | theorems about `Files` |
| `Terminal` | terminal.c, cursor.c, vga_text_mode.c, keyboard.c | the screen as an array of cells |
| `TerminalProofs` | | theorems about `Terminal` |
| `SequenceLemmas` | | lemmas on numbers, sequences, doubly linked lists and recursive functions that several proofs use |
| `MCAllocators`, `MCTasks`, `MCVmalloc`, `MCVmm`, `MCFiles` | | instances for TLC |

`Tasks` uses the queues and sibling lists as sequences; that the linked lists behave so is
what `TaskQueueList` and `ChildList` show (`ImplementsQueues`, `ImplementsLists`, both proved). The
record `k` says which kernel function is being executed, for which task; one action is one
function up to its next call, because `do_exit`, `task_destroy`, `sig_handler` and the
switches call each other without returning. `tcb[s]` is the TCB at address `s`; `do_fork`
may put a new TCB at any free address, so reuse of addresses is explored. Freed memory has
no task id: `task_id` is the first word of a TCB, which `kfree` overwrites with a list link.

`Vmalloc` counts addresses and sizes in pages. `table[d][g]` is the page table through which
directory `d` reaches group `g` of pages and `pte` the entries of a table, so that two
directories share a table exactly when the code shares it. Directories and tables take frames;
a directory's frame comes back when its task is destroyed, and a table made of a used frame
holds an element of `Garbage`. Which free frame the allocator hands out is left open.

`Vmm` is a machine with small pages whose addresses are still bytes: regions begin inside
pages, data and bss share one, sizes are rounded by `align`, and arithmetic is modulo `Word`.
Each system call is one action, because it runs with interrupts off. The functions of vmm.c
are operators that return the new address space, the frames left and a result (`Result`);
an action applies it. Loops whose course matters, the search for a free area and the loop of
`vmm_munmap`, are recursive functions of the number of rounds (`search_round`,
`munmap_round`). `status = "corrupt"` stands for a write into the kernel's half, "wrapped" for a
region that a break made larger than the address space; the model ends there.

The entries of an address space are in `pt`, `tables` says which page tables it has and `pd` is
the frame of its directory. An operation first makes the tables its pages lack (`make_tables`):
their frames are taken, and their other entries are what the frame held. A frame that was never
used holds zeros; one that was (`touched`, and `Used` for what happened before) may hold
anything that `Garbage` lists. Of the frames left the allocator hands out the lowest, and those
that were put back first (`Junk`); the theorems do not depend on which. An entry has a frame and
PG_RW; PG_USER is left out, because an entry without PG_RW shows the same: a fault for which
`vmm_page_fault_handler` has nothing to do.

`Files` keeps vnodes and descriptors in maps from addresses; NULL at an address means
released memory, and a system call on it is `status = "crash"`. `fd_list` is the list of fd.c:
`first_fd` and, for every address at which descriptors are allocated, both links, which stay when
the descriptor is released and are found again by the next one there. `stray` records the writes
of `fd_add` and `fd_remove` to released descriptors; a write to memory that never was a
descriptor is `status = "overwritten"`, where the model ends. `Leftovers` is what objects of other
kinds may have left in the memory of a new descriptor. It is empty in the runs, where descriptors
use memory that was never used or was last used by a descriptor; the theorems hold for any. A path
is the sequence of its components, an empty component included, at which the code's walk ends early.

`Terminal` records in `typed` and `at` what the user typed and where the user is in it, as a
line editor would; the properties compare it with what is on the screen.

`Vmm`, `Files` and `Terminal` have a variable `odd`: the set of unusual things programs or
the user have done so far, each at a place where the code has a defect (section 3). A
property names the ones it does not hold after; everything else is in scope, and a step that
adds to `odd` is still modelled with what the code does. `MaxOdd` bounds how many kinds are
explored in one behaviour. The kinds in `Vmm` are "fixed address" and "unaligned address" (mmap
is given an address), "short file" (it maps more than the file has), "wraps around" (the area
goes over 2^32), "area in use" (mmap chose memory that is mapped), "odd munmap" (anything but
one page that came from mmap), "shrink" (the break goes down by a page or more), "lost heap" (the
break moves while the heap is not in a region of its own), "fork before use" (memory that was
never touched is forked), "illegal access" and "uncleared table" (a page table was made of a frame
that held entries: nothing a program does, and not counted by `MaxOdd`).

`Allowed` restricts what programs and the user do, so that a property can be stated for
the programs it is true for. The empty set is how the shell runs a program: one child at a
time, which is waited for and has the keyboard to itself. When the child ends is not a habit
but the timer's doing: in every run it may end before its parent gets from fork (shell.c:67)
to waitpid (shell.c:77). `initrd/bin/concurrency_test.c` forks two children and waits for
neither; it is covered where "siblings" and "orphan" are allowed (`tasks_any`). `Freedoms` is
everything. Nothing in the kernel depends on it.

A definition `mut_...` is a faulty variant of the definition that follows it. None is used
by a specification; each shows, put in the place of the original, that a property notices
the fault (`PROJECT.json`, `mutants`).

Abstractions worth knowing:

* All tasks have priority OS, as in the program (main.c, fork copies the priority). `user_q`,
  `next_to_run` and the preemption in `sched_add_task` and `sched_set_state` are unreachable
  and left out, and so is the panic of `_remove_child` for init.
* The CPU's return to a program (registers, stacks, address spaces) is left out; `ret` is the
  saved return value.
* A freed TCB whose memory was reused for something other than a TCB is taken never to hold
  the id of the exiting task in its first word.
* `Word` replaces 2^32 in `Heap`, which TLC cannot compute with; the arithmetic is that of
  the code, modulo `Word`, and the size field two bits shorter.
* `Pmm` models correct callers: they give back only what they hold. A double free would make
  `free_frames` drift, on which `RetryFindsFrame` depends.

## 3. What TLC checks

Passing runs:

| run | instance | shows |
|---|---|---|
| `allocators` | 9 frames, 2 reserved: pools of all sizes, holes, exhaustion; both heaps, requests of three sizes, room for three to seven chunks | frames are exclusive, the counter is exact, the recursive retry of `pmm_get_frame` ends, the panic is honest; chunks tile the heap, each free chunk is in exactly one bin, first fit is best fit, requests fit with their header |
| `task_lists` | 4 TCBs, 2 queues, 2 parents: heads, tails, inner elements, reuse | forward and backward links agree, no link leads to a freed TCB, both lists implement sequences |
| `tasks_any` | 4 TCBs, 4 ids, everything allowed | queues, states, counters and tree agree; the CPU owner is queued; entry conditions of every kernel function |
| `tasks_family` | 3 TCBs, 4 ids, several children, any timing of exit and waitpid | no wake-up is missed; waitpid delivers the child's own status; the reader of stdin is the one Enter wakes; a zombie that was waited for is about to be reaped |
| `tasks_live` | 3 TCBs, 5 ids, one running child per task, any timing of exit and waitpid, fairness | the end of `do_exit` finds a task to run, or there is none left; round robin starves nobody, a signalled parent runs again |
| `vmalloc` | 4 pages behind two page tables, one of them made at boot, requests of 1 and 2 pages, 6 frames, 2 directories; frames that become tables are clear, or full of entries | regions are sorted and apart, `used_pages` is exact, behind the boot table all address spaces see the same mappings and no frame is mapped twice, the list implements a set of ranges |
| `vmm` | pages of 2 bytes, 9 user pages, tables of 2 entries, 18 frames, all used before, 2 address spaces, 4 calls; breaks that shrink, grow and wrap; mmap with three sizes (one larger than what is free), at no address, at one inside the program, at one behind it and at the kernel's first page, read-only and writable | regions are sorted, frames exclusive, the heap covered, page faults honest, the kernel untouched, fork complete |
| `files` | tables of 4, 3 descriptors, 2 new vnodes, 2 tasks, 6 calls | descriptors have their file and their one owner, nothing is lost, positions stay in the file, the tree's links agree |
| `terminal` | a screen of 3 rows of 2, lines of up to 5 characters | Enter reads back what was typed, the cursor is where it belongs, no key panics |

Bounds. Four TCBs give a chain of three generations below init, the depth at which a task
whose exit was abandoned is killed a second time with its grandparent, and two children at
two parents. More ids than TCBs (`tasks_family`, `tasks_live`) force reuse of addresses.
`tasks_any` uses a view without return values, exit statuses and `total_tasks`: the kernel
writes them but decides nothing by them. TCB addresses are symmetric; the liveness run uses
neither symmetry nor view. It reaches the zombies of `tasks_zombie` and the panic they lead to; its
properties hold until the machine halts. Three generations that have not come to waitpid are three
runnable tasks.

In `vmalloc` the frames of pages and tables are never given back, as in the code, so behaviours
are finite; six frames let a page be released, its address reused and its neighbour still be
mapped, next to a directory and a second table. In `vmm` the
program has a text segment and a data segment whose bss shares a page with its data, so that
every walk meets a region that begins inside a page; a second program, with two segments on one
page, cannot be loaded, because the region of the first goes to the end of the page. Four
calls are enough to grow the heap, touch it, fork and touch it in the child. Tables of two
entries lie behind pages of the program, between it and the area mmap finds, and behind the
stack, so each operation that maps can be the one that makes a table; `Garbage` has present
entries without PG_RW where the heap will be and next to what mmap maps. In `files`
six calls create, open, fork, close and remove across two tasks with a full table within
reach; vnodes and descriptors are symmetric. `vmm` and `files` have `MaxOdd` = 1: after one
kind of unusual thing behaviour goes on, after a second it is cut off. `terminal` has
`MaxOdd` = 0, lines that wrap over three rows, and output before, between and after them.

Fairness. `WF(KernelStep)`: kernel code is straight-line code that runs to its end.
`WF(TimerSwitch)`: the timer keeps ticking while a program runs. Nothing is assumed of
programs, which may loop for ever, or of the keyboard.

Deadlock is not an error in these runs: `panic` halts the machine, and a kernel that idles
with the keyboard untouched waits for ever; `vmm` and `files` end after `MaxCalls`.

Three runs end in a violation, a disagreement between the code and what the repository says of
it (`PROJECT.json`, `findings`, has the lines and the quotations):

| run | property | what happens |
|---|---|---|
| `tasks_zombie` | `ZombieWillBeReaped` | `wait4` is never cleared; a later child at the same address exits before its parent gets to waitpid, matches it and becomes a zombie nobody reaps; one child at a time is enough |
| `files_list` | `ListOfOpen` | open A, open B, close B, close A: `fd_remove` writes into the released B |
| `vmm_tables` | `MappedInRegions` | a program maps and unmaps single pages, then maps more: the new page table is a used frame, and a page of no region is present |

`vmm_tables` has `Used` empty: the frames a program gives back suffice. A property of a passing
run that excludes a case in which the code fails does so by name (`odd`, `status`); the hazard in
`PROJECT.json` then names the property of the violation, or has a note.

Seen while modelling, and in the models as the code does it:

* Tasks. `task_destroy` means to "Kill all task childs" (task.c:96), but `do_exit` does not
  return: only the first child dies. The last runnable task that exits while others sleep panics
  in `task_switch_to` (task.c:165) instead of idling. The system may halt with tasks left even
  when every program waits for its children: a forgotten zombie (`tasks_zombie`) is killed once
  more when its parent exits and is reaped, and waking the parent, which is in no queue, panics
  (`notify_parent_panic`). Enter with no reader makes `dev_stdin_recall` follow NULL; a second
  reader of stdin is forgotten; who waits for a task that is not its child sleeps for ever; the
  stale `wait4` also wakes a parent that sleeps in read(stdin). The dispatcher drops the -1 of a
  waitpid that finds no task (isr.c:127): the program sees the number of the system call, where
  doc/kernel/syscalls.md:61 promises -1. When `sig_handler` is abandoned because the zombie had
  children, its task keeps the state RUNNING and handles the signal once more when it runs again.
* Heaps. `VM_KMALLOC_START` lacks parentheses (vmmap.h:16): `kmalloc` hands out memory behind
  `VM_KMALLOC_END`. After an expansion `malloc` computes the rest from the old size
  (malloc.c:239): it hands out memory behind the break. `kmalloc` panics although a larger
  sizebin has a free chunk; `prev_free` is not set in a chunk made from the void chunk behind
  a free one (nothing reads it yet).
* Paging. `pg_unmap` and `pg_unmap_from` return `paddr | PG_ALIGN` (paging.c:168, 188): no frame
  is ever given back. A page table made by `pg_map` (paging.c:96) enters the current directory
  only and, like one made by `pg_map_to` (paging.c:111), is not cleared; the kernel's area is the
  same everywhere only behind the table made at boot: the first region behind another table is
  mapped for the task that asked for it, and missing, or something else, in the spaces made
  before. paging.h:40 promises directories "with copied kernel part". Frames come back through
  `vmm_munmap`, which looks them up itself, and as directories (task.c:107); they are the next
  ones to be handed out, so a table soon gets one. `vmm_cont_map` uses the 0 of a failed
  `pmm_get_pool` as an address.
* Address spaces. `_is_area_free` (vmm.c:33) lets mmap return memory in use ("area in use", "fixed
  address"), and `_insert_region` then links no region. A search that finds nothing for a large
  size runs below address 0, and the address it wraps to counts as free ("wraps around"). For an
  address inside a page the size that is checked, `aligned_size`, is shorter than what is mapped
  (vmm.c:282): a mapping near `VM_USER_END` reaches a page of the kernel ("unaligned address").
  `vmm_munmap` looks up and frees the frame of the given address in every round (vmm.c:375; "odd
  munmap"): unmapping two pages by their address panics. Growing the break of the topmost region
  falls into the shrinking code (vmm.c:587); it takes an munmap of the stack to get there. When
  the region that `vmm_set_brk` finds at the beginning of the heap is not the heap, because that
  was unmapped or a mapping took its place ("lost heap"), shrinking makes its size negative and
  the list is no longer sorted. `brk` of the current break before the first growth inserts an
  empty region, in front of which no heap fits any more. A shrinking break unmaps from the page
  behind the region on (vmm.c:596). The sum at vmm.c:576 wraps: with a heap in place a break near
  2^32 is granted and the heap's region covers everything behind it (`status` "wrapped"). A page
  that is not present when its owner forks becomes physical page 0 in the child ("fork before
  use"). `_fork_aspace` (vmm.c:218) never visits the last page of a region that begins inside a
  page and has the size of whole pages, as a bss of whole pages behind unaligned data has: the
  child finds zeros there. The proof of `ForkIsComplete` failed on it, and the property now names
  it. `_find_region` counts the byte behind a region as part of it (vmm.c:127): in a program whose
  last segment is read-only the first byte of the heap would be refused; the linker puts the
  writable data last.
* Files. `fork` shares descriptors (fork.c:29; "shared"). The list of fd.c is wrong after most
  orders of closing: the element behind a removed first one keeps its `prev`, `next` of a
  descriptor that is alone is not set (fd.c:8), and neither is `prev` of a new one. `close` of a
  default descriptor only counts down (close.c:25; "default closed"). EMFILE leaves the descriptor
  and `active_fds` behind (open.c:66; "table full"). `rmdir` removes open directories;
  `remove("/")` follows a NULL inode (ramfs.c:114). A write with no room in the file repeats for
  ever (write.c:37), where doc/kernel/syscalls.md:161 has it return the number of written bytes.
  SEEK_END is SEEK_SET (lseek.c:31). `_find_free_fd_num` tests the entry behind the table before
  the index. `tarfs_init` makes a file of a whole number of blocks one block too short, and an
  empty one 2^32 - 512 bytes long (tarfs.c:90). `devfs_remove_dev` (unused) removes the first
  device with another name; `namei_mount` tests with `&&` what it means with `||`.
* Terminal. Inserting in a line that ends in the last cell, END in a line that does not begin at
  the left margin, HOME and Enter in a line of several rows at the bottom (cursor.c:43), a line as
  long as the screen, a line from the first row that is longer than TERMINAL_MAX_LINE_LEN ("too
  long from the top"; the proof of `CursorTracks` failed on it), and output while a line is being
  typed (terminal.c:158) each break the line or the cursor; these are the kinds in `odd`.
  `terminal_clear` leaves the last row.

## 4. What is proved

`MemoryProofs`, about `Pmm`, for every number of frames and every non-empty reserved part
(`PmmAssumption`, which arch_init.c guarantees):

* `PmmSafety`: `PmmTypeOK`, `ExclusiveFrames`, `BitmapExact` and `Accounting` always hold. None is
  inductive alone: that a frame found by the scan has no holder needs the bitmap to be exact,
  and the counter needs the frames given back to have been marked. Their conjunction is
  inductive. Cardinalities are handled by lemmas on adding and removing a set of frames.
* `RetryTerminates`: the second scan finds a frame whenever the counter is not zero, because
  everything below `kernel_end_idx` is reserved.
* `PanicHonest`: at a panic every frame that is not reserved is held. Needs `status` to imply
  that the counter was zero when it was set.

`MemoryProofs`, about `Vmm`, for any number of tasks and frames, every size of pages and words,
any sizes and addresses given to mmap, any changes of the break and any number of calls. The
assumptions on the constants are of two kinds. `VmmAssumption`: the stack lies below
`VM_USER_END`, both are at page boundaries, and `VM_USER_END` is at least a page below 2^32
(vmmap.h); sizes given to mmap are at least a page below 2^32. `ProgramAssumption`: segments are
in the order of their addresses and do not overlap, their alignment is a multiple of a page,
segments of different protection are on different pages, the last one is writable, and all of
it ends a page or more below the stack. This is what `ld` writes for programs with writable data
(initrd/Makefile calls it without a script of its own); elf_loader.c checks none of it.

`GarbageAssumption`: what is left in a frame can be read as entries; no theorem says which.

The argument has three layers. For each function of vmm.c a lemma says what it does to one address
space (`Mapping`, `Munmaps`, `Moves`, `Forking`, `Loads` are the relations; recursive functions
are followed round by round with `LeastNat`). `NextSteps` shows that every step of the system
makes the tables that are missing and applies one of them to one space. A property of single
spaces is then a set of spaces that neither leaves unless something odd is done (`Keeps`): a table
that is made changes entries that were absent, and where it holds entries the step is an
"uncleared table" (`Retabled` for a space that exists, `Blank` for a new one). So a property of
regions alone, as `RegionsSorted` and `HeapCovered`, survives any contents of tables, and one of
entries holds until then. `EachSpace` carries it to all tasks.

* `RegionsAlwaysSorted`. `_is_area_free` looks at one neighbour only, but `_insert_region` links a
  region only where it fits between two; the break moves the end of the heap's region no further
  than the next one, unless the sum of its end wraps, where the model ends ("wrapped"). That the
  region found is the heap is `HasHeap`, or else the call is a "lost heap".
* `FramesAlwaysExclusive`. The invariant is about all spaces at once: mapped frames are not free,
  no two entries have the same frame, and none that of a directory; directories differ. Tables and
  directories take frames as well, and a directory's comes back with `exit`. Each operation takes
  frames from the free ones and gives them to different pages; this is proved once for a change of
  one space (`Swap`) from what `Nth` and `Lowest` hand out: the k lowest frames are k different
  ones.
* `HeapAlwaysCovered`. `HeapSpaces` says besides that what begins below the end of the program ends
  there (`Below`): otherwise the search for the heap at `elf_end + 1` could find a segment. An
  area found by mmap lies at least a page behind the break, so it never is in the heap's way.
* `KernelNeverTouched`. `StackSpaces`: the stack's region is in the list, a page or more behind
  the program, and all regions end below `VM_USER_END`. So the heap's region is never the last
  one, which is what keeps `vmm_set_brk` from falling through to the shrinking code.
  `_is_area_free` compares sums modulo 2^32, which are right only for areas that do not wrap.
* `ForksAreComplete`. `Shaped` describes the regions that can arise: those behind the program begin
  at a page; those of the program have the size of whole pages, end at a page or are followed by
  the next region without a gap. A walk in steps of a page from inside a page misses at most the
  last page, and then, the exception aside, the next region's walk begins there.
* `FaultsAlwaysHonest`. `Honest` has five parts: a mapped page has the protection of every region on
  it (`Protected`), the first page of every region but the heap's is mapped (`Begun`), regions on
  one page have one protection (`Agreed`), behind the program only pages of regions are mapped
  (`Owned`), and no read-only region touches the end of the program (`EndWritable`). `Begun` and
  `EndWritable` are there because `_find_region` may return the region in front of the byte: then
  the page is either mapped, or the byte is the heap's first and both regions are writable.
  `Owned` is what lets a new mapping or a larger heap have the protection of its pages to itself.
  That a program that was just loaded is `Honest` (`NewHonest`) is where the assumption on
  segments and their protections is needed.

The type invariant is part of all of them (`TypeInv`). The run `vmm` checks the same properties
on its instance, the assumptions included.

`TasksProofs`, for every set of TCB addresses, every number of tasks, every set of exit
statuses and every `Allowed`, so whatever programs and the user do (`TasksAssumption`):

* `Inductive`: `IndInv` always holds. It is `TypeOK`, the properties below and
  `EntryConditions`, what each kernel function finds when it is entered. The properties are not
  inductive without them: that `resume` runs a queued task depends on what the switch before it
  chose, and that choice on a task that has just gone to sleep being the last of `sleep_q`;
  that `task_destroy` frees nothing that a queue or a pending signal still refers to depends on
  which functions can lead to it. `PendingInv` is the least obvious part: a pending SIGCHLD
  always belongs to a zombie child, because `parent->wait4->task_id == task_id` can hold only
  for the exiting task itself, ids being unique and freed memory having none.
* `QueuesSafe`, `QueuedAreAlive`, `CpuSafe`, `TreeSafe`, `IdsSafe` and `EntrySafe` take the
  properties out of it.

One lemma per action shows that it keeps `IndInv`. They rest on lemmas on what
`sched_sleep_task`, `sched_wake_task` and `sched_remove` do to the queues, and these on lemmas
on removing from and appending to a sequence without repetitions. The run `tasks_any` checks
the same formulas on four TCBs.

The other properties of `Tasks` are false of arbitrary programs (section 3), so their theorems
have a hypothesis on `Allowed`, which the runs' values satisfy:

* Under `Families` (nobody ends over a running child, waits for a task that is no child, reads
  stdin while another task does or while a child runs; children may be many and may end before
  they are waited for, as in `tasks_family`): `WaitersSafe`, `ReaderSafe`, `ExitCodesSafe`,
  `AwaitedSafe`. The
  inductive invariant `FamilyInv` says, beside `IndInv`, that the parent of a queued task is
  queued (`NoOrphans`), that SIGCHLD is unmasked only between waitpid and its handling
  (`SignalsInv`), and that the reader of stdin has no child left that could wake it through a
  stale `wait4`. The last one is why "background" is excluded: the code compares with `wait4`
  whatever the parent sleeps for.
  `AwaitedSafe` has an invariant of its own, `ReapInv`: a task whose waitpid has not seen its
  child's exit is still asleep in it, also while that child is in `do_exit` (`AwakeInv`), so the
  exit finds it there; and a zombie with the pid its parent waits for has the signal pending until
  `sig_handler` destroys it (`ZombiesInv`). A zombie that matched a stale `wait4` has another pid.
* Under `Shell` (moreover a task has one running child at a time, as in `tasks_live`; it may end
  at any time): `ExitsSafe`. `ShellInv` adds that parents have smaller ids than their children,
  that no two queued tasks have the same parent, and what each kernel function then finds. An
  exiting task's parent is runnable, or sleeps until this very child ends, since it has no other,
  and is woken. That nobody is left when init exits follows from a least-element argument:
  among tasks still queued the one with the smallest id would have a parent that is queued and
  older. Without the hypothesis it is false: a child in the background that exits while the
  shell reads stdin leaves only a sleeper.

`TaskListsProofs`, for any set of TCBs, queues and parents:

* `QueuesSafe`, `TreeSafe`: the pointers always spell sequences. `Lists` says it without
  recursion: there are sequences without repetition, one per head, such that `first` and `last`
  are their ends, both links of every element lead to its neighbours and every element is in the
  list it is marked to be in. A link of a TCB that is in no list, and `last` of an empty queue,
  are unconstrained, as in the code, which leaves them stale. `LinkTail` and `Unlink` show that
  `_add_to_queue`, `_remove_from_queue`, `_add_child` and `_remove_child` turn it into the same
  for the sequence with an element appended or taken out. `Lists` and both lemmas are in
  `SequenceLemmas`; the tree of vnodes uses them too.
* `BackLinksSafe`, `NoFreedSiblingSafe` follow.
* `RefinesQueues`, `RefinesLists`: the walk of the refinement mapping, a recursive function of the
  number of steps, collects exactly that sequence (`WalkYields`, with a least index at which they
  would differ); so an addition maps to `Add`, a removal to `Delete`.

`HeapProofs`, for both heaps, any requests and any number of chunks. `HeapInv`: every chunk's size
leads to the next chunk or to the void, and none lies in between (`Tiled`); every free chunk is in
exactly one bin, once, the one its size calls for, and the sortedbin is sorted (`Binned`);
requests fit (`DataFits`); the void is smaller than what a size field can hold. The parts need
each other: a split leaves a tiling only if the chunk found is really as large as its bin says,
and a chunk taken from a bin is free only if bins hold nothing else. `ChunksTileSafe`,
`BinsExactSafe`, `SortedbinSafe` and `DataFitsSafe` follow, under two hypotheses: `RequestsFit`, a
request is at most 2^32 - 24 bytes (a larger one wraps around when it is aligned, and gets a chunk
that is too small), and `HeapBelowQuarter`, the heap stays below 1 GB, what the 30 bits of a
chunk's size count; the kernel's area does.

`TerminalProofs`, for every width and height of the screen and every length of the line.
`TerminalInv`: as long as `odd` is empty, the cursor is at position `at` of a line of
`Len(typed)` characters that begins where `line_x`, `line_y` say and ends before the last cell
(`Placed`), and the screen shows `typed` there (`Shows`); or no line has begun. Between them
they determine every field of the cursor. One lemma for each function of cursor.c says where it
puts the cursor, one for each function that shifts a line what it leaves on the screen.
`LineExactSafe` and `CursorTracksSafe` follow. Products of rows and widths are not linear: lemmas on
`Index` (`Places`, `Neighbours`) keep them away from everything else.

`FilesProofs`, for any number of vnodes, descriptors and tasks, any paths and any length of a
descriptor table (`FilesAssumption`: the pools are finite, a counter can count all descriptors,
and NULL and the default descriptors are none of the others; all of it true of addresses).
`FilesInv` is inductive. Its parts:

* `Tree`: there are sequences of children, one per vnode, which the links spell (`Lists` again);
  only the root has no parent; names differ in a directory; what `remove` accepts, the root aside, has
  no children, and what was made at boot cannot be removed or is never empty. The last part is needed to
  show that a removal never cuts off a subtree. `TreeSafe` follows: that the walk of
  `ramfs_readdir`, a recursive function of the number of steps, meets each child once is
  another use of the least index at which two functions would differ.
* `FilesHeld`, `Owned`: as long as nobody forked with files open or removed an open directory,
  every descriptor has a file, every file counts exactly its descriptors, and a descriptor is in
  one table once. The count is what keeps `do_remove` from releasing an open file, and single
  ownership what keeps `do_close` from releasing another task's descriptor, so neither is
  inductive without the other. `DescriptorsSafe` and `PositionSafe` follow. Both are about what
  system calls are made on; that the links of fd.c lead to released descriptors does not break
  them, since only fd.c reads the links, and its stray writes go to links (`files_list`) or, where
  `Leftovers` has an address that never was a descriptor's, end the model.
* `Tidy`: if besides no default descriptor was closed and no table was full, every task has the
  default descriptors, `fd_ctr` counts its table and every descriptor is in some table.
  `NothingLostSafe` follows. The loops of `do_exit` and `do_execve` stop when `fd_ctr` reaches 0
  or their index the end, so the invariant of the loops says what is left to close at each
  index; it is carried along the recursive function `CloseFrom` by the same least-index argument.

`VmallocProofs`, for every area, every set of request sizes, any number of frames and
directories (`VmallocAssumption`):

* `ListSafe`: `ListInv` always holds: the list is well typed, never empty, every region lies in
  the area, neighbours are in order and do not overlap, and `used_pages` is the number of pages
  covered. `RegionsApart` alone is not inductive: the unsigned differences of the hole search
  are right only for a typed, ordered list. `RegionsSafe` and `UsedPagesSafe` follow.
* `RefinesAreas`: `Spec` implements `Areas!Spec` with the set of the regions' ranges for `areas`.
  A `vmalloc` maps to `Take` of a range that meets no other, which is what the hole found
  guarantees; a `vfree` to `GiveBack`; everything else leaves the set as it is.
* `TypeSafe`: types of list, directories, tables and frames.
* `BackedSafe`: `RegionsBacked`, for an area of any number of page tables, under one assumption
  on the constants. `NoPools`: no caller asks for PHY_CONT, true of all callers (task.c:74,
  scheduler.c:95, ramfs.c:33 and 62, read.c:37). The property is about the pages behind the
  table made at boot, 4 MiB of 256, where the search for a hole looks first; behind the others it
  is false (section 3, Paging). The inductive invariant `BackedInv` adds that every live directory
  has the table of the boot directory there, so that all of them read and write the same entries;
  and that every present entry of that table belongs to a region and uses a frame of its own that
  is neither free nor a directory's, so that `vfree` of one region takes nothing from another.
  Tables made later are other frames, so nothing is written through them into this one.

`SequenceLemmas` has what several of these share: removing from and inserting into a sequence,
adding to and removing from linked lists, and `LeastNat`, that a non-empty set of numbers has a
least one. The induction theorems with an operator parameter cannot be used with the provers at
hand; `LeastNat`, from the theorem that a well-founded relation has minimal elements, replaces
them.

Only model-checked: the violations, and the liveness properties `RunnableRuns` and
`ParentResumes`. Liveness under fairness is out of the prover's reach. Every other property of a
passing run is stated by a theorem.

## 5. Not modelled, and the plan

Left out of components that are modelled otherwise:

* `vmm_copy_string_from`, `vmm_copy_data_to` and the copying in read and readdir: they move bytes
  through temporary mappings and change no state that outlives them. That copying may fail is
  modelled where it matters (`execve`, `write`).
* the windows `VM_TMP_MAP`, `VM_TMP2_MAP` and the external directory of paging.c. Several error
  paths leave them changed (paging.c:184, write.c:40); the next user maps them anew.
* the contents of files and of the frames behind them, names longer than MAX_FILENAME, the text
  of the tar and ELF headers.
* system calls by number (isr.c), except that the result of waitpid is dropped; the exceptions
  other than page faults.
* interrupts in the switch that `task_switch` calls from its idle loop (task.c:139), where they
  are still on: the switch is one step, `idle_loop`. A tick in the middle of it would begin the
  switch anew and abandon the first; a key would be seen a moment later.
* sizes that are no whole pages in `Vmalloc`: `vmalloc` rounds them up before anything else.

Left out for good: boot, descriptor tables and context switch (hardware set-up and register
shuffling, executed once or invisible to this state), `kprintf`, `printf` and the string and
memory helpers, the user programs except through the habits of `Tasks`, the build.

What could follow:

1. Composition: `Vmm` over `Pmm`, so that what munmap frees twice meets the allocator's counter.
2. A run for reading stdin through `Terminal` and `Tasks` together.
