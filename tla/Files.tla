------------------------------- MODULE Files -------------------------------
(***************************************************************************)
(* Files as programs see them: the tree of vnodes (vfs/namei.c, vfs.c) with *)
(* the drivers ramfs, tarfs and dev_zero, the descriptors of tasks and the *)
(* system calls on them, and what fork, execve and exit do to descriptors. *)
(*                                                                         *)
(* A path is the sequence of its components; `node' maps the addresses of  *)
(* vnodes to what is stored there and `fds' those of descriptors; NULL is  *)
(* stored in memory that is not allocated.  The list that fd.c threads     *)
(* through the descriptors is kept apart, in `fd_list': nobody reads it but *)
(* fd_add and fd_remove, and its links outlive the descriptors they are in. *)
(* What files contain, the frames behind them, and reading stdin or writing *)
(* stdout (see Tasks, Terminal) are left out.                              *)
(*                                                                         *)
(* System calls run to their end with interrupts off: one action each.  A  *)
(* call that returns an error before it changed anything is a stuttering   *)
(* step.  `odd' records which unusual things programs have done so far.    *)
(***************************************************************************)
EXTENDS Integers, Sequences, FiniteSets, FiniteSetsExt

CONSTANTS
    MAX_FDS,
    FileSize,           \* of a ramfs file: 4096
    TarBlock,           \* of the initrd, a tar archive: 512
    Word,               \* 2^32, the range of a size_t
    NodePool, FdPool,   \* room for vnodes and descriptors
    Tasks, init,        \* room for tasks; the one that is never destroyed
    Paths, Sizes, Modes,    \* what programs pass to system calls
    Leftovers,          \* what objects of other kinds leave where a prev will be
    MaxCalls,           \* how many steps programs take
    MaxOdd,             \* how many kinds of unusual things are explored together
    NULL

VARIABLES
    node,               \* address |-> vnode or NULL
    fds,                \* address |-> descriptor or NULL
    fd_list,            \* first_fd; next, prev by address; where fd.c wrote astray
    used_fd, fd_ctr,    \* of the tasks
    tasks,
    odd, calls,
    status              \* running; crash: a call used a released descriptor or
                        \* file; overwritten: fd_remove wrote anywhere; hang

vars == <<node, fds, fd_list, used_fd, fd_ctr, tasks, odd, calls, status>>
files == <<node, fds, fd_list, used_fd, fd_ctr, tasks>>

Defaults == [i \in 0..1 |-> IF i = 0 THEN "stdin fd" ELSE "stdout fd"]
Slots == 0..(MAX_FDS - 1)
FixedNodes == {"root", "bin", "sh", "dev", "zero"}
Nodes == FixedNodes \cup NodePool

(* What vnodes are called, and what a driver may be able to do. *)
Names == {"/", "bin", "sh", "dev", "zero"} \cup UNION {{path[k] : k \in DOMAIN path} : path \in Paths}
Operations == {"open", "close", "read", "write", "touch", "remove", "mkdir", "rmdir", "readdir"}

(* vfs_node_t and struct file_descriptor. *)
Vnodes ==
    [name : Names, v_type : {"FILE", "DIR", "MNTPT", "CHRDEV"}, op : SUBSET Operations,
     size : 0..(Word - 1), active_fds : 0..(Word - 1),
     parent : Nodes \cup {NULL}, first : Nodes \cup {NULL}, last : Nodes \cup {NULL},
     prev : Nodes \cup {NULL}, next : Nodes \cup {NULL}]
Descriptors == [position : 0..(Word - 1), mode : Modes, node : Nodes]

(* Where descriptors may be; a pointer to none of them. *)
Addresses == FdPool \cup {Defaults[0], Defaults[1]}
Elsewhere == "elsewhere"
FdLists ==
    [first : Addresses \cup {NULL},
     next : [Addresses -> Addresses \cup {NULL}],
     prev : [Addresses -> Addresses \cup {NULL, Elsewhere}],
     stray : SUBSET {"released", Elsewhere}]

(* Memory has room for fewer descriptors than a counter can count. *)
ASSUME FilesAssumption ==
    /\ MAX_FDS \in Nat /\ MAX_FDS > 2
    /\ FileSize \in Nat /\ Word \in Nat /\ FileSize < Word /\ MAX_FDS < Word
    /\ TarBlock \in Nat \ {0}
    /\ init \in Tasks
    /\ Sizes \subseteq Nat
    /\ Paths \subseteq Seq(STRING)
    /\ IsFiniteSet(NodePool) /\ IsFiniteSet(FdPool) /\ Cardinality(FdPool) < Word
    /\ NULL \notin Nodes \cup FdPool \cup Vnodes \cup Descriptors
    /\ \A i \in 0..1 : Defaults[i] \notin FdPool \cup {NULL}
    /\ Elsewhere \notin FdPool \cup {NULL}
    /\ Leftovers \subseteq {NULL, Elsewhere}

alive == {n \in Nodes : node[n] # NULL}
open_fds == {f \in FdPool : fds[f] # NULL}

(***************************************************************************)
(* The tree.                                                               *)
(***************************************************************************)
Vnode(name, v_type, op, size) ==
    [name |-> name, v_type |-> v_type, op |-> op, size |-> size, active_fds |-> 0,
     parent |-> NULL, first |-> NULL, last |-> NULL, prev |-> NULL, next |-> NULL]

namei_add_child(nd, p, c) ==
    IF nd[p].first = NULL
    THEN [nd EXCEPT ![c].parent = p, ![c].prev = NULL, ![c].next = NULL,
                    ![p].first = c, ![p].last = c]
    ELSE [nd EXCEPT ![nd[p].last].next = c, ![c].parent = p,
                    ![c].prev = nd[p].last, ![c].next = NULL, ![p].last = c]

mut_namei_remove_child(nd, c) ==
    LET p == nd[c].parent
        before == nd[c].prev
        after == nd[c].next
    IN IF before = NULL /\ after # NULL THEN [nd EXCEPT ![p].first = after, ![after].prev = NULL]
       ELSE IF before = NULL THEN [nd EXCEPT ![p].first = NULL]
       ELSE IF after = NULL THEN [nd EXCEPT ![p].last = before, ![before].next = NULL]
       ELSE [nd EXCEPT ![before].next = after, ![after].prev = before]

namei_remove_child(nd, c) ==
    LET p == nd[c].parent
        before == nd[c].prev
        after == nd[c].next
    IN IF before = NULL /\ after # NULL THEN [nd EXCEPT ![p].first = after, ![after].prev = NULL]
       ELSE IF before = NULL THEN [nd EXCEPT ![p].first = NULL, ![p].last = NULL]
       ELSE IF after = NULL THEN [nd EXCEPT ![p].last = before, ![before].next = NULL]
       ELSE [nd EXCEPT ![before].next = after, ![after].prev = before]

(* The k-th child of p, counted from 0, or NULL. *)
Child(nd, p, k) ==
    LET chain[i \in 0..k] ==
            IF i = 0 THEN nd[p].first
            ELSE LET c == chain[i - 1] IN IF c = NULL THEN NULL ELSE nd[c].next
    IN chain[k]

_find_child(p, name) ==
    LET named(c) == c # NULL /\ node[c].name = name
        found == {k \in 0..Cardinality(alive) : named(Child(node, p, k))}
    IN IF found = {} THEN NULL ELSE Child(node, p, Min(found))

(* namei_path_to_vfs_node.  An empty component ends the search, with what was
   found so far.  The parent is only given for a missing last component. *)
namei_path_to_vfs_node(path) ==
    LET empty == {k \in 1..Len(path) : path[k] = ""}
        n == IF empty = {} THEN Len(path) ELSE Min(empty) - 1
        walk[k \in 0..n] == IF k = 0 THEN "root"
                            ELSE LET c == walk[k - 1]
                                 IN IF c = NULL THEN NULL ELSE _find_child(c, path[k])
    IN [file |-> walk[n],
        parent |-> IF walk[n] = NULL /\ n = Len(path) THEN walk[n - 1] ELSE NULL]

(* namei_path_to_filename looks at the last component only. *)
namei_path_to_filename(path) == path[Len(path)]

Can(n, operation) == operation \in node[n].op

ramfs_touch(name) == Vnode(name, "FILE", {"open", "close", "read", "write", "remove"}, FileSize)
ramfs_mkdir(name) == Vnode(name, "DIR", {"open", "close", "touch", "mkdir", "rmdir", "readdir"}, 0)

(***************************************************************************)
(* Descriptors.  do_close and its callers work on a record of the state    *)
(* they change; `bad' says that released memory was used.                  *)
(***************************************************************************)
(* open starts at descriptor 2.  The entry behind the table, which is tested
   before the index is, is the signal mask of the task: it is not 0. *)
_find_free_fd_num(t) ==
    LET empty == {i \in Slots : i >= 2 /\ used_fd[t][i] = NULL}
    IN IF empty = {} THEN -1 ELSE Min(empty)

(* The list after writes to the descriptors at the addresses W, while those at
   `held' are allocated. *)
Wrote(l, W, held) ==
    [l EXCEPT !.stray = @ \cup (IF W \subseteq Addresses THEN {} ELSE {Elsewhere})
                          \cup (IF (W \cap FdPool) \subseteq held THEN {} ELSE {"released"})]

(* The new descriptor's prev is left as the memory had it, and so is the next of
   one that is alone. *)
fd_add(l, f, left, held) ==
    IF l.first = NULL THEN [l EXCEPT !.first = f, !.prev[f] = left]
    ELSE Wrote([l EXCEPT !.next[f] = l.first,
                         !.prev = [l.prev EXCEPT ![f] = left, ![l.first] = f],
                         !.first = f], {l.first}, held)

(* A descriptor in front of which nothing is known to be is taken for the first;
   the one behind it keeps its prev. *)
fd_remove(l, f, held) ==
    LET before == l.prev[f]
        after == l.next[f]
        Becomes(field, a, value) == [x \in Addresses |-> IF x = a THEN value ELSE field[x]]
    IN IF before = NULL
       THEN Wrote([l EXCEPT !.prev = Becomes(l.prev, l.first, NULL), !.first = after],
                  {l.first}, held)
       ELSE Wrote([l EXCEPT !.next = Becomes(l.next, before, after),
                            !.prev = Becomes(l.prev, after, before)],
                  {before, after} \ {NULL}, held)

State == [node |-> node, fds |-> fds, list |-> fd_list, used |-> used_fd, ctr |-> fd_ctr,
          bad |-> FALSE]

(* The file of descriptor f, or NULL when f or the file was released. *)
Target(s, f) == IF s.fds[f] = NULL \/ s.node[s.fds[f].node] = NULL THEN NULL ELSE s.fds[f].node

mut_do_close(s, t, i) ==
    LET f == s.used[t][i]
    IN IF f = NULL THEN s
       ELSE IF i \in 0..1 /\ f = Defaults[i] THEN [s EXCEPT !.ctr[t] = (@ - 1) % Word]
       ELSE IF Target(s, f) = NULL THEN [s EXCEPT !.bad = TRUE]
       ELSE [s EXCEPT !.list = fd_remove(@, f, {g \in FdPool : s.fds[g] # NULL}),
                      !.used[t][i] = NULL,
                      !.ctr[t] = (@ - 1) % Word,
                      !.fds[f] = NULL]

(* The default descriptors are not closed, but counted as if they were. *)
do_close(s, t, i) ==
    LET f == s.used[t][i]
    IN IF f = NULL THEN s
       ELSE IF i \in 0..1 /\ f = Defaults[i] THEN [s EXCEPT !.ctr[t] = (@ - 1) % Word]
       ELSE IF Target(s, f) = NULL THEN [s EXCEPT !.bad = TRUE]
       ELSE [s EXCEPT !.node[Target(s, f)].active_fds = (@ - 1) % Word,
                      !.list = fd_remove(@, f, {g \in FdPool : s.fds[g] # NULL}),
                      !.used[t][i] = NULL,
                      !.ctr[t] = (@ - 1) % Word,
                      !.fds[f] = NULL]

(* The loops of do_exit and do_execve: descriptors from `low' on are closed as
   long as the counter is above `rest'. *)
CloseFrom(s, t, low, rest) ==
    LET round[i \in (low - 1)..(MAX_FDS - 1)] ==
            IF i = low - 1 THEN s
            ELSE LET r == round[i - 1] IN IF r.ctr[t] > rest THEN do_close(r, t, i) ELSE r
    IN round[MAX_FDS - 1]

Set(s) ==
    /\ node' = s.node
    /\ fds' = s.fds
    /\ fd_list' = s.list
    /\ used_fd' = s.used
    /\ fd_ctr' = s.ctr
    /\ status' = IF s.bad THEN "crash"
                 ELSE IF Elsewhere \in s.list.stray THEN "overwritten" ELSE status

Noted(what) == odd' = odd \cup what

(***************************************************************************)
(* The tree at boot.  The initrd holds one directory with one program.     *)
(***************************************************************************)
(* The size of a file of the archive: rounded up by a block if it is not a
   multiple of one, then less a block.  It is right only in the first case. *)
tar_size(size) == ((IF size % TarBlock # 0 THEN size + TarBlock ELSE size) - TarBlock) % Word

_init_vnode(name, v_type, size) ==
    Vnode(name, v_type,
          {"open", "close"} \cup (IF v_type = "FILE" THEN {"read"} ELSE {"readdir"}),
          tar_size(size))

tarfs_init(nd) ==
    namei_add_child(namei_add_child(
        [nd EXCEPT !["bin"] = _init_vnode("bin", "DIR", 0),
                   !["sh"] = _init_vnode("sh", "FILE", FileSize)], "root", "bin"), "bin", "sh")

(* The root of the archive is mounted on the root of the tree: namei_init,
   namei_mount. *)
initrd_load(nd) ==
    tarfs_init([nd EXCEPT !["root"] =
        Vnode("/", "MNTPT", {"open", "close", "touch", "remove", "mkdir", "readdir"}, 0)])

dev_zero_init == Vnode("zero", "CHRDEV", {"open", "close", "read", "write"}, 0)

(* The devices stdin and stdout, which are opened like zero, are left out. *)
devfs_init(nd) ==
    namei_add_child(namei_add_child(
        [nd EXCEPT !["dev"] = ramfs_mkdir("dev"), !["zero"] = dev_zero_init], "root", "dev"), "dev", "zero")

(***************************************************************************)
(* Actions.                                                                *)
(***************************************************************************)
(* main has built the tree and given the first task the default descriptors,
   stdin_fd and then stdout_fd; the machine starts with memory cleared. *)
Init ==
    /\ node = devfs_init(initrd_load([n \in Nodes |-> NULL]))
    /\ fds = [f \in FdPool |-> NULL]
    /\ fd_list = LET empty == [a \in Addresses |-> NULL]
                 IN fd_add(fd_add([first |-> NULL, next |-> empty, prev |-> empty, stray |-> {}],
                                  Defaults[0], NULL, {}), Defaults[1], NULL, {})
    /\ used_fd = [t \in Tasks |-> [i \in Slots |->
                     IF t = init /\ i \in 0..1 THEN Defaults[i] ELSE NULL]]
    /\ fd_ctr = [t \in Tasks |-> IF t = init THEN 2 ELSE 0]
    /\ tasks = {init}
    /\ odd = {}
    /\ calls = 0
    /\ status = "running"

(* What the memory of descriptor f holds where its prev will be: what it held as a
   descriptor, or what an object of another kind left there. *)
Left(f) == {fd_list.prev[f]} \cup Leftovers

(* The end of do_open: file n is there, nd is the tree.  A full table leaves the
   new descriptor behind. *)
Opened(t, nd, n, mode) ==
    LET i == _find_free_fd_num(t) IN
    \E f \in FdPool \ open_fds : \E left \in Left(f) :
        /\ node' = [nd EXCEPT ![n].active_fds = (@ + 1) % Word]
        /\ fds' = [fds EXCEPT ![f] = [position |-> 0, mode |-> mode, node |-> n]]
        /\ fd_list' = fd_add(fd_list, f, left, open_fds \cup {f})
        /\ IF i = -1
           THEN Noted({"table full"}) /\ UNCHANGED <<used_fd, fd_ctr>>
           ELSE /\ used_fd' = [used_fd EXCEPT ![t][i] = f]
                /\ fd_ctr' = [fd_ctr EXCEPT ![t] = (@ + 1) % Word]
                /\ UNCHANGED odd
        /\ UNCHANGED <<tasks, status>>

open(t, path, mode) ==
    LET n == namei_path_to_vfs_node(path).file IN
    /\ n # NULL
    /\ Can(n, "open")
    /\ Opened(t, node, n, mode)

(* open with O_CREAT of a file that is not there: vfs_touch. *)
open_creat(t, path, mode) ==
    LET p == namei_path_to_vfs_node(path).parent IN
    /\ p # NULL
    /\ Can(p, "touch")
    /\ \E n \in NodePool \ alive :
          Opened(t, namei_add_child([node EXCEPT ![n] = ramfs_touch(namei_path_to_filename(path))], p, n),
                 n, mode)

mkdir(path) ==
    LET p == namei_path_to_vfs_node(path).parent IN
    /\ p # NULL
    /\ node[p].v_type \in {"DIR", "MNTPT"}
    /\ Can(p, "mkdir")
    /\ \E n \in NodePool \ alive :
          node' = namei_add_child([node EXCEPT ![n] = ramfs_mkdir(namei_path_to_filename(path))], p, n)
    /\ UNCHANGED <<fds, fd_list, used_fd, fd_ctr, tasks, odd, status>>

Delete(n) ==
    /\ node' = [namei_remove_child(node, n) EXCEPT ![n] = NULL]
    /\ UNCHANGED <<fds, fd_list, used_fd, fd_ctr, tasks>>

mut_remove(path) ==
    LET n == namei_path_to_vfs_node(path).file IN
    /\ n # NULL
    /\ node[n].v_type # "DIR"
    /\ Can(n, "remove")
    /\ n # "root"
    /\ Delete(n) /\ UNCHANGED <<status, odd>>

(* The root of the tree is a mount point and has the operation, but no inode:
   ramfs_remove follows a null pointer. *)
remove(path) ==
    LET n == namei_path_to_vfs_node(path).file IN
    /\ n # NULL
    /\ node[n].v_type # "DIR"
    /\ node[n].active_fds = 0
    /\ Can(n, "remove")
    /\ IF n = "root"
       THEN Noted({"root removed"}) /\ status' = "crash" /\ UNCHANGED files
       ELSE Delete(n) /\ UNCHANGED <<status, odd>>

(* rmdir does not ask whether the directory is open. *)
rmdir(path) ==
    LET n == namei_path_to_vfs_node(path).file IN
    /\ n # NULL
    /\ node[n].v_type = "DIR"
    /\ node[n].first = NULL
    /\ Can(n, "rmdir")
    /\ Delete(n)
    /\ Noted(IF node[n].active_fds > 0 THEN {"open directory removed"} ELSE {})
    /\ UNCHANGED status

File(t, i) == used_fd[t][i] \in FdPool
Valid(t, i) == File(t, i) /\ Target(State, used_fd[t][i]) # NULL

(* Any call on a descriptor whose memory, or whose file's, was released. *)
use_released(t, i) ==
    /\ File(t, i) /\ ~Valid(t, i)
    /\ status' = "crash"
    /\ UNCHANGED <<files, odd>>

SetPosition(f, position) ==
    /\ fds' = [fds EXCEPT ![f].position = position % Word]
    /\ UNCHANGED <<node, fd_list, used_fd, fd_ctr, tasks, odd, status>>

close(t, i) ==
    LET default == i \in 0..1 /\ used_fd[t][i] = Defaults[i] IN
    /\ used_fd[t][i] # NULL
    /\ Set(do_close(State, t, i))
    /\ Noted(IF default THEN {"default closed"} ELSE {})
    /\ UNCHANGED tasks

(* How much of `size' bytes lies in front of the end of the file: the loops of
   ramfs_read, ramfs_write and tarfs_read.  dev_zero has no end. *)
Room(f, size) ==
    LET n == fds[f].node
        left == (node[n].size - fds[f].position) % Word
    IN IF node[n].v_type = "CHRDEV" THEN size ELSE Min({size, left})

read(t, i, size) ==
    LET f == used_fd[t][i] IN
    /\ Valid(t, i)
    /\ fds[f].mode # "O_WRONLY"
    /\ Can(fds[f].node, "read")
    /\ Room(f, size) > 0
    /\ SetPosition(f, fds[f].position + Room(f, size))

(* `readable' bytes of the caller's buffer, or all, are mapped.  do_write repeats
   a write that has no room, for ever. *)
write(t, i, readable) ==
    LET f == used_fd[t][i] IN
    /\ Valid(t, i)
    /\ fds[f].mode # "O_RDONLY"
    /\ Can(fds[f].node, "write")
    /\ IF Room(f, readable) < readable
       THEN status' = "hang" /\ Noted({"past the end"}) /\ UNCHANGED files
       ELSE SetPosition(f, fds[f].position + readable)

mut_seek(f, offset, whence) ==
    IF whence = "SEEK_CUR" THEN (fds[f].position + offset) % Word
    ELSE IF offset < 0 THEN -1 ELSE offset

(* The position lseek sets, or -1.  SEEK_END is treated as SEEK_SET. *)
seek(f, offset, whence) ==
    LET new == IF whence = "SEEK_CUR" THEN (fds[f].position + offset) % Word ELSE offset
    IN IF new < 0 \/ new > node[fds[f].node].size THEN -1 ELSE new

lseek(t, i, offset, whence) ==
    LET f == used_fd[t][i] IN
    /\ Valid(t, i)
    /\ node[fds[f].node].v_type = "FILE"
    /\ seek(f, offset, whence) # -1
    /\ SetPosition(f, seek(f, offset, whence))

readdir(t, i) ==
    LET f == used_fd[t][i]
        n == fds[f].node
    IN /\ Valid(t, i)
       /\ node[n].v_type \in {"DIR", "MNTPT"}
       /\ Can(n, "readdir")
       /\ Child(node, n, fds[f].position) # NULL
       /\ SetPosition(f, fds[f].position + 1)

(* do_fork copies pointers, as many as the counter says. *)
fork(t, c) ==
    LET used(i) == used_fd[t][i] # NULL
        copied == {i \in Slots : used(i) /\ Cardinality({j \in Slots : j < i /\ used(j)}) < fd_ctr[t]}
    IN /\ c \notin tasks
       /\ tasks' = tasks \cup {c}
       /\ used_fd' = [used_fd EXCEPT ![c] = [i \in Slots |-> IF i \in copied THEN used_fd[t][i] ELSE NULL]]
       /\ fd_ctr' = [fd_ctr EXCEPT ![c] = fd_ctr[t]]
       /\ Noted(IF \E i \in copied : File(t, i) THEN {"shared"} ELSE {})
       /\ UNCHANGED <<node, fds, fd_list, status>>

(* do_exit and, sooner or later, the release of the task. *)
exit(t) ==
    LET s == CloseFrom(State, t, 0, 0) IN
    /\ t # init
    /\ Set([s EXCEPT !.used[t] = [i \in Slots |-> NULL], !.ctr[t] = 0])
    /\ tasks' = tasks \ {t}
    /\ UNCHANGED odd

(* do_execve restores the default descriptors, but not their count. *)
execve(t) ==
    LET s == [State EXCEPT !.used[t][0] = Defaults[0], !.used[t][1] = Defaults[1]] IN
    /\ Set(CloseFrom(s, t, 2, 2))
    /\ UNCHANGED <<tasks, odd>>

Next ==
    /\ status = "running"
    /\ calls < MaxCalls /\ calls' = calls + 1
    /\ \E t \in tasks :
        \/ \E path \in Paths, mode \in Modes :
              open(t, path, mode) \/ open_creat(t, path, mode)
        \/ \E path \in Paths : mkdir(path) \/ remove(path) \/ rmdir(path)
        \/ \E i \in Slots : close(t, i) \/ readdir(t, i) \/ use_released(t, i)
        \/ \E i \in Slots, size \in Sizes : read(t, i, size) \/ write(t, i, size)
        \/ \E i \in Slots, offset \in Sizes \cup {-k : k \in Sizes}, whence \in {"SEEK_SET", "SEEK_CUR"} :
              lseek(t, i, offset, whence)
        \/ \E c \in Tasks : fork(t, c)
        \/ exit(t)
        \/ execve(t)
    /\ Cardinality(odd') <= MaxOdd

Spec == Init /\ [][Next]_vars

(***************************************************************************)
(* Properties.                                                             *)
(***************************************************************************)
Used(t) == {i \in Slots : used_fd[t][i] # NULL}
OpenFiles(t) == {i \in Slots : File(t, i)}

(* The variables have their types; the vnodes of the boot are never removed. *)
TypeOK ==
    /\ FixedNodes \subseteq alive
    /\ node \in [Nodes -> Vnodes \cup {NULL}]
    /\ fds \in [FdPool -> Descriptors \cup {NULL}]
    /\ fd_list \in FdLists
    /\ used_fd \in [Tasks -> [Slots -> FdPool \cup {Defaults[0], Defaults[1], NULL}]]
    /\ fd_ctr \in [Tasks -> 0..(Word - 1)]
    /\ init \in tasks /\ tasks \subseteq Tasks
    /\ status \in {"running", "crash", "overwritten", "hang"}

(* A descriptor a task holds is its own and its file exists, and no call is made
   on a released one: closing it, exit and execve in one task never take away what
   another one uses, and no file is removed under an open descriptor, unless a
   program forked with files open or removed an open directory (do_close, remove).
   What fd_remove does to descriptors released before is ListOfOpen's. *)
DescriptorsLive ==
    odd \cap {"shared", "open directory removed", "root removed"} = {} =>
        /\ status # "crash"
        /\ \A t \in tasks : \A i \in OpenFiles(t) :
              /\ used_fd[t][i] \in open_fds
              /\ fds[used_fd[t][i]].node \in alive
              /\ \A u \in tasks : \A j \in OpenFiles(u) : used_fd[t][i] = used_fd[u][j] => t = u /\ i = j

(* Every descriptor that is allocated belongs to a task, and a file counts
   exactly the descriptors that name it, so that a file nobody has open can be
   removed: whatever tasks forked, executed and exited before. *)
NothingLost ==
    odd \cap {"shared", "open directory removed", "default closed", "table full"} = {} =>
        /\ \A f \in open_fds : \E t \in tasks : \E i \in Slots : used_fd[t][i] = f
        /\ \A n \in alive : node[n].active_fds = Cardinality({f \in open_fds : fds[f].node = n})
        /\ \A t \in tasks : fd_ctr[t] = Cardinality(Used(t))

(* "Remove fd from global list" (file_descriptors.md): a descriptor that was closed
   has left the list, so that fd_add and fd_remove never write to its memory.
   The code does not keep this. *)
ListOfOpen == "released" \notin fd_list.stray

(* No descriptor points behind the end of its file: the loops of ramfs_read and
   ramfs_write, whose test is an unsigned difference, would not stop there. *)
PositionInFile ==
    odd \cap {"shared", "open directory removed"} = {} =>
        \A f \in open_fds : node[fds[f].node].v_type = "FILE" =>
            fds[f].position <= node[fds[f].node].size

(* The links between siblings agree in both directions and with the ends of
   their list, names are unique in a directory, and every vnode is in the tree
   exactly once, through any sequence of creations and removals. *)
TreeLinks ==
    LET Kids(p) == {c \in alive : node[c].parent = p}
        places(p) == {k \in 0..Cardinality(alive) : Child(node, p, k) # NULL}
    IN TypeOK /\ \A p \in alive :
        /\ {Child(node, p, k) : k \in places(p)} = Kids(p) \ {"root"}
        /\ Cardinality(places(p)) = Cardinality(Kids(p) \ {"root"})
        /\ p # "root" => node[p].parent \in alive
        /\ node[p].last = IF places(p) = {} THEN NULL ELSE Child(node, p, Max(places(p)))
        /\ \A c, d \in Kids(p) : node[c].name = node[d].name => c = d
        /\ \A c \in Kids(p) \ {"root"} :
              /\ node[c].next # NULL => node[node[c].next].prev = c
              /\ node[c].prev # NULL => node[node[c].prev].next = c
=============================================================================
