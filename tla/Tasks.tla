------------------------------- MODULE Tasks -------------------------------
(***************************************************************************)
(* Tasks of the kernel: their tree, the scheduler's queues, the system     *)
(* calls fork, exit, waitpid and read-from-stdin, SIGCHLD, the timer and   *)
(* the Enter key (kernel/cpu, kernel/ipc/signal.c, kernel/vfs/dev_stdin.c).*)
(*                                                                         *)
(* The kernel runs with interrupts off, on one CPU.  Its functions call    *)
(* each other without coming back (do_exit, task_switch and task_switch_to *)
(* end in context_switch), so the function being executed is one record,   *)
(* `k', and each action is one of these functions up to its next call.     *)
(* Interrupts and system calls happen only in user mode or in the idle     *)
(* loop of task_switch.                                                    *)
(*                                                                         *)
(* Every task has priority OS: main.c creates init so and fork copies it.  *)
(* Hence user_q stays empty, next_to_run stays NULL and no task preempts   *)
(* another when it is added or woken.                                      *)
(*                                                                         *)
(* A definition mut_... is a faulty variant of one that follows it.  It    *)
(* serves to show that the properties notice such a fault; the rest of the *)
(* module does not use it.                                                 *)
(***************************************************************************)
EXTENDS Integers, FiniteSets, SequencesExt

CONSTANTS
    Slots,      \* heap addresses at which a TCB can lie
    None,       \* the NULL pointer
    Kernel,     \* kernel_task
    MaxTid,     \* bound: how many tasks are ever created
    Codes,      \* exit statuses that programs pass to exit()
    Allowed     \* what programs and the user may do, beyond a plain shell

(***************************************************************************)
(* The shell and the programs it starts keep one foreground child, wait    *)
(* for it and leave the keyboard to it.  Each member of Freedoms lifts one *)
(* of these habits.  When a child ends is not a habit but a matter of the  *)
(* timer: it may have ended before its parent gets to waitpid.             *)
(***************************************************************************)
Freedoms == {
    "orphan",       \* exit or crash while a child is still running
    "stranger",     \* waitpid for a pid that is no running child
    "readers",      \* read stdin while another task waits for input
    "enter",        \* press Enter while no task waits for input
    "siblings",     \* fork while another child is running
    "background" }  \* read stdin while a child is running

SIGKILL == 1
SEGV_STATUS == 139
LINE == 80          \* length of an input line, what read() returns
WAITPID == 5        \* the number of the system call

Status == Codes \cup {SIGKILL, SEGV_STATUS}

ASSUME TasksAssumption ==
    /\ None \notin Slots /\ Kernel \notin Slots /\ None # Kernel
    /\ MaxTid \in Nat \ {0}
    /\ Codes \subseteq Nat
    /\ Allowed \subseteq Freedoms
    /\ Slots # {}

VARIABLES
    tcb,            \* address |-> task_t
    os_q,           \* the run queue
    sleep_q,
    running_tasks, sleeping_tasks, total_tasks,     \* sched_global
    actual_task,
    old_tid,
    wait4input,     \* wait4input.t: the task that reads stdin
    k,              \* what the kernel is executing
    exits           \* pid |-> the status it exited with, -1 before

counters == <<running_tasks, sleeping_tasks, total_tasks>>
vars == <<tcb, os_q, sleep_q, counters, actual_task, old_tid, wait4input, k,
          exits>>

Tids == 1..MaxTid

(* The functions the kernel can be in, "user" and "idle" standing for ring 3
   and the loop at the end of task_switch. *)
KernelFns == {"user", "idle", "panic", "exit", "notify", "destroy", "switch",
              "switch_to", "resume", "reaped"}

(* Executing fn on task t, on behalf of n; `code' is do_exit's status. *)
Call(fn, t, n, code) == [fn |-> fn, t |-> t, n |-> n, code |-> code]
User    == Call("user", None, None, 0)
Idle    == Call("idle", None, None, 0)
Panic   == Call("panic", None, None, 0)
Switch  == Call("switch", None, None, 0)
SwitchTo == Call("switch_to", None, None, 0)

(***************************************************************************)
(* A task control block.  `live': the memory is allocated.  `kids': the    *)
(* sibling list from first_child to last_child.  `mask' and `cur': SIGCHLD *)
(* is in the signal mask, in the pending signals.  `pid', `ret': waitpid's *)
(* argument and the saved return value (the registers).                    *)
(***************************************************************************)
TCB == [live : BOOLEAN, id : 0..MaxTid, st : {"READY", "RUNNING", "WAITING", "ZOMBIE"},
        parent : Slots \cup {None}, kids : Seq(Slots),
        wait4 : Slots \cup {None}, mask : BOOLEAN, cur : BOOLEAN,
        code : Status \cup {0}, pid : 0..MaxTid, ret : Int]

(* task_new clears the TCB, takes the next id and links it to its parent. *)
NewTask(id, parent, mask) ==
    [live |-> TRUE, id |-> id, st |-> "READY", parent |-> parent, kids |-> <<>>,
     wait4 |-> None, mask |-> mask, cur |-> FALSE, code |-> 0, pid |-> 0, ret |-> 0]

(* Memory that holds no TCB: kfree overwrites its first field, the task id. *)
NoTask == [NewTask(0, None, FALSE) EXCEPT !.live = FALSE]

Runnable == ToSet(os_q)
Sleeping == ToSet(sleep_q)
Queued   == Runnable \cup Sleeping

(* main.c: init is the only task, the kernel task is current and about to
   call task_switch. *)
Init ==
    /\ \E s \in Slots :
        /\ tcb = [t \in Slots |-> IF t = s THEN NewTask(1, None, FALSE) ELSE NoTask]
        /\ os_q = <<s>>
    /\ sleep_q = <<>>
    /\ running_tasks = 1 /\ sleeping_tasks = 0 /\ total_tasks = 1
    /\ actual_task = Kernel
    /\ old_tid = 1
    /\ wait4input = None
    /\ k = Switch
    /\ exits = [p \in Tids |-> -1]

-----------------------------------------------------------------------------
(* The scheduler's queues *)

(* _remove_from_queue *)
Without(q, t) == RemoveAt(q, CHOOSE i \in 1..Len(q) : q[i] = t)

(* t->next: the task behind t in the queue that holds t. *)
NextIn(q, t) ==
    LET i == CHOOSE j \in 1..Len(q) : q[j] = t
    IN  IF t \in ToSet(q) /\ i < Len(q) THEN q[i + 1] ELSE None

mut_next_of(t) == None

next_of(t) == IF t \in Runnable THEN NextIn(os_q, t) ELSE NextIn(sleep_q, t)

(* sched_get_tcb *)
sched_get_tcb(pid) ==
    IF \E t \in Queued : tcb[t].id = pid
    THEN CHOOSE t \in Queued : tcb[t].id = pid
    ELSE None

(* sched_get_next_task *)
sched_get_next_task == IF os_q = <<>> THEN Kernel ELSE os_q[1]

mut_sched_sleep_task(t) ==
    /\ os_q' = Without(os_q, t)
    /\ sleep_q' = <<t>> \o sleep_q
    /\ running_tasks' = running_tasks - 1
    /\ sleeping_tasks' = sleeping_tasks + 1
    /\ UNCHANGED total_tasks

(* sched_set_state(t, 0) for the running task: to the tail of sleep_q. *)
sched_sleep_task(t) ==
    /\ os_q' = Without(os_q, t)
    /\ sleep_q' = Append(sleep_q, t)
    /\ running_tasks' = running_tasks - 1
    /\ sleeping_tasks' = sleeping_tasks + 1
    /\ UNCHANGED total_tasks

mut_wake_counter(t) ==
    IF t \in Sleeping
    THEN /\ os_q' = Append(os_q, t)
         /\ sleep_q' = Without(sleep_q, t)
         /\ UNCHANGED counters
    ELSE UNCHANGED <<os_q, sleep_q, counters>>

mut_wake_nothing(t) == UNCHANGED <<os_q, sleep_q, counters>>

(* sched_set_state(t, 1) for a queued task: to the tail of os_q, unless it is
   there already. *)
sched_wake_task(t) ==
    IF t \in Sleeping
    THEN /\ os_q' = Append(os_q, t)
         /\ sleep_q' = Without(sleep_q, t)
         /\ running_tasks' = running_tasks + 1
         /\ sleeping_tasks' = sleeping_tasks - 1
         /\ UNCHANGED total_tasks
    ELSE UNCHANGED <<os_q, sleep_q, counters>>

(* The state sched_wake_task leaves t in. *)
WokenState(t) == IF t \in Sleeping THEN "READY" ELSE tcb[t].st

mut_sched_remove(t) ==
    /\ total_tasks' = total_tasks - 1
    /\ IF tcb[t].st \in {"RUNNING", "READY"}
       THEN /\ os_q' = Without(os_q, t)
            /\ running_tasks' = running_tasks - 1
            /\ UNCHANGED <<sleep_q, sleeping_tasks>>
       ELSE UNCHANGED <<os_q, sleep_q, running_tasks, sleeping_tasks>>

(* sched_remove: a zombie is in no queue. *)
sched_remove(t) ==
    /\ total_tasks' = total_tasks - 1
    /\ CASE tcb[t].st = "ZOMBIE" ->
              UNCHANGED <<os_q, sleep_q, running_tasks, sleeping_tasks>>
         [] tcb[t].st \in {"RUNNING", "READY"} ->
              /\ os_q' = Without(os_q, t)
              /\ running_tasks' = running_tasks - 1
              /\ UNCHANGED <<sleep_q, sleeping_tasks>>
         [] tcb[t].st = "WAITING" ->
              /\ sleep_q' = Without(sleep_q, t)
              /\ sleeping_tasks' = sleeping_tasks - 1
              /\ UNCHANGED <<os_q, running_tasks>>

-----------------------------------------------------------------------------
(* System calls and exceptions of the running task *)

me == actual_task
LiveKids(t) == {c \in ToSet(tcb[t].kids) : c \in Queued}
InUserMode == k.fn = "user"

_get_tid == old_tid + 1

(* do_fork: the child is queued behind everybody else; the allocator may put
   its TCB wherever none lies. *)
do_fork(s) ==
    /\ InUserMode /\ old_tid < MaxTid
    /\ ~tcb[s].live
    /\ "siblings" \in Allowed \/ LiveKids(me) = {}
    /\ old_tid' = _get_tid
    /\ tcb' = [tcb EXCEPT ![s] = NewTask(_get_tid, me, tcb[me].mask),
                          ![me].kids = Append(@, s)]
    /\ os_q' = Append(os_q, s)
    /\ running_tasks' = running_tasks + 1
    /\ total_tasks' = total_tasks + 1
    /\ UNCHANGED <<sleep_q, sleeping_tasks, actual_task, wait4input, k, exits>>

(* When a program may end. *)
MayEnd(t) == "orphan" \in Allowed \/ LiveKids(t) = {}

(* exit(status) *)
sys_exit(code) ==
    /\ InUserMode /\ MayEnd(me)
    /\ k' = Call("exit", me, None, code)
    /\ UNCHANGED <<tcb, os_q, sleep_q, counters, actual_task, old_tid, wait4input, exits>>

(* A page fault outside the task's regions: sig_send(actual_task, SIGSEGV).
   SIGSEGV is in every mask (init's SIG_DEFAULT_MASK, copied by fork). *)
SegFault ==
    /\ InUserMode /\ MayEnd(me)
    /\ k' = Call("exit", me, None, SEGV_STATUS)
    /\ UNCHANGED <<tcb, os_q, sleep_q, counters, actual_task, old_tid, wait4input, exits>>

(* do_waitpid of a pid that is in no queue: ESRCH.  The dispatcher of system calls
   drops the result, so that the register keeps the number of the call. *)
waitpid_ESRCH(pid) ==
    /\ InUserMode
    /\ sched_get_tcb(pid) = None
    /\ tcb' = [tcb EXCEPT ![me].ret = WAITPID]
    /\ UNCHANGED <<os_q, sleep_q, counters, actual_task, old_tid, wait4input, k, exits>>

mut_waitpid_mask(pid) ==
    LET w == sched_get_tcb(pid) IN
    /\ InUserMode /\ w # None
    /\ "stranger" \in Allowed \/ w \in LiveKids(me)
    /\ tcb' = [tcb EXCEPT ![me].wait4 = w, ![me].pid = pid, ![me].st = "WAITING"]
    /\ sched_sleep_task(me)
    /\ k' = Switch
    /\ UNCHANGED <<actual_task, old_tid, wait4input, exits>>

(* do_waitpid of a queued task.  Nothing checks that it is a child. *)
waitpid(pid) ==
    LET w == sched_get_tcb(pid) IN
    /\ InUserMode /\ w # None
    /\ "stranger" \in Allowed \/ w \in LiveKids(me)
    /\ tcb' = [tcb EXCEPT ![me].wait4 = w, ![me].mask = TRUE, ![me].pid = pid,
                          ![me].st = "WAITING"]
    /\ sched_sleep_task(me)
    /\ k' = Switch
    /\ UNCHANGED <<actual_task, old_tid, wait4input, exits>>

mut_stdin_read ==
    /\ InUserMode
    /\ "readers" \in Allowed \/ wait4input = None
    /\ wait4input' = me
    /\ tcb' = [tcb EXCEPT ![me].st = "WAITING"]
    /\ sched_sleep_task(me)
    /\ UNCHANGED <<actual_task, old_tid, k, exits>>

(* _stdin_read: the only record of the reader is overwritten. *)
stdin_read ==
    /\ InUserMode
    /\ "readers" \in Allowed \/ wait4input = None
    /\ "background" \in Allowed \/ LiveKids(me) = {}
    /\ wait4input' = me
    /\ tcb' = [tcb EXCEPT ![me].st = "WAITING"]
    /\ sched_sleep_task(me)
    /\ k' = Switch
    /\ UNCHANGED <<actual_task, old_tid, exits>>

-----------------------------------------------------------------------------
(* Interrupts *)

(* Every tenth tick of the timer, which is masked in the idle loop. *)
TimerSwitch ==
    /\ InUserMode
    /\ k' = Switch
    /\ UNCHANGED <<tcb, os_q, sleep_q, counters, actual_task, old_tid, wait4input, exits>>

KeyboardOn == k.fn \in {"user", "idle"}

(* dev_stdin_recall *)
dev_stdin_recall ==
    /\ KeyboardOn
    /\ wait4input \in Queued
    /\ tcb' = [tcb EXCEPT ![wait4input].ret = LINE,
                          ![wait4input].st = WokenState(wait4input)]
    /\ sched_wake_task(wait4input)
    /\ wait4input' = None
    /\ UNCHANGED <<actual_task, old_tid, k, exits>>

(* dev_stdin_recall with no reader, or with one that is gone: it follows a NULL
   pointer, its own or the one sched_get_tcb returns. *)
dev_stdin_recall_panic ==
    /\ KeyboardOn
    /\ wait4input \notin Queued
    /\ "enter" \in Allowed
    /\ k' = Panic
    /\ UNCHANGED <<tcb, os_q, sleep_q, counters, actual_task, old_tid, wait4input, exits>>

-----------------------------------------------------------------------------
(* Kernel functions *)

(* A TCB that left the queues with an earlier do_exit and was not freed, since
   that do_exit was abandoned to kill a child. *)
Leaked(t) == t \notin Queued /\ tcb[t].st # "ZOMBIE"

(* do_exit of such a task: _remove_from_queue follows its NULL links. *)
do_exit_panic ==
    /\ k.fn = "exit" /\ Leaked(k.t)
    /\ k' = Panic
    /\ UNCHANGED <<tcb, os_q, sleep_q, counters, actual_task, old_tid, wait4input, exits>>

(* do_exit, up to the question whether the parent waits.  Task 1 is left as it
   is; the others are followed up in "notify". *)
do_exit ==
    /\ k.fn = "exit" /\ ~Leaked(k.t)
    /\ sched_remove(k.t)
    /\ tcb' = [tcb EXCEPT ![k.t].code = k.code]
    /\ exits' = IF exits[tcb[k.t].id] = -1
                THEN [exits EXCEPT ![tcb[k.t].id] = k.code] ELSE exits
    /\ k' = IF tcb[k.t].id = 1 THEN SwitchTo ELSE Call("notify", k.t, None, 0)
    /\ UNCHANGED <<actual_task, old_tid, wait4input>>

mut_Awaited(t) == FALSE

(* parent->wait4 != NULL && parent->wait4->task_id == t->task_id.  The pointer
   may be stale: it is never cleared. *)
Awaited(t) ==
    LET w == tcb[tcb[t].parent].wait4
    IN  w # None /\ tcb[w].id = tcb[t].id

(* The rest of do_exit when the parent waits: zombie, SIGCHLD, wake the parent. *)
notify_parent ==
    LET t == k.t
        p == tcb[t].parent
    IN
    /\ k.fn = "notify" /\ Awaited(t)
    /\ p \in Queued
    /\ tcb' = [tcb EXCEPT ![t].st = "ZOMBIE",
                          ![p].cur = @ \/ tcb[p].mask,
                          ![p].st = WokenState(p)]
    /\ sched_wake_task(p)
    /\ k' = SwitchTo
    /\ UNCHANGED <<actual_task, old_tid, wait4input, exits>>

(* The same when the parent itself is gone: sched_wake_task follows NULL. *)
notify_parent_panic ==
    /\ k.fn = "notify" /\ Awaited(k.t)
    /\ tcb[k.t].parent \notin Queued
    /\ k' = Panic
    /\ UNCHANGED <<tcb, os_q, sleep_q, counters, actual_task, old_tid, wait4input, exits>>

(* The rest of do_exit when nobody waits. *)
notify_nobody ==
    /\ k.fn = "notify" /\ ~Awaited(k.t)
    /\ k' = Call("destroy", k.t, None, 0)
    /\ UNCHANGED <<tcb, os_q, sleep_q, counters, actual_task, old_tid, wait4input, exits>>

(* task_destroy of a task with children: do_exit(first_child) never returns. *)
task_destroy_children ==
    /\ k.fn = "destroy" /\ tcb[k.t].kids # <<>>
    /\ k' = Call("exit", tcb[k.t].kids[1], None, SIGKILL)
    /\ UNCHANGED <<tcb, os_q, sleep_q, counters, actual_task, old_tid, wait4input, exits>>

mut_remove_child(kids, t) == IF Len(kids) = 1 THEN kids ELSE Without(kids, t)

_remove_child(kids, t) == Without(kids, t)

(* task_destroy of a task without children, back to do_exit or sig_handler. *)
task_destroy ==
    LET t == k.t IN
    /\ k.fn = "destroy" /\ tcb[t].kids = <<>>
    /\ tcb' = [tcb EXCEPT ![tcb[t].parent].kids = _remove_child(@, t), ![t] = NoTask]
    /\ k' = IF k.n = None THEN SwitchTo ELSE Call("reaped", None, k.n, 0)
    /\ UNCHANGED <<os_q, sleep_q, counters, actual_task, old_tid, wait4input, exits>>

(* A task that loses the CPU while RUNNING becomes READY. *)
Preempted == [t \in Slots |->
    IF t = actual_task /\ tcb[t].st = "RUNNING" THEN [tcb[t] EXCEPT !.st = "READY"]
                                                ELSE tcb[t]]

(* task_switch: the next task of the queue, else its first, else idle. *)
task_switch ==
    LET n == IF actual_task \in Slots THEN next_of(actual_task) ELSE None
        next == IF n = None THEN sched_get_next_task ELSE n
    IN
    /\ k.fn = "switch"
    /\ tcb' = Preempted
    /\ k' = IF next = Kernel THEN Idle ELSE Call("resume", None, next, 0)
    /\ UNCHANGED <<os_q, sleep_q, counters, actual_task, old_tid, wait4input, exits>>

(* The idle loop of task_switch, left when a task has become runnable. *)
idle_loop ==
    /\ k.fn = "idle" /\ running_tasks > 0
    /\ k' = Switch
    /\ UNCHANGED <<tcb, os_q, sleep_q, counters, actual_task, old_tid, wait4input, exits>>

(* task_switch_to(sched_get_next_task()), the end of do_exit. *)
task_switch_to ==
    LET next == sched_get_next_task IN
    /\ k.fn = "switch_to"
    /\ tcb' = Preempted
    /\ k' = IF next = Kernel THEN Panic ELSE Call("resume", None, next, 0)
    /\ UNCHANGED <<os_q, sleep_q, counters, actual_task, old_tid, wait4input, exits>>

(* The end of both switches, with no signal pending. *)
resume ==
    /\ k.fn = "resume" /\ ~tcb[k.n].cur
    /\ tcb' = [tcb EXCEPT ![k.n].st = "RUNNING"]
    /\ actual_task' = k.n
    /\ k' = User
    /\ UNCHANGED <<os_q, sleep_q, counters, old_tid, wait4input, exits>>

mut_ChildCode(t) == tcb[t].code

(* What sig_handler puts into the return register of waitpid. *)
ChildCode(t) == tcb[tcb[t].wait4].code

(* The same with SIGCHLD pending: sig_handler takes the exit code and destroys
   the zombie. *)
sig_handler ==
    /\ k.fn = "resume" /\ tcb[k.n].cur
    /\ tcb' = [tcb EXCEPT ![k.n].st = "RUNNING",
                          ![k.n].ret = ChildCode(k.n)]
    /\ k' = Call("destroy", tcb[k.n].wait4, k.n, 0)
    /\ UNCHANGED <<os_q, sleep_q, counters, actual_task, old_tid, wait4input, exits>>

(* Back in sig_handler: the signal is toggled off, the parent continues. *)
sig_handled ==
    /\ k.fn = "reaped"
    /\ tcb' = [tcb EXCEPT ![k.n].mask = ~@, ![k.n].cur = ~@]
    /\ actual_task' = k.n
    /\ k' = User
    /\ UNCHANGED <<os_q, sleep_q, counters, old_tid, wait4input, exits>>

-----------------------------------------------------------------------------
UserStep ==
    \/ \E s \in Slots : do_fork(s)
    \/ \E code \in Codes : sys_exit(code)
    \/ SegFault
    \/ \E pid \in Tids : waitpid_ESRCH(pid) \/ waitpid(pid)
    \/ stdin_read

KernelStep ==
    \/ do_exit \/ do_exit_panic
    \/ notify_parent \/ notify_parent_panic \/ notify_nobody
    \/ task_destroy_children \/ task_destroy
    \/ task_switch \/ idle_loop \/ task_switch_to
    \/ resume \/ sig_handler \/ sig_handled

Next ==
    \/ UserStep \/ KernelStep
    \/ TimerSwitch \/ dev_stdin_recall \/ dev_stdin_recall_panic

Spec == Init /\ [][Next]_vars

(* The CPU executes kernel code to its end and the timer keeps ticking.
   Nothing is assumed of programs or of the user at the keyboard. *)
Fairness == WF_vars(KernelStep) /\ WF_vars(TimerSwitch)

FairSpec == Spec /\ Fairness

-----------------------------------------------------------------------------
(* Properties *)

PtrTo(S) == S \cup {None}

(* The variables have their types. *)
TypeOK ==
    /\ tcb \in [Slots -> TCB]
    /\ os_q \in Seq(Slots) /\ sleep_q \in Seq(Slots)
    /\ running_tasks \in Int /\ sleeping_tasks \in Int /\ total_tasks \in Int
    /\ actual_task \in Slots \cup {Kernel}
    /\ old_tid \in Tids
    /\ wait4input \in PtrTo(Slots)
    /\ k \in [fn : KernelFns, t : PtrTo(Slots), n : PtrTo(Slots), code : Status \cup {0}]
    /\ exits \in [Tids -> Status \cup {-1}]

(* A task is in at most one queue, at most once. *)
QueuesDisjoint ==
    /\ IsInjective(os_q) /\ IsInjective(sleep_q)
    /\ Runnable \cap Sleeping = {}

(* Which queue a task is in agrees with its state, and what is queued is an
   allocated TCB: no queue keeps a task that was destroyed, whoever destroyed
   it and in whatever state it was. *)
QueuesMatchStates ==
    /\ \A t \in Runnable : tcb[t].live /\ tcb[t].st \in {"READY", "RUNNING"}
    /\ \A t \in Sleeping : tcb[t].live /\ tcb[t].st = "WAITING"

(* running_tasks, the only thing the idle loop looks at, and sleeping_tasks are
   the lengths of the queues. *)
CountersExact ==
    /\ running_tasks = Len(os_q)
    /\ sleeping_tasks = Len(sleep_q)

(* The CPU is given only to a queued task that is in state RUNNING, never to
   one that sleeps, is a zombie or was destroyed. *)
CpuOwnerQueued ==
    InUserMode => /\ actual_task \in Runnable
                  /\ tcb[actual_task].st = "RUNNING"
                  /\ ~tcb[actual_task].cur

(* The sibling lists and the parent pointers describe the same tree, so that
   parent->wait4 in do_exit and _remove_child in task_destroy never follow a
   pointer to a freed TCB. *)
TreeConsistent ==
    \A p \in Slots :
        /\ IsInjective(tcb[p].kids)
        /\ \A c \in Slots : c \in ToSet(tcb[p].kids)
                            <=> tcb[c].live /\ tcb[c].parent = p
        /\ ~tcb[p].live => tcb[p].kids = <<>>

(* Task ids are never used twice. *)
UniqueIds ==
    \A t, u \in Slots : tcb[t].live /\ tcb[u].live /\ tcb[t].id = tcb[u].id => t = u

(* A task asleep in waitpid waits for one of its children that is still to
   exit, and its SIGCHLD is unmasked: the wake-up cannot have been missed, in
   whatever order fork, exit, waitpid and the timer interleaved. *)
WaiterHasChild ==
    \A t \in Sleeping : tcb[t].mask =>
        LET c == tcb[t].wait4 IN
        /\ c # None /\ tcb[c].live /\ tcb[c].parent = t /\ tcb[c].id = tcb[t].pid
        /\ c \in Queued \/ (k.fn \in {"exit", "notify"} /\ k.t = c)

(* A task asleep in read(stdin) is the one the next Enter wakes. *)
ReaderIsKnown ==
    \A t \in Sleeping : ~tcb[t].mask => wait4input = t

(* At the end of do_exit, where the kernel panics if nobody is in the run queue,
   somebody is, unless there is no task left at all: the exit of a task, early,
   late or killed with its parent, never leaves only sleepers behind. *)
ExitFindsRunnable == k.fn = "switch_to" /\ os_q = <<>> => sleep_q = <<>>

(* waitpid returns the status with which the awaited task exited. *)
ExitCodeDelivered ==
    [][\A t \in Slots : tcb[t].cur /\ ~tcb'[t].cur =>
            tcb'[t].ret = exits[tcb[t].pid]]_vars

(* A zombie is on its way out: its parent has SIGCHLD pending and will destroy
   it when it is next scheduled, as do_exit has it: "it will be destroyed when
   SIGCHLD signal will be handled". *)
ZombieWillBeReaped ==
    \A z \in Slots : tcb[z].live /\ tcb[z].st = "ZOMBIE" =>
        LET p == tcb[z].parent IN tcb[p].cur /\ tcb[p].wait4 = z

(* The same for the zombies whose parent did wait for them, by their own pid:
   SIGCHLD is pending and wait4 still leads to them, whatever other children
   ended before, meanwhile or at an address used before. *)
AwaitedIsReaped ==
    \A z \in Slots : tcb[z].live /\ tcb[z].st = "ZOMBIE" =>
        LET p == tcb[z].parent IN tcb[p].pid = tcb[z].id => tcb[p].cur /\ tcb[p].wait4 = z

(* Round robin: a task in the run queue gets the CPU, or leaves the queue
   (killed with its parent), however many others there are, unless the machine
   halts: a zombie left by a stale wait4 makes the kernel panic when its parent
   is destroyed. *)
RunnableRuns ==
    \A t \in Slots : t \in Runnable ~>
        \/ InUserMode /\ actual_task = t
        \/ t \notin Runnable
        \/ k.fn = "panic"

(* A parent that waits learns of its child's exit: it runs again, with the
   signal handled and the zombie gone, unless the machine halts. *)
ParentResumes ==
    \A t \in Slots : tcb[t].cur ~>
        \/ InUserMode /\ actual_task = t /\ ~tcb[t].cur
        \/ k.fn = "panic"

-----------------------------------------------------------------------------
(* What makes the invariants above inductive *)

(* Identity of tasks: freed memory carries no id, only init has no parent. *)
IdsInv ==
    \A t \in Slots :
        /\ tcb[t].live => tcb[t].id \in 1..old_tid
        /\ ~tcb[t].live => tcb[t].id = 0
        /\ tcb[t].live /\ tcb[t].id # 1 => tcb[t].parent \in Slots

(* A pending SIGCHLD belongs to a zombie child, the one wait4 points to, until
   sig_handler has destroyed it. *)
PendingInv ==
    \A t \in Slots : tcb[t].cur /\ ~(k.fn = "reaped" /\ k.n = t) =>
        LET z == tcb[t].wait4 IN
        /\ z \in Slots /\ tcb[z].live /\ tcb[z].parent = t
        /\ tcb[z].st = "ZOMBIE" /\ tcb[z].id # 1

(* A zombie exits again only when it is killed with its parent. *)
Rekilled(t) == tcb[t].st = "ZOMBIE" => tcb[t].parent \notin Queued

(* What holds on entry to each kernel function. *)
ControlInv ==
    /\ k.fn = "exit" =>
          k.t \in Slots /\ tcb[k.t].live /\ Rekilled(k.t) /\ k.code \in Status
    /\ k.fn = "notify" =>
          /\ k.t \in Slots /\ tcb[k.t].live /\ k.t \notin Queued
          /\ tcb[k.t].id # 1 /\ Rekilled(k.t)
    /\ k.fn = "destroy" =>
          /\ k.t \in Slots /\ tcb[k.t].live /\ k.t \notin Queued
          /\ tcb[k.t].id # 1
          /\ IF k.n = None
             THEN \A t \in Slots : ~(tcb[t].cur /\ tcb[t].wait4 = k.t)
             ELSE k.n = tcb[k.t].parent /\ tcb[k.n].wait4 = k.t
    /\ k.fn \in {"destroy", "reaped"} /\ (k.fn = "reaped" \/ k.n # None) =>
          k.n \in Runnable /\ tcb[k.n].cur /\ tcb[k.n].st = "RUNNING"
    /\ k.fn = "resume" => k.n \in Runnable
    /\ k.fn \in {"switch", "idle"} /\ actual_task \in Sleeping =>
          sleep_q[Len(sleep_q)] = actual_task

(* Every kernel function is entered with what it relies on: the task it works on
   exists, a task about to run is queued, a signal about to be handled has its
   zombie, and a task that has just gone to sleep is the last of sleep_q, so that
   task_switch does not follow its `next' into that queue. *)
EntryConditions == IdsInv /\ PendingInv /\ ControlInv

IndInv ==
    /\ TypeOK
    /\ QueuesDisjoint /\ QueuesMatchStates /\ CountersExact
    /\ CpuOwnerQueued /\ TreeConsistent /\ UniqueIds
    /\ EntryConditions
=============================================================================
