---------------------------- MODULE TasksProofs ----------------------------
(***************************************************************************)
(* Proofs, for any number of TCB slots, tasks and exit statuses, about the *)
(* tasks and the scheduler.  Four inductive invariants; for each, one      *)
(* lemma per action or group of like actions.                              *)
(*                                                                         *)
(* - IndInv, whatever programs do: the queues, their counters and the task *)
(*   tree stay consistent.                                                 *)
(* - FamilyInv, for programs that look after their children (Families):    *)
(*   who waits has a child to wait for, the reader is a known task, and an *)
(*   exit code reaches the parent.                                         *)
(* - ReapInv, on top of it: a zombie whose parent waited for it is reaped. *)
(* - ShellInv, for tasks with one child at a time (Shell): the end of      *)
(*   do_exit finds somebody to run.                                        *)
(***************************************************************************)
EXTENDS Tasks, SequenceTheorems, TLAPS

SL == INSTANCE SequenceLemmas

-----------------------------------------------------------------------------
(* Queues as sequences *)

(* Removing an element shifts what is behind it. *)
LEMMA WithoutIndex ==
    ASSUME NEW S, NEW q \in Seq(S), NEW t \in ToSet(q)
    PROVE  \E i \in 1..Len(q) :
              /\ q[i] = t
              /\ Without(q, t) \in Seq(S)
              /\ Len(Without(q, t)) = Len(q) - 1
              /\ \A j \in 1..(Len(q) - 1) :
                    Without(q, t)[j] = IF j < i THEN q[j] ELSE q[j + 1]
<1> DEFINE i == CHOOSE j \in 1..Len(q) : q[j] = t
           front == SubSeq(q, 1, i - 1)
           back == SubSeq(q, i + 1, Len(q))
<1>1. i \in 1..Len(q) /\ q[i] = t
  BY DEF ToSet
<1>2. Without(q, t) = front \o back
  BY DEF Without, RemoveAt
<1> HIDE DEF i
<1>3. /\ front \in Seq(S)
      /\ Len(front) = i - 1
      /\ \A j \in 1..(i - 1) : front[j] = q[j]
  <2>1. i - 1 \in Int /\ \A j \in 1..(i - 1) : q[j] \in S
    BY <1>1
  <2> QED
    BY <1>1, <2>1, SubSeqProperties
<1>4. /\ back \in Seq(S)
      /\ Len(back) = Len(q) - i
      /\ \A j \in 1..(Len(q) - i) : back[j] = q[i + j]
  <2>1. i + 1 \in Int /\ Len(q) \in Int /\ \A j \in (i + 1)..Len(q) : q[j] \in S
    BY <1>1
  <2>2. /\ back \in Seq(S)
        /\ Len(back) = IF i + 1 <= Len(q) THEN Len(q) - (i + 1) + 1 ELSE 0
        /\ \A j \in 1..(Len(q) - (i + 1) + 1) : back[j] = q[i + 1 + j - 1]
    BY <2>1, SubSeqProperties
  <2> QED
    BY <1>1, <2>1, <2>2
<1> HIDE DEF front, back
<1>5. /\ front \o back \in Seq(S)
      /\ Len(front \o back) = Len(front) + Len(back)
      /\ \A j \in 1..(Len(front) + Len(back)) :
            (front \o back)[j] = IF j <= Len(front) THEN front[j] ELSE back[j - Len(front)]
  BY <1>3, <1>4, ConcatProperties
<1>6. Len(q) \in Nat
  OBVIOUS
<1>7. \A j \in 1..(Len(q) - 1) : (front \o back)[j] = IF j < i THEN q[j] ELSE q[j + 1]
  BY <1>1, <1>3, <1>4, <1>5, <1>6
<1>8. Len(front \o back) = Len(q) - 1
  BY <1>1, <1>3, <1>4, <1>5, <1>6
<1>9. /\ Without(q, t) \in Seq(S)
      /\ Len(Without(q, t)) = Len(q) - 1
      /\ \A j \in 1..(Len(q) - 1) :
            Without(q, t)[j] = IF j < i THEN q[j] ELSE q[j + 1]
  BY <1>2, <1>5, <1>7, <1>8
<1> QED
  BY <1>1, <1>9

(* _remove_from_queue takes t, and nothing else, out of a queue that holds it. *)
LEMMA WithoutFacts ==
    ASSUME NEW S, NEW q \in Seq(S), IsInjective(q), NEW t \in ToSet(q)
    PROVE  /\ Without(q, t) \in Seq(S)
           /\ Len(Without(q, t)) = Len(q) - 1
           /\ ToSet(Without(q, t)) = ToSet(q) \ {t}
           /\ IsInjective(Without(q, t))
           /\ Len(q) > 0
           /\ q[Len(q)] # t => /\ Len(q) > 1
                               /\ Without(q, t)[Len(q) - 1] = q[Len(q)]
<1> DEFINE w == Without(q, t)
<1>1. PICK i \in 1..Len(q) :
              /\ q[i] = t
              /\ w \in Seq(S)
              /\ Len(w) = Len(q) - 1
              /\ \A j \in 1..(Len(q) - 1) : w[j] = IF j < i THEN q[j] ELSE q[j + 1]
  BY WithoutIndex, SMTT(30)
<1> HIDE DEF w
<1>2. Len(q) \in Nat /\ DOMAIN q = 1..Len(q) /\ DOMAIN w = 1..(Len(q) - 1)
  BY <1>1
<1>3. \A a, b \in 1..Len(q) : q[a] = q[b] => a = b
  BY <1>2 DEF IsInjective
<1>4. ToSet(w) \subseteq ToSet(q) \ {t}
  <2>1. SUFFICES ASSUME NEW j \in 1..(Len(q) - 1) PROVE w[j] \in ToSet(q) \ {t}
    BY <1>2 DEF ToSet
  <2>2. CASE j < i
    <3>1. w[j] = q[j] /\ j \in 1..Len(q) /\ j # i
      BY <1>1, <1>2, <2>2
    <3> QED
      BY <1>1, <1>2, <1>3, <3>1, SMTT(30) DEF ToSet
  <2>3. CASE ~(j < i)
    <3>1. w[j] = q[j + 1] /\ j + 1 \in 1..Len(q) /\ j + 1 # i
      BY <1>1, <1>2, <2>3
    <3> QED
      BY <1>1, <1>2, <1>3, <3>1 DEF ToSet
  <2> QED
    BY <2>2, <2>3
<1>5. ToSet(q) \ {t} \subseteq ToSet(w)
  <2>1. SUFFICES ASSUME NEW j \in 1..Len(q), q[j] # t PROVE q[j] \in ToSet(w)
    BY <1>2 DEF ToSet
  <2>2. CASE j < i
    <3>1. w[j] = q[j] /\ j \in 1..(Len(q) - 1)
      BY <1>1, <1>2, <2>2
    <3> QED
      BY <1>2, <3>1 DEF ToSet
  <2>3. CASE j > i
    <3>1. w[j - 1] = q[j] /\ j - 1 \in 1..(Len(q) - 1)
      BY <1>1, <1>2, <2>3
    <3> QED
      BY <1>2, <3>1 DEF ToSet
  <2> QED
    BY <1>1, <2>1, <2>2, <2>3
<1>6. IsInjective(w)
  <2>1. SUFFICES ASSUME NEW a \in 1..(Len(q) - 1), NEW b \in 1..(Len(q) - 1), w[a] = w[b]
                 PROVE  a = b
    BY <1>2 DEF IsInjective
  <2> QED
    BY <1>1, <1>2, <1>3, <2>1
<1>7. q[Len(q)] # t => Len(q) > 1 /\ w[Len(q) - 1] = q[Len(q)]
  BY <1>1, <1>2
<1> QED
  BY <1>1, <1>2, <1>4, <1>5, <1>6, <1>7 DEF w

(* _add_to_queue: a task that is in no queue becomes the last of one. *)
LEMMA AppendFacts ==
    ASSUME NEW S, NEW q \in Seq(S), NEW t \in S
    PROVE  /\ Append(q, t) \in Seq(S)
           /\ Len(Append(q, t)) = Len(q) + 1
           /\ ToSet(Append(q, t)) = ToSet(q) \cup {t}
           /\ IsInjective(q) /\ t \notin ToSet(q) => IsInjective(Append(q, t))
           /\ Append(q, t)[Len(q) + 1] = t
<1> DEFINE a == Append(q, t)
<1>1. /\ a \in Seq(S) /\ Len(a) = Len(q) + 1
      /\ \A j \in 1..Len(q) : a[j] = q[j]
      /\ a[Len(q) + 1] = t
      /\ Len(q) \in Nat
      /\ DOMAIN q = 1..Len(q) /\ DOMAIN a = 1..(Len(q) + 1)
  OBVIOUS
<1> HIDE DEF a
<1>2. ToSet(a) = ToSet(q) \cup {t}
  <2>1. ASSUME NEW x \in ToSet(a) PROVE x \in ToSet(q) \cup {t}
    BY <1>1 DEF ToSet
  <2>2. ASSUME NEW x \in ToSet(q) PROVE x \in ToSet(a)
    <3>1. PICK j \in 1..Len(q) : x = q[j]
      BY <1>1 DEF ToSet
    <3>2. a[j] = x /\ j \in DOMAIN a
      BY <1>1, <3>1
    <3> QED
      BY <3>2 DEF ToSet
  <2>3. t \in ToSet(a)
    BY <1>1 DEF ToSet
  <2> QED
    BY <2>1, <2>2, <2>3
<1>3. IsInjective(q) /\ t \notin ToSet(q) => IsInjective(a)
  <2>1. SUFFICES ASSUME IsInjective(q), t \notin ToSet(q),
                        NEW x \in 1..(Len(q) + 1), NEW y \in 1..(Len(q) + 1), a[x] = a[y]
                 PROVE  x = y
    BY <1>1 DEF IsInjective
  <2>2. \A j \in 1..Len(q) : q[j] # t
    BY <1>1, <2>1 DEF ToSet
  <2>3. \A i, j \in 1..Len(q) : q[i] = q[j] => i = j
    BY <1>1, <2>1 DEF IsInjective
  <2> QED
    BY <1>1, <2>1, <2>2, <2>3
<1> QED
  BY <1>1, <1>2, <1>3 DEF a

(* What is found in a queue, or behind a task of it, is a member of it. *)
LEMMA NextInFacts ==
    ASSUME NEW S, NEW q \in Seq(S), NEW t
    PROVE  /\ NextIn(q, t) \in ToSet(q) \cup {None}
           /\ t \notin ToSet(q) => NextIn(q, t) = None
           /\ IsInjective(q) /\ Len(q) > 0 /\ q[Len(q)] = t => NextIn(q, t) = None
<1> DEFINE i == CHOOSE j \in 1..Len(q) : q[j] = t
<1>1. Len(q) \in Nat /\ DOMAIN q = 1..Len(q)
  OBVIOUS
<1>2. t \in ToSet(q) => i \in 1..Len(q) /\ q[i] = t
  BY <1>1 DEF ToSet
<1>3. NextIn(q, t) = IF t \in ToSet(q) /\ i < Len(q) THEN q[i + 1] ELSE None
  BY DEF NextIn
<1> HIDE DEF i
<1>4. NextIn(q, t) \in ToSet(q) \cup {None}
  <2>1. CASE t \in ToSet(q) /\ i < Len(q)
    <3>1. i + 1 \in 1..Len(q)
      BY <1>1, <1>2, <2>1
    <3> QED
      BY <1>1, <1>3, <2>1, <3>1 DEF ToSet
  <2> QED
    BY <1>3, <2>1
<1>5. ASSUME IsInjective(q), Len(q) > 0, q[Len(q)] = t PROVE NextIn(q, t) = None
  <2>1. t \in ToSet(q)
    BY <1>1, <1>5 DEF ToSet
  <2>2. i = Len(q)
    BY <1>1, <1>2, <1>5, <2>1 DEF IsInjective
  <2> QED
    BY <1>1, <1>3, <2>2
<1> QED
  BY <1>3, <1>4, <1>5

-----------------------------------------------------------------------------
(* What the functions of the scheduler do to the queues *)

(* What is queued is the address of a TCB. *)
LEMMA QueuedAreSlots ==
    ASSUME TypeOK PROVE Runnable \subseteq Slots /\ Sleeping \subseteq Slots
BY DEF TypeOK, Runnable, Sleeping, ToSet

(* sched_set_state(t, 0) moves t from the run queue to the end of sleep_q. *)
LEMMA SleepFacts ==
    ASSUME TypeOK, QueuesDisjoint, CountersExact, NEW t \in Runnable, sched_sleep_task(t)
    PROVE  /\ os_q' \in Seq(Slots) /\ sleep_q' \in Seq(Slots)
           /\ QueuesDisjoint' /\ CountersExact'
           /\ Runnable' = Runnable \ {t} /\ Sleeping' = Sleeping \cup {t}
           /\ sleep_q'[Len(sleep_q')] = t
           /\ running_tasks' \in Int /\ sleeping_tasks' \in Int /\ total_tasks' \in Int
<1>1. os_q \in Seq(Slots) /\ sleep_q \in Seq(Slots) /\ t \in Slots
  BY QueuedAreSlots DEF TypeOK
<1>2. os_q' = Without(os_q, t) /\ sleep_q' = Append(sleep_q, t)
  BY DEF sched_sleep_task
<1>3. t \in ToSet(os_q) /\ t \notin ToSet(sleep_q) /\ IsInjective(os_q) /\ IsInjective(sleep_q)
  BY DEF QueuesDisjoint, Runnable, Sleeping
<1>4. /\ os_q' \in Seq(Slots) /\ Len(os_q') = Len(os_q) - 1
      /\ ToSet(os_q') = ToSet(os_q) \ {t} /\ IsInjective(os_q')
  BY <1>1, <1>2, <1>3, WithoutFacts
<1>5. /\ sleep_q' \in Seq(Slots) /\ Len(sleep_q') = Len(sleep_q) + 1
      /\ ToSet(sleep_q') = ToSet(sleep_q) \cup {t} /\ IsInjective(sleep_q')
      /\ sleep_q'[Len(sleep_q) + 1] = t
  BY <1>1, <1>2, <1>3, AppendFacts
<1>6. Runnable' = Runnable \ {t} /\ Sleeping' = Sleeping \cup {t}
  BY <1>4, <1>5 DEF Runnable, Sleeping
<1>7. QueuesDisjoint'
  BY <1>4, <1>5, <1>6 DEF QueuesDisjoint
<1>8. CountersExact' /\ running_tasks' \in Int /\ sleeping_tasks' \in Int /\ total_tasks' \in Int
  BY <1>1, <1>4, <1>5 DEF CountersExact, sched_sleep_task, TypeOK
<1> QED
  BY <1>4, <1>5, <1>6, <1>7, <1>8

(* sched_set_state(t, 1) makes t runnable, once. *)
LEMMA WakeFacts ==
    ASSUME TypeOK, QueuesDisjoint, CountersExact, NEW t \in Queued, sched_wake_task(t)
    PROVE  /\ os_q' \in Seq(Slots) /\ sleep_q' \in Seq(Slots)
           /\ QueuesDisjoint' /\ CountersExact'
           /\ Runnable' = Runnable \cup {t} /\ Sleeping' = Sleeping \ {t}
           /\ \A u \in Sleeping : u # t /\ sleep_q[Len(sleep_q)] = u
                                  => sleep_q'[Len(sleep_q')] = u
           /\ running_tasks' \in Int /\ sleeping_tasks' \in Int /\ total_tasks' \in Int
<1>1. os_q \in Seq(Slots) /\ sleep_q \in Seq(Slots) /\ t \in Slots
  BY QueuedAreSlots DEF TypeOK, Queued
<1>2. CASE t \in Sleeping
  <2>1. os_q' = Append(os_q, t) /\ sleep_q' = Without(sleep_q, t)
    BY <1>2 DEF sched_wake_task
  <2>2. t \notin ToSet(os_q) /\ t \in ToSet(sleep_q) /\ IsInjective(os_q) /\ IsInjective(sleep_q)
    BY <1>2 DEF QueuesDisjoint, Runnable, Sleeping
  <2>3. /\ os_q' \in Seq(Slots) /\ Len(os_q') = Len(os_q) + 1
        /\ ToSet(os_q') = ToSet(os_q) \cup {t} /\ IsInjective(os_q')
    BY <1>1, <2>1, <2>2, AppendFacts
  <2>4. /\ sleep_q' \in Seq(Slots) /\ Len(sleep_q') = Len(sleep_q) - 1
        /\ ToSet(sleep_q') = ToSet(sleep_q) \ {t} /\ IsInjective(sleep_q')
        /\ sleep_q[Len(sleep_q)] # t => sleep_q'[Len(sleep_q) - 1] = sleep_q[Len(sleep_q)]
    BY <1>1, <2>1, <2>2, WithoutFacts
  <2>5. Runnable' = Runnable \cup {t} /\ Sleeping' = Sleeping \ {t}
    BY <2>3, <2>4 DEF Runnable, Sleeping
  <2>6. QueuesDisjoint'
    BY <2>3, <2>4, <2>5 DEF QueuesDisjoint
  <2>7. CountersExact' /\ running_tasks' \in Int /\ sleeping_tasks' \in Int /\ total_tasks' \in Int
    BY <1>1, <1>2, <2>3, <2>4 DEF CountersExact, sched_wake_task, TypeOK
  <2> QED
    BY <2>3, <2>4, <2>5, <2>6, <2>7
<1>3. CASE t \notin Sleeping
  <2>1. UNCHANGED <<os_q, sleep_q, counters>> /\ t \in Runnable
    BY <1>3 DEF sched_wake_task, Queued
  <2> QED
    BY <1>1, <1>3, <2>1 DEF QueuesDisjoint, CountersExact, Runnable, Sleeping, TypeOK, counters
<1> QED
  BY <1>2, <1>3

(* sched_remove takes t out of the queue its state says it is in. *)
LEMMA RemoveFacts ==
    ASSUME TypeOK, QueuesDisjoint, QueuesMatchStates, CountersExact, NEW t \in Slots,
           ~Leaked(t), sched_remove(t)
    PROVE  /\ os_q' \in Seq(Slots) /\ sleep_q' \in Seq(Slots)
           /\ QueuesDisjoint' /\ CountersExact'
           /\ Runnable' = Runnable \ {t} /\ Sleeping' = Sleeping \ {t}
           /\ running_tasks' \in Int /\ sleeping_tasks' \in Int /\ total_tasks' \in Int
<1>1. os_q \in Seq(Slots) /\ sleep_q \in Seq(Slots)
  BY DEF TypeOK
<1>2. /\ t \in Runnable => tcb[t].st \in {"READY", "RUNNING"}
      /\ t \in Sleeping => tcb[t].st = "WAITING"
      /\ tcb[t].st \in {"READY", "RUNNING", "WAITING", "ZOMBIE"}
      /\ t \in Runnable \/ t \in Sleeping \/ tcb[t].st = "ZOMBIE"
  BY DEF QueuesMatchStates, TypeOK, TCB, Leaked, Queued
<1>3. total_tasks' \in Int
  BY DEF TypeOK, sched_remove
<1>4. CASE tcb[t].st = "ZOMBIE"
  <2>1. t \notin Runnable /\ t \notin Sleeping
    BY <1>2, <1>4
  <2>2. UNCHANGED <<os_q, sleep_q, running_tasks, sleeping_tasks>>
    BY <1>4 DEF sched_remove
  <2> QED
    BY <1>1, <1>3, <2>1, <2>2 DEF QueuesDisjoint, CountersExact, Runnable, Sleeping, TypeOK
<1>5. CASE tcb[t].st \in {"READY", "RUNNING"}
  <2>1. t \in ToSet(os_q) /\ t \notin ToSet(sleep_q)
    BY <1>2, <1>5 DEF Runnable, Sleeping
  <2>2. /\ os_q' = Without(os_q, t) /\ running_tasks' = running_tasks - 1
        /\ UNCHANGED <<sleep_q, sleeping_tasks>>
    BY <1>5 DEF sched_remove
  <2>3. /\ os_q' \in Seq(Slots) /\ Len(os_q') = Len(os_q) - 1
        /\ ToSet(os_q') = ToSet(os_q) \ {t} /\ IsInjective(os_q')
    BY <1>1, <2>1, <2>2, WithoutFacts DEF QueuesDisjoint
  <2>4. Runnable' = Runnable \ {t} /\ Sleeping' = Sleeping \ {t}
    BY <2>1, <2>2, <2>3 DEF Runnable, Sleeping
  <2>5. QueuesDisjoint'
    BY <2>2, <2>3, <2>4 DEF QueuesDisjoint
  <2>6. CountersExact' /\ running_tasks' \in Int /\ sleeping_tasks' \in Int
    BY <2>2, <2>3 DEF CountersExact, TypeOK
  <2> QED
    BY <1>1, <1>3, <2>2, <2>3, <2>4, <2>5, <2>6
<1>6. CASE tcb[t].st = "WAITING"
  <2>1. t \in ToSet(sleep_q) /\ t \notin ToSet(os_q)
    BY <1>2, <1>6 DEF Runnable, Sleeping
  <2>2. /\ sleep_q' = Without(sleep_q, t) /\ sleeping_tasks' = sleeping_tasks - 1
        /\ UNCHANGED <<os_q, running_tasks>>
    BY <1>6 DEF sched_remove
  <2>3. /\ sleep_q' \in Seq(Slots) /\ Len(sleep_q') = Len(sleep_q) - 1
        /\ ToSet(sleep_q') = ToSet(sleep_q) \ {t} /\ IsInjective(sleep_q')
    BY <1>1, <2>1, <2>2, WithoutFacts DEF QueuesDisjoint
  <2>4. Runnable' = Runnable \ {t} /\ Sleeping' = Sleeping \ {t}
    BY <2>1, <2>2, <2>3 DEF Runnable, Sleeping
  <2>5. QueuesDisjoint'
    BY <2>2, <2>3, <2>4 DEF QueuesDisjoint
  <2>6. CountersExact' /\ running_tasks' \in Int /\ sleeping_tasks' \in Int
    BY <2>2, <2>3 DEF CountersExact, TypeOK
  <2> QED
    BY <1>1, <1>3, <2>2, <2>3, <2>4, <2>5, <2>6
<1> QED
  BY <1>2, <1>4, <1>5, <1>6

-----------------------------------------------------------------------------
(* Steps that only change what the kernel executes *)

(* The conjuncts of IndInv that do not speak of k and actual_task. *)
StateInv ==
    /\ QueuesDisjoint /\ QueuesMatchStates /\ CountersExact
    /\ TreeConsistent /\ UniqueIds /\ IdsInv

(* A step that changes neither tasks nor queues keeps these. *)
LEMMA StateUnchanged ==
    ASSUME StateInv, UNCHANGED <<tcb, os_q, sleep_q, counters, old_tid>>
    PROVE  StateInv'
BY DEF StateInv, QueuesDisjoint, QueuesMatchStates, CountersExact, TreeConsistent,
       UniqueIds, IdsInv, Runnable, Sleeping, Queued, counters

(* The task in user mode is allocated, runnable and no zombie. *)
LEMMA RunningTask ==
    ASSUME IndInv, InUserMode
    PROVE  /\ me \in Slots /\ me \in Runnable /\ me \notin Sleeping
           /\ tcb[me].live /\ tcb[me].st = "RUNNING" /\ ~tcb[me].cur
BY QueuedAreSlots DEF IndInv, CpuOwnerQueued, QueuesMatchStates, QueuesDisjoint, me

(* exit(), and the SIGSEGV of a page fault. *)
LEMMA ExitStep ==
    ASSUME IndInv, NEW code \in Codes \cup {SEGV_STATUS},
           InUserMode, k' = Call("exit", me, None, code),
           UNCHANGED <<tcb, os_q, sleep_q, counters, actual_task, old_tid, wait4input, exits>>
    PROVE  IndInv'
<1>1. StateInv'
  BY StateUnchanged DEF IndInv, StateInv, EntryConditions
<1>2. TypeOK'
  BY RunningTask DEF IndInv, TypeOK, Call, KernelFns, Status, PtrTo, counters, me
<1>3. CpuOwnerQueued'
  BY DEF CpuOwnerQueued, InUserMode, Call
<1>4. PendingInv'
  BY DEF IndInv, EntryConditions, PendingInv, Call, InUserMode
<1>5. ControlInv'
  BY RunningTask DEF ControlInv, Call, Rekilled, me, Status
<1> QED
  BY <1>1, <1>2, <1>3, <1>4, <1>5 DEF IndInv, StateInv, EntryConditions

(* The steps into task_switch and into kernel_panic. *)
LEMMA SimpleControlStep ==
    ASSUME IndInv,
           \/ TimerSwitch \/ idle_loop
           \/ dev_stdin_recall_panic \/ do_exit_panic \/ notify_parent_panic
    PROVE  IndInv'
<1> USE DEF TimerSwitch, idle_loop, dev_stdin_recall_panic, do_exit_panic, notify_parent_panic
<1>0. UNCHANGED <<tcb, os_q, sleep_q, counters, actual_task, old_tid, wait4input, exits>>
  OBVIOUS
<1>1. StateInv'
  BY <1>0, StateUnchanged DEF IndInv, StateInv, EntryConditions
<1>a. \/ k' = Panic
      \/ k' = Switch /\ k.fn \in {"user", "idle"}
  BY DEF InUserMode
<1>2. TypeOK'
  BY <1>0, <1>a DEF IndInv, TypeOK, Call, KernelFns, Status, PtrTo, counters, Switch, Panic
<1>3. CpuOwnerQueued'
  BY <1>a DEF CpuOwnerQueued, InUserMode, Call, Switch, Panic
<1>4. PendingInv'
  <2>1. k.fn # "reaped"
    BY DEF InUserMode, KeyboardOn
  <2> QED
    BY <1>0, <2>1 DEF IndInv, EntryConditions, PendingInv
<1>5. ControlInv'
  <2>1. CASE k' = Panic
    BY <2>1 DEF ControlInv, Call, Panic
  <2>2. CASE k' = Switch /\ k.fn = "user"
    <3>1. actual_task' \notin Sleeping'
      BY <1>0, <2>2, RunningTask DEF InUserMode, me, Sleeping
    <3> QED
      BY <2>2, <3>1 DEF ControlInv, Call, Switch
  <2>3. CASE k' = Switch /\ k.fn = "idle"
    BY <1>0, <2>3 DEF ControlInv, Call, Switch, IndInv, EntryConditions, Sleeping
  <2> QED
    BY <1>a, <2>1, <2>2, <2>3
<1> QED
  BY <1>1, <1>2, <1>3, <1>4, <1>5 DEF IndInv, StateInv, EntryConditions

(* do_exit when nobody waits: the task is not the zombie of any handler. *)
LEMMA NotifyNobodyStep ==
    ASSUME IndInv, notify_nobody
    PROVE  IndInv'
<1> DEFINE t == k.t
<1>0. /\ k.fn = "notify" /\ ~Awaited(t) /\ k' = Call("destroy", t, None, 0)
      /\ UNCHANGED <<tcb, os_q, sleep_q, counters, actual_task, old_tid, wait4input, exits>>
  BY DEF notify_nobody
<1>1. StateInv'
  BY <1>0, StateUnchanged DEF IndInv, StateInv, EntryConditions
<1>b. t \in Slots /\ tcb[t].live /\ t \notin Queued /\ tcb[t].id # 1
  BY <1>0 DEF IndInv, EntryConditions, ControlInv
<1>2. TypeOK'
  BY <1>0, <1>b DEF IndInv, TypeOK, Call, KernelFns, Status, PtrTo, counters
<1>3. CpuOwnerQueued'
  BY <1>0 DEF CpuOwnerQueued, InUserMode, Call
<1>4. PendingInv'
  BY <1>0 DEF IndInv, EntryConditions, PendingInv
<1>5. ASSUME NEW p \in Slots, tcb[p].cur, tcb[p].wait4 = t PROVE FALSE
  <2>1. tcb[t].parent = p
    BY <1>0, <1>5 DEF IndInv, EntryConditions, PendingInv
  <2>2. t # None
    BY <1>b, TasksAssumption
  <2> QED
    BY <1>0, <1>5, <2>1, <2>2 DEF Awaited
<1>6. ControlInv'
  BY <1>0, <1>b, <1>5 DEF ControlInv, Call, Queued, Runnable, Sleeping
<1> QED
  BY <1>1, <1>2, <1>3, <1>4, <1>6 DEF IndInv, StateInv, EntryConditions

(* task_destroy kills the first child: it exists, and as its parent has left
   the queues no handler is left to reap it. *)
LEMMA DestroyChildrenStep ==
    ASSUME IndInv, task_destroy_children
    PROVE  IndInv'
<1> DEFINE t == k.t
           c == tcb[t].kids[1]
<1>0. /\ k.fn = "destroy" /\ tcb[t].kids # <<>> /\ k' = Call("exit", c, None, SIGKILL)
      /\ UNCHANGED <<tcb, os_q, sleep_q, counters, actual_task, old_tid, wait4input, exits>>
  BY DEF task_destroy_children
<1>1. StateInv'
  BY <1>0, StateUnchanged DEF IndInv, StateInv, EntryConditions
<1>b. t \in Slots /\ tcb[t].live /\ t \notin Queued
  BY <1>0 DEF IndInv, EntryConditions, ControlInv
<1>c. c \in ToSet(tcb[t].kids) /\ c \in Slots
  <2>1. tcb[t].kids \in Seq(Slots)
    BY <1>b DEF IndInv, TypeOK, TCB
  <2>2. 1 \in DOMAIN tcb[t].kids
    BY <1>0, <2>1
  <2> QED
    BY <2>1, <2>2 DEF ToSet
<1>d. tcb[c].live /\ tcb[c].parent = t
  BY <1>b, <1>c DEF IndInv, TreeConsistent
<1>2. TypeOK'
  BY <1>0, <1>c DEF IndInv, TypeOK, Call, KernelFns, Status, PtrTo, counters
<1>3. CpuOwnerQueued'
  BY <1>0 DEF CpuOwnerQueued, InUserMode, Call
<1>4. PendingInv'
  BY <1>0 DEF IndInv, EntryConditions, PendingInv
<1>6. ControlInv'
  BY <1>0, <1>b, <1>c, <1>d DEF ControlInv, Call, Queued, Runnable, Sleeping, Rekilled, Status
<1> QED
  BY <1>1, <1>2, <1>3, <1>4, <1>6 DEF IndInv, StateInv, EntryConditions

-----------------------------------------------------------------------------
(* Steps that change tasks but not the tree *)

(* Two states with the same tasks, ids, parents and children. *)
SameTree ==
    /\ \A t \in Slots : /\ tcb'[t].live = tcb[t].live /\ tcb'[t].id = tcb[t].id
                        /\ tcb'[t].parent = tcb[t].parent /\ tcb'[t].kids = tcb[t].kids
    /\ old_tid' = old_tid

(* Then what speaks of the tree only stays true. *)
LEMMA TreeKept ==
    ASSUME TypeOK, TreeConsistent, UniqueIds, IdsInv, SameTree
    PROVE  TreeConsistent' /\ UniqueIds' /\ IdsInv'
<1>1. TreeConsistent'
  BY DEF TreeConsistent, SameTree
<1>2. UniqueIds'
  BY DEF UniqueIds, SameTree
<1>3. IdsInv'
  BY DEF IdsInv, SameTree
<1> QED
  BY <1>1, <1>2, <1>3

(* Assigning to a field of a TCB gives a TCB. *)
LEMMA FieldUpdates ==
    ASSUME NEW r \in TCB
    PROVE  /\ \A x \in {"READY", "RUNNING", "WAITING", "ZOMBIE"} : [r EXCEPT !.st = x] \in TCB
           /\ \A x \in Int : [r EXCEPT !.ret = x] \in TCB
           /\ \A x \in BOOLEAN : [r EXCEPT !.mask = x] \in TCB
           /\ \A x \in BOOLEAN : [r EXCEPT !.cur = x] \in TCB
           /\ \A x \in PtrTo(Slots) : [r EXCEPT !.wait4 = x] \in TCB
           /\ \A x \in 0..MaxTid : [r EXCEPT !.pid = x] \in TCB
           /\ \A x \in Seq(Slots) : [r EXCEPT !.kids = x] \in TCB
           /\ \A x \in Status \cup {0} : [r EXCEPT !.code = x] \in TCB
BY DEF TCB, PtrTo

(* task_new gives a TCB. *)
LEMMA NewTaskType ==
    ASSUME NEW id \in 0..MaxTid, NEW parent \in Slots \cup {None}, NEW mask \in BOOLEAN
    PROVE  NewTask(id, parent, mask) \in TCB
<1>1. <<>> \in Seq(Slots) /\ 0 \in Status \cup {0} /\ 0 \in Int /\ None \in Slots \cup {None}
  OBVIOUS
<1>2. 0 \in 0..MaxTid
  BY TasksAssumption
<1>3. TRUE \in BOOLEAN /\ FALSE \in BOOLEAN
  OBVIOUS
<1>4. "READY" \in {"READY", "RUNNING", "WAITING", "ZOMBIE"}
  OBVIOUS
<1> QED
  BY <1>1, <1>2, <1>3, <1>4, Zenon DEF NewTask, TCB

(* Freed memory, read as a TCB. *)
LEMMA NoTaskType == NoTask \in TCB
<1> DEFINE r == NewTask(0, None, FALSE)
<1>1. 0 \in 0..MaxTid /\ None \in Slots \cup {None} /\ FALSE \in BOOLEAN
  BY TasksAssumption
<1>2. r \in TCB
  BY <1>1, NewTaskType
<1>3. NoTask = [r EXCEPT !.live = FALSE]
  BY DEF NoTask
<1> HIDE DEF r
<1> QED
  BY <1>2, <1>3 DEF TCB

(* do_exit *)
LEMMA DoExitStep ==
    ASSUME IndInv, do_exit
    PROVE  IndInv'
<1> DEFINE t == k.t
<1>0. /\ k.fn = "exit" /\ ~Leaked(t) /\ sched_remove(t)
      /\ tcb' = [tcb EXCEPT ![t].code = k.code]
      /\ k' = IF tcb[t].id = 1 THEN SwitchTo ELSE Call("notify", t, None, 0)
      /\ UNCHANGED <<actual_task, old_tid, wait4input>>
  BY DEF do_exit
<1>1. t \in Slots /\ tcb[t].live /\ Rekilled(t)
  BY <1>0 DEF IndInv, EntryConditions, ControlInv
<1>2. /\ tcb' \in [Slots -> TCB] /\ SameTree
      /\ \A u \in Slots : /\ tcb'[u].st = tcb[u].st /\ tcb'[u].cur = tcb[u].cur
                          /\ tcb'[u].wait4 = tcb[u].wait4
  <2>1. tcb \in [Slots -> TCB] /\ tcb[t] \in TCB /\ k.code \in Status \cup {0}
    BY <1>1 DEF IndInv, TypeOK
  <2>2. [tcb[t] EXCEPT !.code = k.code] \in TCB
    BY <2>1 DEF TCB
  <2>3. tcb' \in [Slots -> TCB]
    BY <1>0, <1>1, <2>1, <2>2
  <2>4. \A u \in Slots : /\ tcb'[u].st = tcb[u].st /\ tcb'[u].cur = tcb[u].cur
                         /\ tcb'[u].wait4 = tcb[u].wait4
    BY <1>0, <2>1 DEF TCB
  <2>5. SameTree
    BY <1>0, <2>1 DEF TCB, SameTree
  <2> QED
    BY <2>3, <2>4, <2>5
<1>3. /\ os_q' \in Seq(Slots) /\ sleep_q' \in Seq(Slots)
      /\ QueuesDisjoint' /\ CountersExact'
      /\ Runnable' = Runnable \ {t} /\ Sleeping' = Sleeping \ {t}
      /\ running_tasks' \in Int /\ sleeping_tasks' \in Int /\ total_tasks' \in Int
  BY <1>0, <1>1, RemoveFacts DEF IndInv
<1>4. exits' \in [Tids -> Status \cup {-1}]
  <2>1. tcb[t].id \in Tids
    BY <1>1, TasksAssumption DEF IndInv, EntryConditions, IdsInv, TypeOK, Tids
  <2>2. k.code \in Status
    BY <1>0 DEF IndInv, EntryConditions, ControlInv, TypeOK
  <2> QED
    BY <2>1, <2>2 DEF do_exit, IndInv, TypeOK
<1>5. TypeOK'
  BY <1>0, <1>1, <1>2, <1>3, <1>4 DEF IndInv, TypeOK, Call, KernelFns, PtrTo, SwitchTo
<1>6. TreeConsistent' /\ UniqueIds' /\ IdsInv'
  BY <1>2, TreeKept DEF IndInv, EntryConditions
<1>7. QueuesMatchStates'
  BY <1>2, <1>3, QueuedAreSlots DEF IndInv, QueuesMatchStates, SameTree
<1>8. CpuOwnerQueued'
  BY <1>0 DEF CpuOwnerQueued, InUserMode, Call, SwitchTo
<1>9. PendingInv'
  BY <1>0, <1>2 DEF IndInv, EntryConditions, PendingInv, SameTree
<1>10. ControlInv'
  BY <1>0, <1>1, <1>2, <1>3 DEF ControlInv, Call, SwitchTo, Rekilled, Queued, SameTree
<1> QED
  BY <1>3, <1>5, <1>6, <1>7, <1>8, <1>9, <1>10 DEF IndInv, EntryConditions

(* Taking the CPU from the running task leaves it READY, whatever comes next. *)
LEMMA PreemptedFacts ==
    ASSUME TypeOK, tcb' = Preempted
    PROVE  /\ tcb' \in [Slots -> TCB]
           /\ \A u \in Slots :
                 /\ tcb'[u].live = tcb[u].live /\ tcb'[u].id = tcb[u].id
                 /\ tcb'[u].parent = tcb[u].parent /\ tcb'[u].kids = tcb[u].kids
                 /\ tcb'[u].cur = tcb[u].cur /\ tcb'[u].wait4 = tcb[u].wait4
                 /\ \/ tcb'[u].st = tcb[u].st
                    \/ tcb[u].st = "RUNNING" /\ tcb'[u].st = "READY"
<1>1. tcb \in [Slots -> TCB]
  BY DEF TypeOK
<1>2. ASSUME NEW u \in Slots PROVE [tcb[u] EXCEPT !.st = "READY"] \in TCB
  BY <1>1 DEF TCB
<1>3. tcb' \in [Slots -> TCB]
  BY <1>1, <1>2 DEF Preempted
<1>4. ASSUME NEW u \in Slots
      PROVE  /\ tcb'[u].live = tcb[u].live /\ tcb'[u].id = tcb[u].id
             /\ tcb'[u].parent = tcb[u].parent /\ tcb'[u].kids = tcb[u].kids
             /\ tcb'[u].cur = tcb[u].cur /\ tcb'[u].wait4 = tcb[u].wait4
             /\ \/ tcb'[u].st = tcb[u].st
                \/ tcb[u].st = "RUNNING" /\ tcb'[u].st = "READY"
  BY <1>1 DEF Preempted, TCB
<1> QED
  BY <1>3, <1>4

(* The first task of the run queue is a task of it. *)
LEMMA NextTaskRunnable ==
    ASSUME TypeOK PROVE sched_get_next_task \in Runnable \cup {Kernel}
<1>1. CASE os_q = <<>>
  BY <1>1 DEF sched_get_next_task
<1>2. CASE os_q # <<>>
  <2>1. os_q \in Seq(Slots)
    BY DEF TypeOK
  <2>2. 1 \in DOMAIN os_q
    BY <1>2, <2>1
  <2> QED
    BY <1>2, <2>2 DEF sched_get_next_task, Runnable, ToSet
<1> QED
  BY <1>1, <1>2

(* Both ways to leave a task: when task_switch follows the `next' of a task
   that has gone to sleep it finds the end of sleep_q, never a sleeper. *)
LEMMA SwitchStep ==
    ASSUME IndInv, task_switch \/ task_switch_to
    PROVE  IndInv'
<1> DEFINE n == IF actual_task \in Slots THEN next_of(actual_task) ELSE None
<1>0. /\ tcb' = Preempted
      /\ UNCHANGED <<os_q, sleep_q, counters, actual_task, old_tid, wait4input, exits>>
      /\ k.fn \in {"switch", "switch_to"}
  BY DEF task_switch, task_switch_to
<1>1. /\ tcb' \in [Slots -> TCB]
      /\ \A u \in Slots :
            /\ tcb'[u].live = tcb[u].live /\ tcb'[u].id = tcb[u].id
            /\ tcb'[u].parent = tcb[u].parent /\ tcb'[u].kids = tcb[u].kids
            /\ tcb'[u].cur = tcb[u].cur /\ tcb'[u].wait4 = tcb[u].wait4
            /\ \/ tcb'[u].st = tcb[u].st
               \/ tcb[u].st = "RUNNING" /\ tcb'[u].st = "READY"
  BY <1>0, PreemptedFacts DEF IndInv
<1>2. \/ k' = Idle /\ k.fn = "switch"
      \/ k' = Panic
      \/ \E r \in Runnable : k' = Call("resume", None, r, 0)
  <2>1. CASE task_switch_to
    BY <2>1, NextTaskRunnable DEF IndInv, task_switch_to
  <2>2. CASE task_switch
    <3>1. n \in Runnable \cup {None}
      <4>1. CASE actual_task \in Runnable
        BY <4>1, NextInFacts DEF IndInv, TypeOK, next_of, Runnable
      <4>2. CASE actual_task \in Sleeping
        <5>1. sleep_q[Len(sleep_q)] = actual_task /\ k.fn = "switch"
          BY <2>2, <4>2 DEF IndInv, EntryConditions, ControlInv, task_switch
        <5>2. sleep_q \in Seq(Slots) /\ Len(sleep_q) > 0 /\ IsInjective(sleep_q)
          BY <4>2 DEF IndInv, TypeOK, QueuesDisjoint, Sleeping, ToSet
        <5>3. NextIn(sleep_q, actual_task) = None
          BY <5>1, <5>2, NextInFacts
        <5>4. actual_task \notin Runnable
          BY <4>2 DEF IndInv, QueuesDisjoint
        <5> QED
          BY <5>3, <5>4 DEF next_of
      <4>3. CASE actual_task \notin Runnable /\ actual_task \notin Sleeping
        BY <4>3, NextInFacts DEF IndInv, TypeOK, next_of, Sleeping
      <4> QED
        BY <4>1, <4>2, <4>3
    <3>2. k' = IF (IF n = None THEN sched_get_next_task ELSE n) = Kernel
               THEN Idle
               ELSE Call("resume", None, IF n = None THEN sched_get_next_task ELSE n, 0)
      BY <2>2 DEF task_switch
    <3> HIDE DEF n
    <3> QED
      BY <2>2, <3>1, <3>2, NextTaskRunnable DEF IndInv, task_switch
  <2> QED
    BY <2>1, <2>2
<1>3. TypeOK'
  BY <1>0, <1>1, <1>2, QueuedAreSlots
     DEF IndInv, TypeOK, Call, KernelFns, PtrTo, Panic, Idle, counters
<1>4. TreeConsistent' /\ UniqueIds' /\ IdsInv'
  BY <1>0, <1>1, TreeKept DEF IndInv, EntryConditions, SameTree
<1>5. QueuesDisjoint' /\ CountersExact'
  BY <1>0 DEF IndInv, QueuesDisjoint, CountersExact, Runnable, Sleeping, counters
<1>6. QueuesMatchStates'
  BY <1>0, <1>1, QueuedAreSlots DEF IndInv, QueuesMatchStates, Runnable, Sleeping
<1>7. CpuOwnerQueued'
  BY <1>2 DEF CpuOwnerQueued, InUserMode, Call, Panic, Idle
<1>8. PendingInv'
  BY <1>0, <1>1 DEF IndInv, EntryConditions, PendingInv
<1>9. ControlInv'
  <2>1. CASE k' = Idle /\ k.fn = "switch"
    BY <1>0, <2>1 DEF IndInv, EntryConditions, ControlInv, Idle, Call, Sleeping
  <2>2. CASE k' = Panic
    BY <2>2 DEF ControlInv, Panic, Call
  <2>3. ASSUME NEW r \in Runnable, k' = Call("resume", None, r, 0) PROVE ControlInv'
    BY <1>0, <2>3 DEF ControlInv, Call, Runnable
  <2> QED
    BY <1>2, <2>1, <2>2, <2>3
<1> QED
  BY <1>3, <1>4, <1>5, <1>6, <1>7, <1>8, <1>9 DEF IndInv, EntryConditions

(* The end of a switch: a runnable task gets the CPU. *)
LEMMA ResumeStep ==
    ASSUME IndInv, resume
    PROVE  IndInv'
<1> DEFINE t == k.n
<1>0. /\ k.fn = "resume" /\ ~tcb[t].cur /\ tcb' = [tcb EXCEPT ![t].st = "RUNNING"]
      /\ actual_task' = t /\ k' = User
      /\ UNCHANGED <<os_q, sleep_q, counters, old_tid, wait4input, exits>>
  BY DEF resume
<1>1. t \in Runnable /\ t \in Slots /\ t \notin Sleeping /\ tcb[t].st # "ZOMBIE"
  BY <1>0, QueuedAreSlots
     DEF IndInv, EntryConditions, ControlInv, QueuesDisjoint, QueuesMatchStates
<1>2. tcb \in [Slots -> TCB] /\ [tcb[t] EXCEPT !.st = "RUNNING"] \in TCB
  BY <1>1, FieldUpdates DEF IndInv, TypeOK
<1>3. /\ tcb' \in [Slots -> TCB]
      /\ \A u \in Slots : /\ tcb'[u].cur = tcb[u].cur /\ tcb'[u].wait4 = tcb[u].wait4
                          /\ tcb'[u].st = IF u = t THEN "RUNNING" ELSE tcb[u].st
  BY <1>0, <1>1, <1>2 DEF TCB
<1>4. SameTree
  BY <1>0, <1>2 DEF TCB, SameTree
<1>5. TypeOK'
  BY <1>0, <1>1, <1>3 DEF IndInv, TypeOK, User, Call, KernelFns, PtrTo, counters
<1>6. TreeConsistent' /\ UniqueIds' /\ IdsInv'
  BY <1>4, TreeKept DEF IndInv, EntryConditions
<1>7. QueuesDisjoint' /\ CountersExact'
  BY <1>0 DEF IndInv, QueuesDisjoint, CountersExact, Runnable, Sleeping, counters
<1>8. QueuesMatchStates'
  BY <1>0, <1>1, <1>3, <1>4, QueuedAreSlots
     DEF IndInv, QueuesMatchStates, Runnable, Sleeping, SameTree
<1>9. CpuOwnerQueued'
  BY <1>0, <1>1, <1>3 DEF CpuOwnerQueued, Runnable
<1>10. PendingInv'
  BY <1>0, <1>1, <1>3, <1>4 DEF IndInv, EntryConditions, PendingInv, SameTree
<1>11. ControlInv'
  BY <1>0 DEF ControlInv, User, Call
<1> QED
  BY <1>5, <1>6, <1>7, <1>8, <1>9, <1>10, <1>11 DEF IndInv, EntryConditions

(* sig_handler finds the zombie of the task that is about to run. *)
LEMMA SigHandlerStep ==
    ASSUME IndInv, sig_handler
    PROVE  IndInv'
<1> DEFINE t == k.n
           z == tcb[t].wait4
<1>0. /\ k.fn = "resume" /\ tcb[t].cur
      /\ tcb' = [tcb EXCEPT ![t].st = "RUNNING", ![t].ret = ChildCode(t)]
      /\ k' = Call("destroy", z, t, 0)
      /\ UNCHANGED <<os_q, sleep_q, counters, actual_task, old_tid, wait4input, exits>>
  BY DEF sig_handler
<1>1. t \in Runnable /\ t \in Slots /\ t \notin Sleeping /\ tcb[t].st # "ZOMBIE"
  BY <1>0, QueuedAreSlots
     DEF IndInv, EntryConditions, ControlInv, QueuesDisjoint, QueuesMatchStates
<1>2. /\ z \in Slots /\ tcb[z].live /\ tcb[z].parent = t
      /\ tcb[z].st = "ZOMBIE" /\ tcb[z].id # 1
  BY <1>0, <1>1 DEF IndInv, EntryConditions, PendingInv
<1>3. z \notin Queued
  BY <1>2 DEF IndInv, QueuesMatchStates, Queued
<1>4. tcb \in [Slots -> TCB] /\ ChildCode(t) \in Int
  <2>1. tcb \in [Slots -> TCB]
    BY DEF IndInv, TypeOK
  <2>2. tcb[z].code \in Status \cup {0}
    BY <1>2, <2>1 DEF TCB
  <2>3. Status \cup {0} \subseteq Int
    BY TasksAssumption DEF Status, SIGKILL, SEGV_STATUS
  <2> QED
    BY <2>1, <2>2, <2>3 DEF ChildCode
<1>5. [[tcb[t] EXCEPT !.st = "RUNNING"] EXCEPT !.ret = ChildCode(t)] \in TCB
  BY <1>1, <1>4, FieldUpdates
<1>6. /\ tcb' \in [Slots -> TCB]
      /\ \A u \in Slots : /\ tcb'[u].cur = tcb[u].cur /\ tcb'[u].wait4 = tcb[u].wait4
                          /\ tcb'[u].st = IF u = t THEN "RUNNING" ELSE tcb[u].st
  <2>1. tcb' = [tcb EXCEPT ![t] = [[tcb[t] EXCEPT !.st = "RUNNING"] EXCEPT !.ret = ChildCode(t)]]
    BY <1>0, <1>1, <1>4
  <2> QED
    BY <1>1, <1>4, <1>5, <2>1 DEF TCB
<1>7. SameTree
  BY <1>0, <1>4 DEF TCB, SameTree
<1>8. TypeOK'
  BY <1>0, <1>1, <1>2, <1>6 DEF IndInv, TypeOK, Call, KernelFns, PtrTo, counters
<1>9. TreeConsistent' /\ UniqueIds' /\ IdsInv'
  BY <1>7, TreeKept DEF IndInv, EntryConditions
<1>10. QueuesDisjoint' /\ CountersExact'
  BY <1>0 DEF IndInv, QueuesDisjoint, CountersExact, Runnable, Sleeping, counters
<1>11. QueuesMatchStates'
  BY <1>0, <1>1, <1>6, <1>7, QueuedAreSlots
     DEF IndInv, QueuesMatchStates, Runnable, Sleeping, SameTree
<1>12. CpuOwnerQueued'
  BY <1>0 DEF CpuOwnerQueued, InUserMode, Call
<1>13. PendingInv'
  <2> SUFFICES ASSUME NEW u \in Slots, tcb'[u].cur
               PROVE  LET y == tcb'[u].wait4 IN
                      /\ y \in Slots /\ tcb'[y].live /\ tcb'[y].parent = u
                      /\ tcb'[y].st = "ZOMBIE" /\ tcb'[y].id # 1
    BY DEF PendingInv
  <2>1. LET y == tcb[u].wait4 IN
        /\ y \in Slots /\ tcb[y].live /\ tcb[y].parent = u
        /\ tcb[y].st = "ZOMBIE" /\ tcb[y].id # 1
    BY <1>0, <1>6 DEF IndInv, EntryConditions, PendingInv
  <2> QED
    BY <1>1, <1>6, <1>7, <2>1 DEF SameTree
<1>14. ControlInv'
  <2>1. t # None
    BY <1>1, TasksAssumption
  <2>2. Queued' = Queued /\ Runnable' = Runnable
    BY <1>0 DEF Queued, Runnable, Sleeping
  <2>3. k'.fn = "destroy" /\ k'.t = z /\ k'.n = t
    BY <1>0 DEF Call
  <2>4. tcb'[z].live /\ tcb'[z].id # 1 /\ tcb'[z].parent = t
    BY <1>2, <1>7 DEF SameTree
  <2>5. tcb'[t].wait4 = z /\ tcb'[t].cur /\ tcb'[t].st = "RUNNING"
    BY <1>0, <1>1, <1>6
  <2> QED
    BY <1>1, <1>2, <1>3, <2>1, <2>2, <2>3, <2>4, <2>5 DEF ControlInv
<1> QED
  BY <1>8, <1>9, <1>10, <1>11, <1>12, <1>13, <1>14 DEF IndInv, EntryConditions

(* The end of sig_handler: the parent continues without a pending signal. *)
LEMMA SigHandledStep ==
    ASSUME IndInv, sig_handled
    PROVE  IndInv'
<1> DEFINE t == k.n
<1>0. /\ k.fn = "reaped" /\ tcb' = [tcb EXCEPT ![t].mask = ~@, ![t].cur = ~@]
      /\ actual_task' = t /\ k' = User
      /\ UNCHANGED <<os_q, sleep_q, counters, old_tid, wait4input, exits>>
  BY DEF sig_handled
<1>1. t \in Runnable /\ t \in Slots /\ tcb[t].cur /\ tcb[t].st = "RUNNING"
  BY <1>0, QueuedAreSlots DEF IndInv, EntryConditions, ControlInv
<1>2. tcb \in [Slots -> TCB]
  BY DEF IndInv, TypeOK
<1>3. [[tcb[t] EXCEPT !.mask = ~@] EXCEPT !.cur = ~@] \in TCB
  BY <1>1, <1>2, FieldUpdates
<1>4. tcb' = [tcb EXCEPT ![t] = [[tcb[t] EXCEPT !.mask = ~@] EXCEPT !.cur = ~@]]
  BY <1>0, <1>1, <1>2
<1>5. /\ tcb' \in [Slots -> TCB]
      /\ \A u \in Slots : /\ tcb'[u].wait4 = tcb[u].wait4 /\ tcb'[u].st = tcb[u].st
                          /\ u # t => tcb'[u].cur = tcb[u].cur
      /\ ~tcb'[t].cur
  BY <1>1, <1>2, <1>3, <1>4 DEF TCB
<1>6. SameTree
  BY <1>0, <1>2, <1>4 DEF TCB, SameTree
<1>7. TypeOK'
  BY <1>0, <1>1, <1>5 DEF IndInv, TypeOK, User, Call, KernelFns, PtrTo, counters
<1>8. TreeConsistent' /\ UniqueIds' /\ IdsInv'
  BY <1>6, TreeKept DEF IndInv, EntryConditions
<1>9. QueuesDisjoint' /\ CountersExact'
  BY <1>0 DEF IndInv, QueuesDisjoint, CountersExact, Runnable, Sleeping, counters
<1>10. QueuesMatchStates'
  BY <1>0, <1>5, <1>6, QueuedAreSlots
     DEF IndInv, QueuesMatchStates, Runnable, Sleeping, SameTree
<1>11. CpuOwnerQueued'
  BY <1>0, <1>1, <1>5 DEF CpuOwnerQueued, Runnable
<1>12. PendingInv'
  <2>1. SUFFICES ASSUME NEW u \in Slots, tcb'[u].cur
                 PROVE  LET z == tcb'[u].wait4 IN
                        /\ z \in Slots /\ tcb'[z].live /\ tcb'[z].parent = u
                        /\ tcb'[z].st = "ZOMBIE" /\ tcb'[z].id # 1
    BY DEF PendingInv
  <2> DEFINE z == tcb[u].wait4
  <2>2. u # t /\ tcb[u].cur /\ tcb'[u].wait4 = z
    BY <1>5, <2>1
  <2>3. /\ z \in Slots /\ tcb[z].live /\ tcb[z].parent = u
        /\ tcb[z].st = "ZOMBIE" /\ tcb[z].id # 1
    BY <2>2 DEF IndInv, EntryConditions, PendingInv
  <2> QED
    BY <1>5, <1>6, <2>2, <2>3 DEF SameTree
<1>13. ControlInv'
  BY <1>0 DEF ControlInv, User, Call
<1> QED
  BY <1>7, <1>8, <1>9, <1>10, <1>11, <1>12, <1>13 DEF IndInv, EntryConditions

(* waitpid of a pid that is in no queue. *)
LEMMA EsrchStep ==
    ASSUME IndInv, NEW pid \in Tids, waitpid_ESRCH(pid)
    PROVE  IndInv'
<1>0. /\ InUserMode /\ tcb' = [tcb EXCEPT ![me].ret = WAITPID]
      /\ UNCHANGED <<os_q, sleep_q, counters, actual_task, old_tid, wait4input, k, exits>>
  BY DEF waitpid_ESRCH
<1>1. tcb \in [Slots -> TCB] /\ me \in Slots /\ [tcb[me] EXCEPT !.ret = WAITPID] \in TCB
  <2>1. tcb \in [Slots -> TCB] /\ me \in Slots /\ WAITPID \in Int
    BY <1>0, RunningTask DEF IndInv, TypeOK, WAITPID
  <2>2. \A x \in Int : [tcb[me] EXCEPT !.ret = x] \in TCB
    BY <2>1, FieldUpdates
  <2> QED
    BY <2>1, <2>2
<1>2. /\ tcb' \in [Slots -> TCB]
      /\ \A u \in Slots : /\ tcb'[u].cur = tcb[u].cur /\ tcb'[u].wait4 = tcb[u].wait4
                          /\ tcb'[u].st = tcb[u].st
  BY <1>0, <1>1 DEF TCB
<1>3. SameTree
  BY <1>0, <1>1 DEF TCB, SameTree
<1>4. TypeOK'
  BY <1>0, <1>2 DEF IndInv, TypeOK, counters
<1>5. TreeConsistent' /\ UniqueIds' /\ IdsInv'
  BY <1>3, TreeKept DEF IndInv, EntryConditions
<1>6. QueuesDisjoint' /\ CountersExact'
  BY <1>0 DEF IndInv, QueuesDisjoint, CountersExact, Runnable, Sleeping, counters
<1>7. QueuesMatchStates'
  BY <1>0, <1>2, <1>3, QueuedAreSlots
     DEF IndInv, QueuesMatchStates, Runnable, Sleeping, SameTree
<1>8. CpuOwnerQueued'
  <2>1. actual_task' = me /\ Runnable' = Runnable
    BY <1>0 DEF me, Runnable
  <2> QED
    BY <1>0, <1>1, <1>2, <2>1, RunningTask DEF CpuOwnerQueued
<1>9. PendingInv'
  BY <1>0, <1>2, <1>3 DEF IndInv, EntryConditions, PendingInv, SameTree
<1>10. ControlInv'
  BY <1>0 DEF ControlInv, InUserMode
<1> QED
  BY <1>4, <1>5, <1>6, <1>7, <1>8, <1>9, <1>10 DEF IndInv, EntryConditions

(* The running task goes to sleep, in waitpid or in read(stdin). *)
LEMMA SleepStep ==
    ASSUME IndInv, InUserMode, sched_sleep_task(me), k' = Switch,
           tcb' \in [Slots -> TCB], SameTree,
           \A u \in Slots : u # me => tcb'[u] = tcb[u],
           tcb'[me].st = "WAITING", ~tcb'[me].cur,
           wait4input' \in PtrTo(Slots), UNCHANGED <<actual_task, exits>>
    PROVE  IndInv'
<1>1. /\ me \in Slots /\ me \in Runnable /\ me \notin Sleeping
      /\ tcb[me].live /\ tcb[me].st = "RUNNING"
  BY RunningTask
<1>2. /\ os_q' \in Seq(Slots) /\ sleep_q' \in Seq(Slots)
      /\ QueuesDisjoint' /\ CountersExact'
      /\ Runnable' = Runnable \ {me} /\ Sleeping' = Sleeping \cup {me}
      /\ sleep_q'[Len(sleep_q')] = me
      /\ running_tasks' \in Int /\ sleeping_tasks' \in Int /\ total_tasks' \in Int
  BY <1>1, SleepFacts DEF IndInv
<1>3. TypeOK'
  BY <1>2 DEF IndInv, TypeOK, Switch, Call, KernelFns, PtrTo, SameTree
<1>4. TreeConsistent' /\ UniqueIds' /\ IdsInv'
  BY TreeKept DEF IndInv, EntryConditions
<1>5. QueuesMatchStates'
  <2>1. \A t \in Runnable' : tcb'[t].live /\ tcb'[t].st \in {"READY", "RUNNING"}
    BY <1>2, QueuedAreSlots DEF IndInv, QueuesMatchStates
  <2>2. \A t \in Sleeping' : tcb'[t].live /\ tcb'[t].st = "WAITING"
    BY <1>1, <1>2, QueuedAreSlots DEF IndInv, QueuesMatchStates, SameTree
  <2> QED
    BY <2>1, <2>2 DEF QueuesMatchStates
<1>6. CpuOwnerQueued'
  BY DEF CpuOwnerQueued, InUserMode, Switch, Call
<1>7. PendingInv'
  BY <1>1 DEF IndInv, EntryConditions, PendingInv, InUserMode
<1>8. ControlInv'
  BY <1>2 DEF ControlInv, Switch, Call, me
<1> QED
  BY <1>2, <1>3, <1>4, <1>5, <1>6, <1>7, <1>8 DEF IndInv, EntryConditions

(* read(stdin) *)
LEMMA StdinReadStep ==
    ASSUME IndInv, stdin_read
    PROVE  IndInv'
<1>0. /\ InUserMode /\ sched_sleep_task(me) /\ k' = Switch /\ wait4input' = me
      /\ tcb' = [tcb EXCEPT ![me].st = "WAITING"]
      /\ UNCHANGED <<actual_task, old_tid, exits>>
  BY DEF stdin_read
<1>1. /\ tcb \in [Slots -> TCB] /\ me \in Slots /\ ~tcb[me].cur
      /\ [tcb[me] EXCEPT !.st = "WAITING"] \in TCB
  BY <1>0, RunningTask, FieldUpdates DEF IndInv, TypeOK
<1>2. /\ tcb' \in [Slots -> TCB] /\ tcb'[me].st = "WAITING" /\ ~tcb'[me].cur
      /\ \A u \in Slots : u # me => tcb'[u] = tcb[u]
  BY <1>0, <1>1 DEF TCB
<1>3. SameTree
  BY <1>0, <1>1 DEF TCB, SameTree
<1> QED
  BY <1>0, <1>1, <1>2, <1>3, SleepStep DEF PtrTo

(* waitpid of a queued task *)
LEMMA WaitpidStep ==
    ASSUME IndInv, NEW pid \in Tids, waitpid(pid)
    PROVE  IndInv'
<1> DEFINE w == sched_get_tcb(pid)
           r1 == [tcb[me] EXCEPT !.wait4 = w]
           r2 == [r1 EXCEPT !.mask = TRUE]
           r3 == [r2 EXCEPT !.pid = pid]
           r4 == [r3 EXCEPT !.st = "WAITING"]
<1>0. /\ InUserMode /\ sched_sleep_task(me) /\ k' = Switch /\ w # None
      /\ tcb' = [tcb EXCEPT ![me].wait4 = w, ![me].mask = TRUE, ![me].pid = pid,
                            ![me].st = "WAITING"]
      /\ UNCHANGED <<actual_task, old_tid, wait4input, exits>>
  BY DEF waitpid
<1>1. tcb \in [Slots -> TCB] /\ me \in Slots /\ ~tcb[me].cur
  BY <1>0, RunningTask DEF IndInv, TypeOK
<1>2. w \in Slots
  BY <1>0, QueuedAreSlots DEF IndInv, sched_get_tcb, Queued
<1> HIDE DEF w
<1>3. tcb' = [tcb EXCEPT ![me] = r4]
  BY <1>0, <1>1
<1>4. r4 \in TCB
  <2>1. r1 \in TCB
    BY <1>1, <1>2, FieldUpdates DEF PtrTo
  <2>2. r2 \in TCB
    <3> HIDE DEF r1
    <3> QED
      BY <2>1, FieldUpdates
  <2>3. r3 \in TCB
    <3> HIDE DEF r2
    <3>1. pid \in 0..MaxTid
      BY TasksAssumption DEF Tids
    <3> QED
      BY <2>2, <3>1, FieldUpdates
  <2> HIDE DEF r3
  <2> QED
    BY <2>3, FieldUpdates
<1>5. /\ r4.st = "WAITING" /\ r4.cur = tcb[me].cur /\ r4.live = tcb[me].live
      /\ r4.id = tcb[me].id /\ r4.parent = tcb[me].parent /\ r4.kids = tcb[me].kids
  BY <1>1 DEF TCB
<1> HIDE DEF r4
<1>6. /\ tcb' \in [Slots -> TCB] /\ tcb'[me].st = "WAITING" /\ ~tcb'[me].cur
      /\ \A u \in Slots : u # me => tcb'[u] = tcb[u]
  BY <1>1, <1>3, <1>4, <1>5
<1>7. SameTree
  BY <1>0, <1>1, <1>3, <1>5 DEF SameTree
<1>8. wait4input' \in PtrTo(Slots)
  BY <1>0 DEF IndInv, TypeOK
<1> QED
  BY <1>0, <1>6, <1>7, <1>8, SleepStep

(* The Enter key wakes the reader it knows of. *)
LEMMA RecallStep ==
    ASSUME IndInv, dev_stdin_recall
    PROVE  IndInv'
<1> DEFINE w == wait4input
           r1 == [tcb[w] EXCEPT !.ret = LINE]
           r2 == [r1 EXCEPT !.st = WokenState(w)]
<1>0. /\ k.fn \in {"user", "idle"} /\ w \in Queued /\ sched_wake_task(w)
      /\ tcb' = [tcb EXCEPT ![w].ret = LINE, ![w].st = WokenState(w)]
      /\ wait4input' = None
      /\ UNCHANGED <<actual_task, old_tid, k, exits>>
  BY DEF dev_stdin_recall, KeyboardOn
<1>1. tcb \in [Slots -> TCB] /\ w \in Slots /\ tcb[w].live /\ tcb[w].st # "ZOMBIE"
  BY <1>0, QueuedAreSlots DEF IndInv, TypeOK, QueuesMatchStates, Queued
<1>2. /\ WokenState(w) \in {"READY", "RUNNING"}
      /\ w \notin Sleeping => WokenState(w) = tcb[w].st
  BY <1>0 DEF WokenState, IndInv, QueuesMatchStates, Queued
<1>3. r2 \in TCB
  <2>1. r1 \in TCB
    <3>1. tcb[w] \in TCB /\ LINE \in Int
      BY <1>1 DEF LINE
    <3>2. \A x \in Int : [tcb[w] EXCEPT !.ret = x] \in TCB
      BY <3>1, FieldUpdates
    <3> QED
      BY <3>1, <3>2
  <2> HIDE DEF r1
  <2> QED
    BY <1>2, <2>1, FieldUpdates
<1>4. tcb' = [tcb EXCEPT ![w] = r2]
  BY <1>0, <1>1
<1>5. /\ r2.st = WokenState(w) /\ r2.cur = tcb[w].cur /\ r2.live = tcb[w].live
      /\ r2.wait4 = tcb[w].wait4
      /\ r2.id = tcb[w].id /\ r2.parent = tcb[w].parent /\ r2.kids = tcb[w].kids
  BY <1>1 DEF TCB
<1> HIDE DEF r2
<1>6. /\ tcb' \in [Slots -> TCB]
      /\ \A u \in Slots : /\ tcb'[u].cur = tcb[u].cur /\ tcb'[u].wait4 = tcb[u].wait4
                          /\ tcb'[u].st = IF u = w THEN WokenState(w) ELSE tcb[u].st
  BY <1>1, <1>3, <1>4, <1>5
<1>7. SameTree
  BY <1>0, <1>1, <1>4, <1>5 DEF SameTree
<1>8. /\ os_q' \in Seq(Slots) /\ sleep_q' \in Seq(Slots)
      /\ QueuesDisjoint' /\ CountersExact'
      /\ Runnable' = Runnable \cup {w} /\ Sleeping' = Sleeping \ {w}
      /\ \A u \in Sleeping : u # w /\ sleep_q[Len(sleep_q)] = u
                             => sleep_q'[Len(sleep_q')] = u
      /\ running_tasks' \in Int /\ sleeping_tasks' \in Int /\ total_tasks' \in Int
  BY <1>0, WakeFacts DEF IndInv
<1>9. TypeOK'
  BY <1>0, <1>6, <1>8 DEF IndInv, TypeOK, PtrTo
<1>10. TreeConsistent' /\ UniqueIds' /\ IdsInv'
  BY <1>7, TreeKept DEF IndInv, EntryConditions
<1>11. QueuesMatchStates'
  <2>1. \A t \in Runnable' : tcb'[t].live /\ tcb'[t].st \in {"READY", "RUNNING"}
    BY <1>1, <1>2, <1>6, <1>7, <1>8, QueuedAreSlots DEF IndInv, QueuesMatchStates, SameTree
  <2>2. \A t \in Sleeping' : tcb'[t].live /\ tcb'[t].st = "WAITING"
    BY <1>6, <1>7, <1>8, QueuedAreSlots DEF IndInv, QueuesMatchStates, SameTree
  <2> QED
    BY <2>1, <2>2 DEF QueuesMatchStates
<1>12. CpuOwnerQueued'
  <2>1. SUFFICES ASSUME InUserMode
                 PROVE  /\ actual_task \in Runnable'
                        /\ tcb'[actual_task].st = "RUNNING" /\ ~tcb'[actual_task].cur
    BY <1>0 DEF CpuOwnerQueued, InUserMode
  <2> QED
    BY <1>2, <1>6, <1>8, <2>1, RunningTask DEF me
<1>13. PendingInv'
  BY <1>0, <1>1, <1>6, <1>7 DEF IndInv, EntryConditions, PendingInv, SameTree
<1>14. ControlInv'
  <2>1. k.fn = "idle" /\ actual_task \in Sleeping' => sleep_q'[Len(sleep_q')] = actual_task
    BY <1>8 DEF IndInv, EntryConditions, ControlInv
  <2> QED
    BY <1>0, <2>1 DEF ControlInv
<1> QED
  BY <1>8, <1>9, <1>10, <1>11, <1>12, <1>13, <1>14 DEF IndInv, EntryConditions

(* do_exit when the parent waits: the parent's wait4 is the exiting task itself,
   as ids are unique and freed memory carries none. *)
LEMMA NotifyParentStep ==
    ASSUME IndInv, notify_parent
    PROVE  IndInv'
<1> DEFINE t == k.t
           p == tcb[t].parent
           r1 == [tcb[p] EXCEPT !.cur = @ \/ tcb[p].mask]
           r2 == [r1 EXCEPT !.st = WokenState(p)]
           rt == [tcb[t] EXCEPT !.st = "ZOMBIE"]
<1>0. /\ k.fn = "notify" /\ Awaited(t) /\ p \in Queued /\ sched_wake_task(p)
      /\ tcb' = [tcb EXCEPT ![t].st = "ZOMBIE",
                            ![p].cur = @ \/ tcb[p].mask,
                            ![p].st = WokenState(p)]
      /\ k' = SwitchTo
      /\ UNCHANGED <<actual_task, old_tid, wait4input, exits>>
  BY DEF notify_parent
<1>a. tcb[t].parent = p /\ tcb[tcb[t].parent].wait4 = tcb[p].wait4
  OBVIOUS
<1>1. t \in Slots /\ tcb[t].live /\ t \notin Queued /\ tcb[t].id # 1
  BY <1>0 DEF IndInv, EntryConditions, ControlInv
<1> HIDE DEF t, p
<1>2. /\ tcb \in [Slots -> TCB] /\ p \in Slots /\ p # t
      /\ tcb[p].live /\ tcb[p].st # "ZOMBIE"
  BY <1>0, <1>1, QueuedAreSlots DEF IndInv, TypeOK, QueuesMatchStates, Queued
<1>3. /\ WokenState(p) \in {"READY", "RUNNING"}
      /\ p \notin Sleeping => WokenState(p) = tcb[p].st
  BY <1>0 DEF WokenState, IndInv, QueuesMatchStates, Queued
<1>4. tcb[p].wait4 = t /\ tcb[t].parent = p
  <2> DEFINE w == tcb[p].wait4
  <2>1. w \in Slots /\ tcb[w].id = tcb[t].id
    <3>1. w # None /\ tcb[w].id = tcb[t].id
      BY <1>0, <1>a DEF Awaited
    <3> QED
      BY <1>2, <3>1 DEF TCB
  <2>2. tcb[t].id # 0
    BY <1>1 DEF IndInv, EntryConditions, IdsInv
  <2>3. tcb[w].live
    BY <2>1, <2>2 DEF IndInv, EntryConditions, IdsInv
  <2> QED
    BY <1>1, <1>a, <2>1, <2>3 DEF IndInv, UniqueIds
<1>5. rt \in TCB /\ r2 \in TCB
  <2>1. rt \in TCB
    BY <1>1, <1>2, FieldUpdates
  <2>2. r1 \in TCB
    <3>1. tcb[p] \in TCB /\ (tcb[p].cur \/ tcb[p].mask) \in BOOLEAN
      BY <1>2
    <3> QED
      BY <3>1, FieldUpdates
  <2>3. r2 \in TCB
    <3> HIDE DEF r1
    <3> QED
      BY <1>3, <2>2, FieldUpdates
  <2> QED
    BY <2>1, <2>3
<1>6. tcb' = [[tcb EXCEPT ![t] = rt] EXCEPT ![p] = r2]
  BY <1>0, <1>1, <1>2
<1>7. /\ rt.st = "ZOMBIE" /\ rt.cur = tcb[t].cur /\ rt.live = tcb[t].live
      /\ rt.wait4 = tcb[t].wait4
      /\ rt.id = tcb[t].id /\ rt.parent = tcb[t].parent /\ rt.kids = tcb[t].kids
  BY <1>1, <1>2 DEF TCB
<1>8. /\ r2.st = WokenState(p) /\ r2.live = tcb[p].live /\ r2.wait4 = tcb[p].wait4
      /\ r2.id = tcb[p].id /\ r2.parent = tcb[p].parent /\ r2.kids = tcb[p].kids
  BY <1>2 DEF TCB
<1> HIDE DEF r2, rt
<1>9. /\ tcb' \in [Slots -> TCB]
      /\ \A u \in Slots : /\ u # p => tcb'[u].cur = tcb[u].cur
                          /\ tcb'[u].wait4 = tcb[u].wait4
                          /\ tcb'[u].st = IF u = p THEN WokenState(p)
                                          ELSE IF u = t THEN "ZOMBIE" ELSE tcb[u].st
  BY <1>1, <1>2, <1>5, <1>6, <1>7, <1>8
<1>10. SameTree
  BY <1>0, <1>1, <1>2, <1>6, <1>7, <1>8 DEF SameTree
<1>11. /\ os_q' \in Seq(Slots) /\ sleep_q' \in Seq(Slots)
       /\ QueuesDisjoint' /\ CountersExact'
       /\ Runnable' = Runnable \cup {p} /\ Sleeping' = Sleeping \ {p}
       /\ running_tasks' \in Int /\ sleeping_tasks' \in Int /\ total_tasks' \in Int
  BY <1>0, WakeFacts DEF IndInv
<1>12. TypeOK'
  BY <1>0, <1>9, <1>11 DEF IndInv, TypeOK, PtrTo, SwitchTo, Call, KernelFns
<1>13. TreeConsistent' /\ UniqueIds' /\ IdsInv'
  BY <1>10, TreeKept DEF IndInv, EntryConditions
<1>14. QueuesMatchStates'
  <2>1. \A u \in Runnable' : tcb'[u].live /\ tcb'[u].st \in {"READY", "RUNNING"}
    BY <1>1, <1>2, <1>3, <1>9, <1>10, <1>11, QueuedAreSlots
       DEF IndInv, QueuesMatchStates, SameTree, Queued
  <2>2. \A u \in Sleeping' : tcb'[u].live /\ tcb'[u].st = "WAITING"
    BY <1>1, <1>9, <1>10, <1>11, QueuedAreSlots
       DEF IndInv, QueuesMatchStates, SameTree, Queued
  <2> QED
    BY <2>1, <2>2 DEF QueuesMatchStates
<1>15. CpuOwnerQueued'
  BY <1>0 DEF CpuOwnerQueued, InUserMode, SwitchTo, Call
<1>16. PendingInv'
  <2>1. SUFFICES ASSUME NEW u \in Slots, tcb'[u].cur
                 PROVE  LET z == tcb'[u].wait4 IN
                        /\ z \in Slots /\ tcb'[z].live /\ tcb'[z].parent = u
                        /\ tcb'[z].st = "ZOMBIE" /\ tcb'[z].id # 1
    BY DEF PendingInv
  <2>2. CASE u = p
    BY <1>1, <1>2, <1>4, <1>9, <1>10, <2>2 DEF SameTree
  <2>3. CASE u # p
    <3> DEFINE z == tcb[u].wait4
    <3>1. /\ z \in Slots /\ tcb[z].live /\ tcb[z].parent = u
          /\ tcb[z].st = "ZOMBIE" /\ tcb[z].id # 1
      BY <1>0, <1>9, <2>1, <2>3 DEF IndInv, EntryConditions, PendingInv
    <3> QED
      BY <1>2, <1>9, <1>10, <3>1 DEF SameTree
  <2> QED
    BY <2>2, <2>3
<1>17. ControlInv'
  BY <1>0 DEF ControlInv, SwitchTo, Call
<1> QED
  BY <1>11, <1>12, <1>13, <1>14, <1>15, <1>16, <1>17 DEF IndInv, EntryConditions

-----------------------------------------------------------------------------
(* Steps that change the tree *)

(* task_destroy: a task without children leaves its parent's list and is freed;
   whoever has a signal pending for it has just handled that signal. *)
LEMMA DestroyStep ==
    ASSUME IndInv, task_destroy
    PROVE  IndInv'
<1> DEFINE t == k.t
           p == tcb[t].parent
           kids == Without(tcb[p].kids, t)
           rp == [tcb[p] EXCEPT !.kids = kids]
<1>0. /\ k.fn = "destroy" /\ tcb[t].kids = <<>>
      /\ tcb' = [tcb EXCEPT ![p].kids = kids, ![t] = NoTask]
      /\ k' = IF k.n = None THEN SwitchTo ELSE Call("reaped", None, k.n, 0)
      /\ UNCHANGED <<os_q, sleep_q, counters, actual_task, old_tid, wait4input, exits>>
  BY DEF task_destroy, _remove_child
<1>1. /\ t \in Slots /\ tcb[t].live /\ t \notin Queued /\ tcb[t].id # 1
      /\ IF k.n = None THEN \A u \in Slots : ~(tcb[u].cur /\ tcb[u].wait4 = t)
                       ELSE k.n = p /\ tcb[k.n].wait4 = t
      /\ k.n # None => k.n \in Runnable /\ tcb[k.n].cur /\ tcb[k.n].st = "RUNNING"
  BY <1>0 DEF IndInv, EntryConditions, ControlInv
<1>2. tcb \in [Slots -> TCB] /\ p \in Slots /\ tcb[t].parent = p
  BY <1>1 DEF IndInv, EntryConditions, IdsInv, TypeOK
<1>3. t \in ToSet(tcb[p].kids) /\ IsInjective(tcb[p].kids) /\ tcb[p].kids \in Seq(Slots)
  BY <1>1, <1>2 DEF IndInv, TreeConsistent, TCB
<1>4. ToSet(tcb[t].kids) = {}
  BY <1>0 DEF ToSet
<1>5. p # t /\ tcb[p].live
  <2>1. tcb[p].kids # <<>>
    BY <1>3 DEF ToSet
  <2> QED
    BY <1>0, <1>2, <2>1 DEF IndInv, TreeConsistent
<1>6. /\ kids \in Seq(Slots) /\ ToSet(kids) = ToSet(tcb[p].kids) \ {t} /\ IsInjective(kids)
  BY <1>3, WithoutFacts
<1> HIDE DEF kids, t, p
<1>7. NoTask \in TCB /\ rp \in TCB
  <2>1. NoTask \in TCB
    BY NoTaskType
  <2>2. rp \in TCB
    BY <1>2, <1>6, FieldUpdates
  <2> QED
    BY <2>1, <2>2
<1>8. tcb' = [[tcb EXCEPT ![p] = rp] EXCEPT ![t] = NoTask]
  BY <1>0, <1>1, <1>2, <1>5
<1>9. /\ rp.live = tcb[p].live /\ rp.id = tcb[p].id /\ rp.parent = tcb[p].parent
      /\ rp.kids = kids /\ rp.st = tcb[p].st /\ rp.cur = tcb[p].cur /\ rp.wait4 = tcb[p].wait4
  BY <1>2 DEF TCB
<1>10. /\ ~NoTask.live /\ NoTask.id = 0 /\ NoTask.kids = <<>> /\ ~NoTask.cur
  BY DEF NoTask, NewTask
<1> HIDE DEF rp
<1>11. /\ tcb' \in [Slots -> TCB]
       /\ \A u \in Slots : u # t =>
             /\ tcb'[u].live = tcb[u].live /\ tcb'[u].id = tcb[u].id
             /\ tcb'[u].parent = tcb[u].parent /\ tcb'[u].st = tcb[u].st
             /\ tcb'[u].cur = tcb[u].cur /\ tcb'[u].wait4 = tcb[u].wait4
             /\ tcb'[u].kids = IF u = p THEN kids ELSE tcb[u].kids
       /\ tcb'[t] = NoTask
  BY <1>1, <1>2, <1>5, <1>7, <1>8, <1>9
<1>12. Runnable' = Runnable /\ Sleeping' = Sleeping /\ Queued' = Queued
  BY <1>0 DEF Runnable, Sleeping, Queued
<1>13. TypeOK'
  BY <1>0, <1>11 DEF IndInv, TypeOK, PtrTo, SwitchTo, Call, KernelFns, counters
<1>14. QueuesDisjoint' /\ CountersExact'
  BY <1>0 DEF IndInv, QueuesDisjoint, CountersExact, Runnable, Sleeping, counters
<1>15. QueuesMatchStates'
  BY <1>1, <1>11, <1>12, QueuedAreSlots DEF IndInv, QueuesMatchStates, Queued
<1>16. TreeConsistent'
  <2>1. SUFFICES ASSUME NEW q \in Slots
                 PROVE  /\ IsInjective(tcb'[q].kids)
                        /\ \A c \in Slots : c \in ToSet(tcb'[q].kids)
                                            <=> tcb'[c].live /\ tcb'[c].parent = q
                        /\ ~tcb'[q].live => tcb'[q].kids = <<>>
    BY DEF TreeConsistent
  <2>2. /\ IsInjective(tcb[q].kids)
        /\ \A c \in Slots : c \in ToSet(tcb[q].kids) <=> tcb[c].live /\ tcb[c].parent = q
        /\ ~tcb[q].live => tcb[q].kids = <<>>
    BY DEF IndInv, TreeConsistent
  <2>3. CASE q = t
    <3>1. tcb'[q].kids = tcb[t].kids
      BY <1>0, <1>10, <1>11, <2>3
    <3> QED
      BY <1>0, <1>4, <1>10, <1>11, <2>2, <2>3, <3>1
  <2>4. CASE q = p
    BY <1>1, <1>5, <1>6, <1>10, <1>11, <2>2, <2>4
  <2>5. CASE q # t /\ q # p
    BY <1>1, <1>2, <1>10, <1>11, <2>2, <2>5
  <2> QED
    BY <2>3, <2>4, <2>5
<1>17. UniqueIds'
  BY <1>10, <1>11 DEF IndInv, UniqueIds
<1>18. IdsInv'
  BY <1>0, <1>10, <1>11 DEF IndInv, EntryConditions, IdsInv
<1>19. CpuOwnerQueued'
  BY <1>0 DEF CpuOwnerQueued, InUserMode, SwitchTo, Call
<1>20. PendingInv'
  <2>1. SUFFICES ASSUME NEW u \in Slots, tcb'[u].cur, ~(k'.fn = "reaped" /\ k'.n = u)
                 PROVE  LET z == tcb'[u].wait4 IN
                        /\ z \in Slots /\ tcb'[z].live /\ tcb'[z].parent = u
                        /\ tcb'[z].st = "ZOMBIE" /\ tcb'[z].id # 1
    BY DEF PendingInv
  <2> DEFINE z == tcb[u].wait4
  <2>2. u # t /\ tcb[u].cur /\ tcb'[u].wait4 = z
    BY <1>10, <1>11, <2>1
  <2>3. /\ z \in Slots /\ tcb[z].live /\ tcb[z].parent = u
        /\ tcb[z].st = "ZOMBIE" /\ tcb[z].id # 1
    BY <1>0, <2>2 DEF IndInv, EntryConditions, PendingInv
  <2>4. z # t
    <3>1. CASE k.n = None
      BY <1>1, <2>2, <3>1
    <3>2. CASE k.n # None
      <4>1. k'.fn = "reaped" /\ k'.n = p
        BY <1>0, <1>1, <3>2 DEF Call
      <4> QED
        BY <1>2, <2>1, <2>3, <4>1
    <3> QED
      BY <3>1, <3>2
  <2> QED
    BY <1>11, <2>2, <2>3, <2>4
<1>21. ControlInv'
  <2>1. CASE k.n = None
    BY <1>0, <2>1 DEF ControlInv, SwitchTo, Call
  <2>2. CASE k.n # None
    <3>1. k'.fn = "reaped" /\ k'.n = k.n /\ k.n = p
      BY <1>0, <1>1, <2>2 DEF Call
    <3>2. k.n \in Runnable' /\ tcb'[k.n].cur /\ tcb'[k.n].st = "RUNNING"
      BY <1>1, <1>2, <1>5, <1>11, <1>12, <2>2
    <3> QED
      BY <3>1, <3>2 DEF ControlInv
  <2> QED
    BY <2>1, <2>2
<1> QED
  BY <1>13, <1>14, <1>15, <1>16, <1>17, <1>18, <1>19, <1>20, <1>21
     DEF IndInv, EntryConditions

(* do_fork: a fresh TCB, the last child of the running task, the last of os_q. *)
LEMMA ForkStep ==
    ASSUME IndInv, NEW s \in Slots, do_fork(s)
    PROVE  IndInv'
<1> DEFINE new == NewTask(old_tid + 1, me, tcb[me].mask)
           kids == Append(tcb[me].kids, s)
           rm == [tcb[me] EXCEPT !.kids = kids]
<1>0. /\ InUserMode /\ old_tid < MaxTid /\ ~tcb[s].live /\ old_tid' = old_tid + 1
      /\ tcb' = [tcb EXCEPT ![s] = new, ![me].kids = Append(@, s)]
      /\ os_q' = Append(os_q, s) /\ running_tasks' = running_tasks + 1
      /\ total_tasks' = total_tasks + 1
      /\ UNCHANGED <<sleep_q, sleeping_tasks, actual_task, wait4input, k, exits>>
  BY DEF do_fork, _get_tid
<1>1. /\ me \in Slots /\ me \in Runnable /\ tcb[me].live /\ tcb[me].st = "RUNNING"
      /\ ~tcb[me].cur
  BY <1>0, RunningTask
<1>2. tcb \in [Slots -> TCB] /\ s # me /\ s \notin Queued
  BY <1>0, <1>1 DEF IndInv, TypeOK, QueuesMatchStates, Queued
<1>3. /\ tcb[me].kids \in Seq(Slots) /\ IsInjective(tcb[me].kids)
      /\ s \notin ToSet(tcb[me].kids)
  BY <1>0, <1>1, <1>2 DEF IndInv, TreeConsistent, TCB
<1>4. kids \in Seq(Slots) /\ IsInjective(kids) /\ ToSet(kids) = ToSet(tcb[me].kids) \cup {s}
  BY <1>3, AppendFacts
<1>5. old_tid \in Nat /\ old_tid + 1 \in Tids /\ old_tid + 1 \in 0..MaxTid
  BY <1>0, TasksAssumption DEF IndInv, TypeOK, Tids
<1>6. new \in TCB /\ rm \in TCB
  <2>1. new \in TCB
    <3>1. tcb[me].mask \in BOOLEAN
      BY <1>1, <1>2 DEF TCB
    <3> QED
      BY <1>1, <1>5, <3>1, NewTaskType
  <2>2. rm \in TCB
    <3> HIDE DEF kids
    <3> QED
      BY <1>1, <1>2, <1>4, FieldUpdates
  <2> QED
    BY <2>1, <2>2
<1>7. tcb' = [[tcb EXCEPT ![s] = new] EXCEPT ![me] = rm]
  BY <1>0, <1>1, <1>2
<1> HIDE DEF kids
<1>8. /\ rm.live = tcb[me].live /\ rm.id = tcb[me].id /\ rm.parent = tcb[me].parent
      /\ rm.kids = kids /\ rm.st = tcb[me].st /\ rm.cur = tcb[me].cur
      /\ rm.wait4 = tcb[me].wait4
  BY <1>1, <1>2 DEF TCB
<1>9. /\ new.live /\ new.id = old_tid + 1 /\ new.kids = <<>> /\ ~new.cur
      /\ new.parent = me /\ new.st = "READY"
  BY DEF NewTask
<1> HIDE DEF rm, new
<1>10. /\ tcb' \in [Slots -> TCB]
       /\ \A u \in Slots : u # s =>
             /\ tcb'[u].live = tcb[u].live /\ tcb'[u].id = tcb[u].id
             /\ tcb'[u].parent = tcb[u].parent /\ tcb'[u].st = tcb[u].st
             /\ tcb'[u].cur = tcb[u].cur /\ tcb'[u].wait4 = tcb[u].wait4
             /\ tcb'[u].kids = IF u = me THEN kids ELSE tcb[u].kids
       /\ tcb'[s] = new
  BY <1>1, <1>2, <1>6, <1>7, <1>8
<1>11. /\ os_q' \in Seq(Slots) /\ IsInjective(os_q') /\ Len(os_q') = Len(os_q) + 1
       /\ Runnable' = Runnable \cup {s} /\ Sleeping' = Sleeping
  <2>1. os_q \in Seq(Slots) /\ IsInjective(os_q) /\ s \notin ToSet(os_q)
    BY <1>2 DEF IndInv, TypeOK, QueuesDisjoint, Queued, Runnable
  <2> QED
    BY <1>0, <2>1, AppendFacts DEF Runnable, Sleeping
<1>12. QueuesDisjoint'
  BY <1>0, <1>2, <1>11 DEF IndInv, QueuesDisjoint, Queued
<1>13. CountersExact'
  BY <1>0, <1>11 DEF IndInv, CountersExact
<1>14. TypeOK'
  BY <1>0, <1>5, <1>10, <1>11 DEF IndInv, TypeOK
<1>15. QueuesMatchStates'
  BY <1>2, <1>9, <1>10, <1>11, QueuedAreSlots DEF IndInv, QueuesMatchStates, Queued
<1>16. TreeConsistent'
  <2>1. SUFFICES ASSUME NEW q \in Slots
                 PROVE  /\ IsInjective(tcb'[q].kids)
                        /\ \A c \in Slots : c \in ToSet(tcb'[q].kids)
                                            <=> tcb'[c].live /\ tcb'[c].parent = q
                        /\ ~tcb'[q].live => tcb'[q].kids = <<>>
    BY DEF TreeConsistent
  <2>2. /\ IsInjective(tcb[q].kids)
        /\ \A c \in Slots : c \in ToSet(tcb[q].kids) <=> tcb[c].live /\ tcb[c].parent = q
        /\ ~tcb[q].live => tcb[q].kids = <<>>
    BY DEF IndInv, TreeConsistent
  <2>3. CASE q = s
    <3>1. tcb'[q].kids = tcb[q].kids
      BY <1>0, <1>9, <1>10, <2>2, <2>3
    <3> QED
      BY <1>2, <1>9, <1>10, <1>0, <2>2, <2>3, <3>1
  <2>4. CASE q = me
    BY <1>0, <1>1, <1>2, <1>4, <1>9, <1>10, <2>2, <2>4
  <2>5. CASE q # s /\ q # me
    BY <1>0, <1>9, <1>10, <2>2, <2>5
  <2> QED
    BY <2>3, <2>4, <2>5
<1>17. UniqueIds'
  <2>1. \A u \in Slots : tcb[u].live => tcb[u].id # old_tid + 1
    BY <1>5 DEF IndInv, EntryConditions, IdsInv
  <2> QED
    BY <1>9, <1>10, <2>1 DEF IndInv, UniqueIds
<1>18. IdsInv'
  BY <1>0, <1>1, <1>5, <1>9, <1>10 DEF IndInv, EntryConditions, IdsInv
<1>19. CpuOwnerQueued'
  <2>1. actual_task' = me
    BY <1>0 DEF me
  <2> QED
    BY <1>1, <1>2, <1>10, <1>11, <2>1 DEF CpuOwnerQueued
<1>20. PendingInv'
  BY <1>0, <1>9, <1>10 DEF IndInv, EntryConditions, PendingInv, InUserMode
<1>21. ControlInv'
  BY <1>0 DEF ControlInv, InUserMode
<1> QED
  BY <1>12, <1>13, <1>14, <1>15, <1>16, <1>17, <1>18, <1>19, <1>20, <1>21
     DEF IndInv, EntryConditions

-----------------------------------------------------------------------------
(* The invariant *)

(* main.c: init alone in the run queue. *)
LEMMA InitIndInv == Init => IndInv
<1> SUFFICES ASSUME Init PROVE IndInv
  OBVIOUS
<1>1. PICK s \in Slots :
        /\ tcb = [t \in Slots |-> IF t = s THEN NewTask(1, None, FALSE) ELSE NoTask]
        /\ os_q = <<s>>
  BY DEF Init
<1>2. /\ sleep_q = <<>> /\ running_tasks = 1 /\ sleeping_tasks = 0 /\ total_tasks = 1
      /\ actual_task = Kernel /\ old_tid = 1 /\ wait4input = None /\ k = Switch
      /\ exits = [p \in Tids |-> -1]
  BY DEF Init
<1>3. NewTask(1, None, FALSE) \in TCB /\ NoTask \in TCB
  <2>1. 1 \in 0..MaxTid /\ None \in Slots \cup {None} /\ FALSE \in BOOLEAN
    BY TasksAssumption
  <2> QED
    BY <2>1, NewTaskType, NoTaskType
<1>4. /\ \A t \in Slots : /\ tcb[t].live <=> t = s
                          /\ tcb[t].id = IF t = s THEN 1 ELSE 0
                          /\ tcb[t].parent = None /\ tcb[t].kids = <<>> /\ ~tcb[t].cur
      /\ tcb[s].st = "READY"
  BY <1>1 DEF NewTask, NoTask
<1>5. tcb \in [Slots -> TCB]
  BY <1>1, <1>3
<1>6. Runnable = {s} /\ Sleeping = {} /\ IsInjective(os_q) /\ IsInjective(sleep_q)
  BY <1>1, <1>2 DEF Runnable, Sleeping, ToSet, IsInjective
<1>7. TypeOK
  <2>1. os_q \in Seq(Slots) /\ sleep_q \in Seq(Slots)
    BY <1>1, <1>2
  <2>2. k \in [fn : KernelFns, t : PtrTo(Slots), n : PtrTo(Slots), code : Status \cup {0}]
    BY <1>2 DEF Switch, Call, KernelFns, PtrTo
  <2>3. old_tid \in Tids
    BY <1>2, TasksAssumption DEF Tids
  <2>4. exits \in [Tids -> Status \cup {-1}]
    BY <1>2
  <2> QED
    BY <1>2, <1>5, <2>1, <2>2, <2>3, <2>4 DEF TypeOK, PtrTo
<1>8. QueuesDisjoint
  BY <1>6 DEF QueuesDisjoint
<1>9. QueuesMatchStates
  BY <1>4, <1>6 DEF QueuesMatchStates
<1>10. CountersExact
  BY <1>1, <1>2 DEF CountersExact
<1>11. CpuOwnerQueued
  BY <1>2 DEF CpuOwnerQueued, InUserMode, Switch, Call
<1>12. TreeConsistent
  <2>1. None \notin Slots
    BY TasksAssumption
  <2>2. ToSet(<<>>) = {} /\ IsInjective(<<>>)
    BY DEF ToSet, IsInjective
  <2> QED
    BY <1>4, <2>1, <2>2 DEF TreeConsistent
<1>13. UniqueIds /\ IdsInv
  BY <1>2, <1>4 DEF UniqueIds, IdsInv
<1>14. PendingInv
  BY <1>4 DEF PendingInv
<1>15. ControlInv
  BY <1>2, <1>6 DEF ControlInv, Switch, Call
<1> QED
  BY <1>7, <1>8, <1>9, <1>10, <1>11, <1>12, <1>13, <1>14, <1>15
     DEF IndInv, EntryConditions

(* Every step of a program, of the kernel or of an interrupt keeps it. *)
LEMMA NextIndInv == IndInv /\ [Next]_vars => IndInv'
<1> SUFFICES ASSUME IndInv, [Next]_vars PROVE IndInv'
  OBVIOUS
<1>1. ASSUME NEW s \in Slots, do_fork(s) PROVE IndInv'
  BY <1>1, ForkStep
<1>2. ASSUME NEW code \in Codes, sys_exit(code) PROVE IndInv'
  BY <1>2, ExitStep DEF sys_exit
<1>3. CASE SegFault
  BY <1>3, ExitStep DEF SegFault
<1>4. ASSUME NEW pid \in Tids, waitpid_ESRCH(pid) PROVE IndInv'
  BY <1>4, EsrchStep
<1>5. ASSUME NEW pid \in Tids, waitpid(pid) PROVE IndInv'
  BY <1>5, WaitpidStep
<1>6. CASE stdin_read
  BY <1>6, StdinReadStep
<1>7. CASE \/ TimerSwitch \/ idle_loop
           \/ dev_stdin_recall_panic \/ do_exit_panic \/ notify_parent_panic
  BY <1>7, SimpleControlStep
<1>8. CASE dev_stdin_recall
  BY <1>8, RecallStep
<1>9. CASE do_exit
  BY <1>9, DoExitStep
<1>10. CASE notify_parent
  BY <1>10, NotifyParentStep
<1>11. CASE notify_nobody
  BY <1>11, NotifyNobodyStep
<1>12. CASE task_destroy_children
  BY <1>12, DestroyChildrenStep
<1>13. CASE task_destroy
  BY <1>13, DestroyStep
<1>14. CASE task_switch \/ task_switch_to
  BY <1>14, SwitchStep
<1>15. CASE resume
  BY <1>15, ResumeStep
<1>16. CASE sig_handler
  BY <1>16, SigHandlerStep
<1>17. CASE sig_handled
  BY <1>17, SigHandledStep
<1>18. CASE UNCHANGED vars
  BY <1>18 DEF vars, counters, IndInv, EntryConditions, TypeOK, QueuesDisjoint,
       QueuesMatchStates, CountersExact, CpuOwnerQueued, TreeConsistent, UniqueIds,
       IdsInv, PendingInv, ControlInv, Rekilled, Runnable, Sleeping, Queued, InUserMode
<1> QED
  BY <1>1, <1>2, <1>3, <1>4, <1>5, <1>6, <1>7, <1>8, <1>9, <1>10, <1>11, <1>12, <1>13,
     <1>14, <1>15, <1>16, <1>17, <1>18 DEF Next, UserStep, KernelStep

(* IndInv holds in every reachable state: type correctness, the properties named
   below and what each kernel function relies on when it is entered. *)
THEOREM Inductive == Spec => []IndInv
<1> QED
  BY InitIndInv, NextIndInv, PTL DEF Spec

(* sched_set_state, sched_remove and sched_add keep every task in at most one
   queue, at most once, and running_tasks and sleeping_tasks are the lengths. *)
THEOREM QueuesSafe == Spec => [](QueuesDisjoint /\ CountersExact)
<1>1. IndInv => QueuesDisjoint /\ CountersExact
  BY DEF IndInv
<1> QED
  BY <1>1, Inductive, PTL

(* No queue holds a task that do_exit or task_destroy has removed or freed, and
   the queue a task is in agrees with its state. *)
THEOREM QueuedAreAlive == Spec => []QueuesMatchStates
<1>1. IndInv => QueuesMatchStates
  BY DEF IndInv
<1> QED
  BY <1>1, Inductive, PTL

(* task_switch and task_switch_to give the CPU only to a task of the run queue
   that has no signal left to handle. *)
THEOREM CpuSafe == Spec => []CpuOwnerQueued
<1>1. IndInv => CpuOwnerQueued
  BY DEF IndInv
<1> QED
  BY <1>1, Inductive, PTL

(* fork and task_destroy keep sibling lists and parent pointers in agreement. *)
THEOREM TreeSafe == Spec => []TreeConsistent
<1>1. IndInv => TreeConsistent
  BY DEF IndInv
<1> QED
  BY <1>1, Inductive, PTL

(* _get_tid never hands out the id of an existing task. *)
THEOREM IdsSafe == Spec => []UniqueIds
<1>1. IndInv => UniqueIds
  BY DEF IndInv
<1> QED
  BY <1>1, Inductive, PTL

(* Every kernel function is entered with what it relies on. *)
THEOREM EntrySafe == Spec => []EntryConditions
<1>1. IndInv => EntryConditions
  BY DEF IndInv
<1> QED
  BY <1>1, Inductive, PTL

-----------------------------------------------------------------------------
(* Programs that look after their children *)

(* No task exits over a running child, waits for a task that is no child of its
   own, or reads stdin while another one does or while a child is running. *)
Families == {"orphan", "stranger", "readers", "background"} \cap Allowed = {}

(* Only init has no parent. *)
RootInv == \A t \in Slots : tcb[t].live /\ tcb[t].id = 1 => tcb[t].parent = None

(* SIGCHLD is unmasked from waitpid until it has been handled, and pending only
   for a task that was woken. *)
SignalsInv ==
    \A t \in Slots : /\ tcb[t].cur => t \in Runnable /\ tcb[t].mask
                     /\ tcb[t].mask => tcb[t].cur \/ t \in Sleeping

(* The parent of a queued task is queued, and not about to leave. *)
NoOrphans ==
    \A c \in Queued : tcb[c].id # 1 =>
        tcb[c].parent \in Queued /\ ~(k.fn = "exit" /\ k.t = tcb[c].parent)

(* Who exits was running, or is killed with a parent that has left. *)
ExitingInv ==
    k.fn = "exit" => \/ k.t \in Runnable /\ ~tcb[k.t].cur
                     \/ k.t \notin Queued /\ tcb[k.t].parent \notin Queued

(* The child c of the reader is not running, nor about to exit. *)
Quiet(c) == c \notin Queued /\ ~(k.fn \in {"exit", "notify"} /\ k.t = c)

(* wait4input is a task asleep in read, which has no running children. *)
ReaderInv ==
    wait4input # None =>
        /\ wait4input \in Sleeping /\ ~tcb[wait4input].mask
        /\ \A c \in Slots : tcb[c].live /\ tcb[c].parent = wait4input => Quiet(c)

(* Of a pending SIGCHLD: the zombie is the awaited task, with its own status. *)
PendingCode(t) ==
    /\ tcb[tcb[t].wait4].id = tcb[t].pid
    /\ tcb[tcb[t].wait4].code = exits[tcb[t].pid]

(* The way of an exit status from do_exit to the register of waitpid. *)
CodesInv ==
    /\ \A t \in Queued : exits[tcb[t].id] = -1
    /\ \A i \in Tids : i > old_tid => exits[i] = -1
    /\ k.fn = "notify" /\ tcb[k.t].parent \in Queued => tcb[k.t].code = exits[tcb[k.t].id]
    /\ \A t \in Slots : tcb[t].cur /\ ~(k.fn = "reaped" /\ k.n = t) => PendingCode(t)
    /\ k.fn \in {"destroy", "reaped"} /\ k.n # None => tcb[k.n].ret = exits[tcb[k.n].pid]

(* What a family's programs keep to, beyond IndInv. *)
FamilyInv ==
    /\ RootInv /\ SignalsInv /\ NoOrphans /\ ExitingInv
    /\ WaiterHasChild /\ ReaderIsKnown /\ ReaderInv /\ CodesInv

(* What FamilyInv says of a TCB, apart from `ret'. *)
Same(u) ==
    /\ tcb'[u].live = tcb[u].live /\ tcb'[u].id = tcb[u].id /\ tcb'[u].parent = tcb[u].parent
    /\ tcb'[u].mask = tcb[u].mask /\ tcb'[u].cur = tcb[u].cur
    /\ tcb'[u].wait4 = tcb[u].wait4 /\ tcb'[u].pid = tcb[u].pid /\ tcb'[u].code = tcb[u].code

(* Every sleeper's child can still wake it. *)
Heard == \A t \in Sleeping : tcb[t].mask => tcb[t].wait4 \in Queued

(* A step of the kernel that only passes on. *)
Passes ==
    /\ \A u \in Slots : Same(u)
    /\ Runnable' = Runnable /\ Sleeping' = Sleeping
    /\ old_tid' = old_tid /\ wait4input' = wait4input /\ exits' = exits
    /\ Heard
    /\ k.fn # "reaped" /\ k'.fn \notin {"notify", "reaped"}

(* Such a step leaves the same tasks queued. *)
LEMMA PassesQueued == ASSUME Passes PROVE Queued' = Queued
  BY DEF Passes, Queued

(* What a step of that shape has to show for itself. *)
LEMMA PassesKeeps ==
    ASSUME IndInv, FamilyInv, Passes, ExitingInv', NoOrphans',
           k'.fn = "exit" /\ wait4input # None => tcb[k'.t].parent # wait4input,
           k'.fn = "destroy" /\ k'.n # None => /\ k'.n \in Slots
                                               /\ tcb'[k'.n].ret = exits[tcb[k'.n].pid]
    PROVE  FamilyInv'
<1>0. Queued' = Queued /\ Runnable \subseteq Slots /\ Sleeping \subseteq Slots /\ Queued \subseteq Slots
  BY PassesQueued, QueuedAreSlots DEF IndInv, Queued
<1>t. tcb \in [Slots -> TCB] /\ None \notin Slots
  BY TasksAssumption DEF IndInv, TypeOK
<1>1. RootInv'
  BY DEF FamilyInv, RootInv, Passes, Same
<1>2. SignalsInv'
  BY DEF FamilyInv, SignalsInv, Passes, Same
<1>3. WaiterHasChild'
  <2> SUFFICES ASSUME NEW t \in Sleeping, tcb[t].mask
               PROVE  LET c == tcb'[t].wait4 IN
                      /\ c # None /\ tcb'[c].live /\ tcb'[c].parent = t /\ tcb'[c].id = tcb'[t].pid
                      /\ c \in Queued'
    BY <1>0 DEF Passes, Same, WaiterHasChild
  <2>1. LET c == tcb[t].wait4 IN
        c # None /\ tcb[c].live /\ tcb[c].parent = t /\ tcb[c].id = tcb[t].pid /\ c \in Queued
    BY DEF FamilyInv, WaiterHasChild, Passes, Heard
  <2> QED
    BY <1>0, <2>1 DEF Passes, Same
<1>4. ReaderIsKnown'
  BY <1>0 DEF FamilyInv, ReaderIsKnown, Passes, Same
<1>5. ReaderInv'
  <2> SUFFICES ASSUME wait4input # None
               PROVE  /\ wait4input \in Sleeping /\ ~tcb'[wait4input].mask
                      /\ \A c \in Slots : tcb'[c].live /\ tcb'[c].parent = wait4input => Quiet(c)'
    BY DEF ReaderInv, Passes
  <2>1. wait4input \in Sleeping /\ ~tcb'[wait4input].mask
    BY <1>0 DEF FamilyInv, ReaderInv, Passes, Same
  <2>2. ASSUME NEW c \in Slots, tcb'[c].live, tcb'[c].parent = wait4input PROVE Quiet(c)'
    <3>1. tcb[c].live /\ tcb[c].parent = wait4input
      BY <2>2 DEF Passes, Same
    <3>2. c \notin Queued
      BY <3>1 DEF FamilyInv, ReaderInv, Quiet
    <3>3. ~(k'.fn \in {"exit", "notify"} /\ k'.t = c)
      BY <3>1 DEF Passes
    <3> QED
      BY <1>0, <3>2, <3>3 DEF Quiet
  <2> QED
    BY <2>1, <2>2
<1>6. CodesInv'
  <2>1. \A t \in Queued' : exits'[tcb'[t].id] = -1
    BY <1>0 DEF FamilyInv, CodesInv, Passes, Same
  <2>2. \A i \in Tids : i > old_tid' => exits'[i] = -1
    BY DEF FamilyInv, CodesInv, Passes
  <2>3. ASSUME NEW t \in Slots, tcb'[t].cur PROVE PendingCode(t)'
    <3>1. tcb[t].cur /\ tcb[t].wait4 \in Slots
      BY <2>3 DEF Passes, Same, IndInv, EntryConditions, PendingInv
    <3>2. PendingCode(t)
      BY <3>1 DEF FamilyInv, CodesInv, Passes
    <3> QED
      BY <3>1, <3>2 DEF PendingCode, Passes, Same
  <2>4. k'.fn \in {"destroy", "reaped"} /\ k'.n # None => tcb'[k'.n].ret = exits'[tcb'[k'.n].pid]
    BY DEF Passes, Same
  <2> QED
    BY <2>1, <2>2, <2>3, <2>4 DEF CodesInv, Passes
<1> QED
  BY <1>1, <1>2, <1>3, <1>4, <1>5, <1>6 DEF FamilyInv

(* A sleeper's child that is not queued is the one that exits. *)
LEMMA HeardWhen ==
    ASSUME IndInv, FamilyInv,
           k.fn \in {"exit", "notify"} /\ k.t \notin Queued =>
              \/ tcb[k.t].parent \notin Queued
              \/ tcb[tcb[k.t].parent].wait4 # k.t
    PROVE  Heard
<1> SUFFICES ASSUME NEW t \in Sleeping, tcb[t].mask, tcb[t].wait4 \notin Queued PROVE FALSE
  BY DEF Heard
<1>1. k.fn \in {"exit", "notify"} /\ k.t = tcb[t].wait4 /\ tcb[k.t].parent = t
  BY DEF FamilyInv, WaiterHasChild
<1>2. t \in Queued
  BY DEF Queued
<1> QED
  BY <1>1, <1>2

(* A step that leaves every TCB alone. *)
LEMMA SameTcb == ASSUME tcb' = tcb PROVE \A u \in Slots : Same(u)
  BY DEF Same

(* A step that leaves both queues alone. *)
LEMMA SameQueues ==
    ASSUME os_q' = os_q, sleep_q' = sleep_q PROVE Runnable' = Runnable /\ Sleeping' = Sleeping
  BY DEF Runnable, Sleeping

(* In user mode SIGCHLD is masked. *)
LEMMA UserMasked ==
    ASSUME IndInv, FamilyInv, InUserMode
    PROVE  /\ me \in Slots /\ me \in Runnable /\ me \notin Sleeping /\ me \in Queued
           /\ ~tcb[me].cur /\ ~tcb[me].mask /\ tcb[me].live
<1>1. me \in Slots /\ me \in Runnable /\ me \notin Sleeping /\ ~tcb[me].cur /\ tcb[me].live
  BY RunningTask
<1>2. ~tcb[me].mask
  BY <1>1 DEF FamilyInv, SignalsInv
<1> QED
  BY <1>1, <1>2 DEF Queued

(* The children of a task that is not queued are not queued either. *)
LEMMA ChildrenOf ==
    ASSUME IndInv, FamilyInv, NEW p \in Slots, NEW c \in Slots, c \in ToSet(tcb[p].kids)
    PROVE  /\ tcb[c].live /\ tcb[c].parent = p /\ tcb[c].id # 1
           /\ p \notin Queued => c \notin Queued
<1>1. tcb[c].live /\ tcb[c].parent = p
  BY DEF IndInv, TreeConsistent
<1>2. tcb[c].id # 1
  BY <1>1, TasksAssumption DEF FamilyInv, RootInv
<1> QED
  BY <1>1, <1>2 DEF FamilyInv, NoOrphans

(* exit() and SIGSEGV: the task has no running children. *)
LEMMA ExitFamily ==
    ASSUME IndInv, FamilyInv, Families, NEW code, InUserMode, MayEnd(me),
           k' = Call("exit", me, None, code),
           UNCHANGED <<tcb, os_q, sleep_q, counters, actual_task, old_tid, wait4input, exits>>
    PROVE  FamilyInv'
<1>1. me \in Slots /\ me \in Runnable /\ me \in Queued /\ me \notin Sleeping /\ ~tcb[me].cur /\ tcb[me].live
  BY UserMasked
<1>2. LiveKids(me) = {}
  BY DEF MayEnd, Families
<1>3. k'.fn = "exit" /\ k'.t = me /\ k.fn = "user"
  BY DEF Call, InUserMode
<1>4. Heard
  BY <1>3, HeardWhen
<1>5. Passes
  BY <1>3, <1>4, SameTcb, SameQueues DEF Passes
<1>6. ExitingInv'
  BY <1>1, <1>3, <1>5 DEF ExitingInv, Passes, Same
<1>7. NoOrphans'
  <2> SUFFICES ASSUME NEW c \in Queued, tcb[c].id # 1
               PROVE  tcb[c].parent \in Queued /\ tcb[c].parent # me
    BY <1>3, <1>5, PassesQueued DEF NoOrphans
  <2>1. tcb[c].parent \in Queued
    BY DEF FamilyInv, NoOrphans
  <2>2. c \in Slots /\ tcb[c].live
    BY QueuedAreSlots DEF IndInv, Queued, QueuesMatchStates
  <2>3. tcb[c].parent = me => c \in ToSet(tcb[me].kids)
    BY <1>1, <2>2 DEF IndInv, TreeConsistent
  <2> QED
    BY <1>2, <2>1, <2>3 DEF LiveKids
<1>8. wait4input # None => tcb[me].parent # wait4input
  <2> SUFFICES ASSUME tcb[me].parent = wait4input, wait4input # None PROVE FALSE
    OBVIOUS
  <2>1. Quiet(me)
    BY <1>1 DEF FamilyInv, ReaderInv
  <2> QED
    BY <1>1, <2>1 DEF Quiet
<1> QED
  BY <1>3, <1>5, <1>6, <1>7, <1>8, PassesKeeps

(* The steps of the kernel that only decide what comes next, and task_switch,
   resume and ESRCH, which change what FamilyInv does not speak of. *)
LEMMA PlainFamily ==
    ASSUME IndInv, FamilyInv, \A u \in Slots : Same(u),
           UNCHANGED <<os_q, sleep_q, old_tid, wait4input, exits>>,
           Heard, k.fn # "reaped", k'.fn \notin {"exit", "notify", "reaped", "destroy"}
    PROVE  FamilyInv'
<1>1. Passes
  BY SameQueues DEF Passes
<1>2. ExitingInv'
  BY DEF ExitingInv
<1>3. NoOrphans'
  <2>1. Queued' = Queued /\ Queued \subseteq Slots
    BY <1>1, PassesQueued, QueuedAreSlots DEF Queued, IndInv
  <2> QED
    BY <2>1 DEF NoOrphans, FamilyInv, Same
<1> QED
  BY <1>1, <1>2, <1>3, PassesKeeps

(* Timer, idle loop and panics only move the control. *)
LEMMA ControlFamily ==
    ASSUME IndInv, FamilyInv,
           \/ TimerSwitch \/ idle_loop
           \/ dev_stdin_recall_panic \/ do_exit_panic \/ notify_parent_panic
    PROVE  FamilyInv'
<1>1. /\ tcb' = tcb /\ UNCHANGED <<os_q, sleep_q, old_tid, wait4input, exits>>
      /\ k' = Switch \/ k' = Panic
      /\ k.fn # "reaped"
  BY DEF TimerSwitch, idle_loop, dev_stdin_recall_panic, do_exit_panic, notify_parent_panic,
         InUserMode, KeyboardOn
<1>2. k'.fn \notin {"exit", "notify", "reaped", "destroy"}
  BY <1>1 DEF Switch, Panic, Call
<1>3. k.fn \in {"exit", "notify"} /\ k.t \notin Queued => tcb[k.t].parent \notin Queued
  BY DEF TimerSwitch, idle_loop, dev_stdin_recall_panic, do_exit_panic, notify_parent_panic,
         InUserMode, KeyboardOn, FamilyInv, ExitingInv, Queued
<1>4. Heard
  BY <1>3, HeardWhen
<1> QED
  BY <1>1, <1>2, <1>4, SameTcb, PlainFamily

(* The scheduler picks a task. *)
LEMMA SwitchFamily ==
    ASSUME IndInv, FamilyInv, task_switch \/ task_switch_to
    PROVE  FamilyInv'
<1>1. /\ tcb' = Preempted /\ UNCHANGED <<os_q, sleep_q, old_tid, wait4input, exits>>
      /\ k.fn \in {"switch", "switch_to"}
  BY DEF task_switch, task_switch_to
<1>2. \A u \in Slots : Same(u)
  <2>1. tcb \in [Slots -> TCB]
    BY DEF IndInv, TypeOK
  <2> QED
    BY <1>1, <2>1 DEF Preempted, Same, TCB
<1>3. k'.fn \in {"idle", "panic", "resume"}
  <2>1. \A n : Call("resume", None, n, 0).fn = "resume"
    BY DEF Call
  <2>2. Idle.fn = "idle" /\ Panic.fn = "panic"
    BY DEF Idle, Panic, Call
  <2>3. (\E n : k' = Call("resume", None, n, 0)) \/ k' = Idle \/ k' = Panic
    BY DEF task_switch, task_switch_to
  <2> QED
    BY <2>1, <2>2, <2>3
<1>4. Heard
  BY <1>1, HeardWhen
<1> QED
  BY <1>1, <1>2, <1>3, <1>4, PlainFamily

(* The task it picked runs again. *)
LEMMA ResumeFamily ==
    ASSUME IndInv, FamilyInv, resume
    PROVE  FamilyInv'
<1>1. /\ tcb' = [tcb EXCEPT ![k.n].st = "RUNNING"] /\ k.fn = "resume" /\ k' = User
      /\ UNCHANGED <<os_q, sleep_q, old_tid, wait4input, exits>>
  BY DEF resume
<1>2. \A u \in Slots : Same(u)
  <2>1. tcb \in [Slots -> TCB]
    BY DEF IndInv, TypeOK
  <2> QED
    BY <1>1, <2>1 DEF Same, TCB
<1>3. k'.fn = "user"
  BY <1>1 DEF User, Call
<1>4. Heard
  BY <1>1, HeardWhen
<1> QED
  BY <1>1, <1>2, <1>3, <1>4, PlainFamily

(* waitpid of a task that is no more. *)
LEMMA EsrchFamily ==
    ASSUME IndInv, FamilyInv, NEW pid, waitpid_ESRCH(pid)
    PROVE  FamilyInv'
<1>1. /\ tcb' = [tcb EXCEPT ![me].ret = WAITPID] /\ k.fn = "user" /\ k' = k
      /\ UNCHANGED <<os_q, sleep_q, old_tid, wait4input, exits>>
  BY DEF waitpid_ESRCH, InUserMode
<1>2. \A u \in Slots : Same(u)
  <2>1. tcb \in [Slots -> TCB]
    BY DEF IndInv, TypeOK
  <2> QED
    BY <1>1, <2>1 DEF Same, TCB
<1>3. Heard
  BY <1>1, HeardWhen
<1> QED
  BY <1>1, <1>2, <1>3, PlainFamily

(* The parent's wait4 names nobody or another task: nobody waits. *)
LEMMA NotifyNobodyFamily ==
    ASSUME IndInv, FamilyInv, notify_nobody
    PROVE  FamilyInv'
<1>1. /\ tcb' = tcb /\ k.fn = "notify" /\ ~Awaited(k.t) /\ k' = Call("destroy", k.t, None, 0)
      /\ UNCHANGED <<os_q, sleep_q, old_tid, wait4input, exits>>
  BY DEF notify_nobody
<1>2. k.t # None
  BY <1>1, TasksAssumption DEF IndInv, EntryConditions, ControlInv
<1>3. tcb[tcb[k.t].parent].wait4 # k.t
  BY <1>1, <1>2 DEF Awaited
<1>4. Heard
  BY <1>1, <1>3, HeardWhen
<1>5. k'.fn = "destroy" /\ k'.n = None
  BY <1>1 DEF Call
<1>6. Passes
  BY <1>1, <1>4, <1>5, SameTcb, SameQueues DEF Passes
<1>7. ExitingInv' /\ NoOrphans'
  BY <1>1, <1>5, <1>6, PassesQueued DEF ExitingInv, NoOrphans, FamilyInv
<1> QED
  BY <1>5, <1>6, <1>7, PassesKeeps

(* Who is killed with its parent is not queued. *)
LEMMA DestroyChildrenFamily ==
    ASSUME IndInv, FamilyInv, task_destroy_children
    PROVE  FamilyInv'
<1> DEFINE c == tcb[k.t].kids[1]
<1>1. /\ tcb' = tcb /\ k.fn = "destroy" /\ tcb[k.t].kids # <<>>
      /\ k' = Call("exit", c, None, SIGKILL)
      /\ UNCHANGED <<os_q, sleep_q, old_tid, wait4input, exits>>
  BY DEF task_destroy_children
<1>2. k.t \in Slots /\ k.t \notin Queued
  BY <1>1 DEF IndInv, EntryConditions, ControlInv
<1>3. c \in Slots /\ c \in ToSet(tcb[k.t].kids)
  <2>1. tcb[k.t].kids \in Seq(Slots)
    BY <1>2 DEF IndInv, TypeOK, TCB
  <2>2. 1 \in DOMAIN tcb[k.t].kids /\ 1 \in 1..Len(tcb[k.t].kids)
    BY <1>1, <2>1
  <2> QED
    BY <2>1, <2>2 DEF ToSet
<1> HIDE DEF c
<1>4. c \notin Queued /\ tcb[c].parent = k.t
  BY <1>2, <1>3, ChildrenOf
<1>5. Heard
  BY <1>1, HeardWhen
<1>6. k'.fn = "exit" /\ k'.t = c
  BY <1>1 DEF Call
<1>7. Passes
  BY <1>1, <1>5, <1>6, SameTcb, SameQueues DEF Passes
<1>8. ExitingInv'
  BY <1>1, <1>2, <1>4, <1>6, <1>7, PassesQueued DEF ExitingInv
<1>9. NoOrphans'
  BY <1>1, <1>4, <1>6, <1>7, PassesQueued DEF NoOrphans, FamilyInv
<1>10. wait4input # None => tcb[c].parent # wait4input
  BY <1>2, <1>4 DEF FamilyInv, ReaderInv, Queued
<1> QED
  BY <1>6, <1>7, <1>8, <1>9, <1>10, PassesKeeps

(* sig_handler hands the status of the awaited zombie to waitpid. *)
LEMMA SigHandlerFamily ==
    ASSUME IndInv, FamilyInv, sig_handler
    PROVE  FamilyInv'
<1> DEFINE p == k.n
           code == ChildCode(p)
<1>1. /\ tcb' = [tcb EXCEPT ![p].st = "RUNNING", ![p].ret = code]
      /\ k.fn = "resume" /\ tcb[p].cur
      /\ k' = Call("destroy", tcb[p].wait4, p, 0)
      /\ UNCHANGED <<os_q, sleep_q, old_tid, wait4input, exits>>
  BY DEF sig_handler
<1>2. tcb \in [Slots -> TCB] /\ p \in Slots
  BY <1>1, QueuedAreSlots DEF IndInv, TypeOK, EntryConditions, ControlInv
<1>3. code = exits[tcb[p].pid]
  BY <1>1, <1>2 DEF FamilyInv, CodesInv, PendingCode, ChildCode
<1> HIDE DEF p, code
<1>4. (\A u \in Slots : Same(u)) /\ tcb'[p].ret = code
  BY <1>1, <1>2 DEF Same, TCB
<1>5. k'.fn = "destroy" /\ k'.n = p
  BY <1>1 DEF Call
<1>6. Heard
  BY <1>1, HeardWhen
<1>7. Passes
  BY <1>1, <1>4, <1>5, <1>6, SameQueues DEF Passes
<1>8. ExitingInv'
  BY <1>5 DEF ExitingInv
<1>9. NoOrphans'
  <2>1. Queued' = Queued /\ Queued \subseteq Slots
    BY <1>7, PassesQueued, QueuedAreSlots DEF Queued, IndInv
  <2> QED
    BY <1>4, <1>5, <2>1 DEF NoOrphans, FamilyInv, Same
<1> QED
  BY <1>2, <1>3, <1>4, <1>5, <1>7, <1>8, <1>9, PassesKeeps

(* Who has no parent. *)
LEMMA RootKept ==
    ASSUME FamilyInv, \A u \in Slots : tcb'[u].live => \/ ~(tcb'[u].id = 1)
                                                      \/ /\ tcb[u].live /\ tcb[u].id = 1
                                                         /\ tcb'[u].parent = tcb[u].parent
    PROVE  RootInv'
  BY DEF FamilyInv, RootInv

(* read(stdin): the only reader, without running children. *)
LEMMA StdinReadFamily ==
    ASSUME IndInv, FamilyInv, Families, stdin_read
    PROVE  FamilyInv'
<1>0. /\ InUserMode /\ sched_sleep_task(me) /\ k' = Switch /\ wait4input' = me
      /\ old_tid' = old_tid /\ exits' = exits
      /\ wait4input = None /\ LiveKids(me) = {}
  BY DEF stdin_read, Families
<1>1. /\ me \in Slots /\ me \in Runnable /\ me \notin Sleeping /\ me \in Queued
      /\ ~tcb[me].cur /\ ~tcb[me].mask /\ tcb[me].live
  BY <1>0, UserMasked
<1>2. \A u \in Slots : Same(u)
  <2>1. tcb \in [Slots -> TCB] /\ tcb' = [tcb EXCEPT ![me].st = "WAITING"]
    BY DEF IndInv, TypeOK, stdin_read
  <2> QED
    BY <2>1 DEF Same, TCB
<1>3. Runnable' = Runnable \ {me} /\ Sleeping' = Sleeping \cup {me}
  BY <1>0, <1>1, SleepFacts DEF IndInv
<1>4. Queued' = Queued /\ Runnable \subseteq Slots /\ Sleeping \subseteq Slots /\ Queued \subseteq Slots
  BY <1>1, <1>3, QueuedAreSlots DEF Queued, IndInv
<1>5. k.fn = "user" /\ k'.fn = "switch"
  BY <1>0 DEF InUserMode, Switch, Call
<1>6. RootInv'
  BY <1>2, RootKept DEF Same
<1>7. SignalsInv'
  BY <1>1, <1>2, <1>3 DEF FamilyInv, SignalsInv, Same
<1>8. NoOrphans' /\ ExitingInv'
  BY <1>2, <1>4, <1>5 DEF FamilyInv, NoOrphans, ExitingInv, Same
<1>9. WaiterHasChild'
  <2> SUFFICES ASSUME NEW t \in Sleeping', tcb'[t].mask
               PROVE  LET c == tcb'[t].wait4 IN
                      /\ c # None /\ tcb'[c].live /\ tcb'[c].parent = t /\ tcb'[c].id = tcb'[t].pid
                      /\ c \in Queued'
    BY DEF WaiterHasChild
  <2>1. t \in Sleeping /\ tcb[t].mask /\ t \in Slots
    BY <1>1, <1>2, <1>3, <1>4 DEF Same
  <2>2. LET c == tcb[t].wait4 IN
        c # None /\ tcb[c].live /\ tcb[c].parent = t /\ tcb[c].id = tcb[t].pid /\ c \in Queued
    BY <1>5, <2>1 DEF FamilyInv, WaiterHasChild
  <2> QED
    BY <1>2, <1>4, <2>1, <2>2 DEF Same
<1>10. ReaderIsKnown'
  <2> SUFFICES ASSUME NEW t \in Sleeping', ~tcb'[t].mask PROVE t = me
    BY <1>0 DEF ReaderIsKnown
  <2>1. t \in Sleeping => wait4input = t
    BY <1>2, <1>4 DEF FamilyInv, ReaderIsKnown, Same
  <2> QED
    BY <1>0, <1>3, <1>4, <2>1, TasksAssumption
<1>11. ReaderInv'
  <2>1. me \in Sleeping' /\ ~tcb'[me].mask
    BY <1>1, <1>2, <1>3 DEF Same
  <2>2. ASSUME NEW c \in Slots, tcb'[c].live, tcb'[c].parent = me PROVE Quiet(c)'
    <3>1. c \in ToSet(tcb[me].kids)
      BY <1>1, <1>2, <2>2 DEF Same, IndInv, TreeConsistent
    <3> QED
      BY <1>0, <1>4, <1>5, <3>1 DEF LiveKids, Quiet
  <2> QED
    BY <1>0, <2>1, <2>2 DEF ReaderInv
<1>12. CodesInv'
  <2>1. ASSUME NEW t \in Slots, tcb'[t].cur PROVE PendingCode(t)'
    <3>1. tcb[t].cur /\ tcb[t].wait4 \in Slots
      BY <1>2, <1>5, <2>1 DEF Same, IndInv, EntryConditions, PendingInv
    <3>2. PendingCode(t)
      BY <1>5, <3>1 DEF FamilyInv, CodesInv
    <3> QED
      BY <1>0, <1>2, <3>1, <3>2 DEF PendingCode, Same
  <2>2. \A t \in Queued' : exits'[tcb'[t].id] = -1
    BY <1>0, <1>2, <1>4 DEF FamilyInv, CodesInv, Same
  <2> QED
    BY <1>0, <1>5, <2>1, <2>2 DEF FamilyInv, CodesInv
<1> QED
  BY <1>6, <1>7, <1>8, <1>9, <1>10, <1>11, <1>12 DEF FamilyInv

(* waitpid of a running child. *)
LEMMA WaitpidFamily ==
    ASSUME IndInv, FamilyInv, Families, NEW pid \in Tids, waitpid(pid)
    PROVE  FamilyInv'
<1> DEFINE w == sched_get_tcb(pid)
<1>0. /\ InUserMode /\ sched_sleep_task(me) /\ k' = Switch /\ w # None /\ w \in LiveKids(me)
      /\ old_tid' = old_tid /\ exits' = exits /\ wait4input' = wait4input
  BY DEF waitpid, Families
<1>e. tcb' = [tcb EXCEPT ![me].wait4 = w, ![me].mask = TRUE, ![me].pid = pid,
                         ![me].st = "WAITING"]
  BY DEF waitpid
<1>1. /\ me \in Slots /\ me \in Runnable /\ me \notin Sleeping /\ me \in Queued
      /\ ~tcb[me].cur /\ ~tcb[me].mask /\ tcb[me].live
  BY <1>0, UserMasked
<1>2. w \in Queued /\ w \in Slots /\ w \in ToSet(tcb[me].kids)
  BY <1>0, QueuedAreSlots DEF LiveKids, IndInv, Queued
<1>3. tcb[w].id = pid
  BY <1>0 DEF sched_get_tcb
<1>4. tcb[w].live /\ tcb[w].parent = me
  BY <1>1, <1>2, ChildrenOf
<1> HIDE DEF w
<1>5. /\ \A u \in Slots :
           /\ tcb'[u].live = tcb[u].live /\ tcb'[u].id = tcb[u].id /\ tcb'[u].parent = tcb[u].parent
           /\ tcb'[u].cur = tcb[u].cur /\ tcb'[u].code = tcb[u].code
           /\ u # me => /\ tcb'[u].mask = tcb[u].mask /\ tcb'[u].wait4 = tcb[u].wait4
                        /\ tcb'[u].pid = tcb[u].pid
      /\ tcb'[me].wait4 = w /\ tcb'[me].mask /\ tcb'[me].pid = pid
  <2>1. tcb \in [Slots -> TCB]
    BY DEF IndInv, TypeOK
  <2> QED
    BY <1>1, <1>e, <2>1 DEF TCB
<1>6. Runnable' = Runnable \ {me} /\ Sleeping' = Sleeping \cup {me}
  BY <1>0, <1>1, SleepFacts DEF IndInv
<1>7. Queued' = Queued /\ Runnable \subseteq Slots /\ Sleeping \subseteq Slots /\ Queued \subseteq Slots
  BY <1>1, <1>6, QueuedAreSlots DEF Queued, IndInv
<1>8. k.fn = "user" /\ k'.fn = "switch"
  BY <1>0 DEF InUserMode, Switch, Call
<1>9. RootInv'
  BY <1>5, RootKept
<1>10. SignalsInv'
  BY <1>1, <1>5, <1>6 DEF FamilyInv, SignalsInv
<1>11. NoOrphans' /\ ExitingInv'
  BY <1>5, <1>7, <1>8 DEF FamilyInv, NoOrphans, ExitingInv
<1>12. WaiterHasChild'
  <2> SUFFICES ASSUME NEW t \in Sleeping', tcb'[t].mask
               PROVE  LET c == tcb'[t].wait4 IN
                      /\ c # None /\ tcb'[c].live /\ tcb'[c].parent = t /\ tcb'[c].id = tcb'[t].pid
                      /\ c \in Queued'
    BY DEF WaiterHasChild
  <2>1. CASE t = me
    BY <1>0, <1>2, <1>3, <1>4, <1>5, <1>7, <2>1
  <2>2. CASE t # me
    <3>1. t \in Sleeping /\ tcb[t].mask /\ t \in Slots
      BY <1>5, <1>6, <1>7, <2>2
    <3>2. LET c == tcb[t].wait4 IN
          c # None /\ tcb[c].live /\ tcb[c].parent = t /\ tcb[c].id = tcb[t].pid /\ c \in Queued
      BY <1>8, <3>1 DEF FamilyInv, WaiterHasChild
    <3> QED
      BY <1>5, <1>7, <2>2, <3>1, <3>2
  <2> QED
    BY <2>1, <2>2
<1>13. ReaderIsKnown'
  BY <1>0, <1>5, <1>6, <1>7 DEF FamilyInv, ReaderIsKnown
<1>14. ReaderInv'
  <2> SUFFICES ASSUME wait4input # None
               PROVE  /\ wait4input \in Sleeping' /\ ~tcb'[wait4input].mask
                      /\ \A c \in Slots : tcb'[c].live /\ tcb'[c].parent = wait4input => Quiet(c)'
    BY <1>0 DEF ReaderInv
  <2>1. wait4input \in Sleeping' /\ ~tcb'[wait4input].mask
    BY <1>1, <1>5, <1>6, <1>7 DEF FamilyInv, ReaderInv
  <2>2. \A c \in Slots : tcb'[c].live /\ tcb'[c].parent = wait4input => Quiet(c)'
    BY <1>5, <1>7, <1>8 DEF FamilyInv, ReaderInv, Quiet
  <2> QED
    BY <2>1, <2>2
<1>15. CodesInv'
  <2>1. ASSUME NEW t \in Slots, tcb'[t].cur PROVE PendingCode(t)'
    <3>1. t # me /\ tcb[t].cur /\ tcb[t].wait4 \in Slots
      BY <1>1, <1>5, <1>8, <2>1 DEF IndInv, EntryConditions, PendingInv
    <3>2. PendingCode(t)
      BY <1>8, <3>1 DEF FamilyInv, CodesInv
    <3> QED
      BY <1>0, <1>5, <3>1, <3>2 DEF PendingCode
  <2>2. \A t \in Queued' : exits'[tcb'[t].id] = -1
    BY <1>0, <1>5, <1>7 DEF FamilyInv, CodesInv
  <2> QED
    BY <1>0, <1>8, <2>1, <2>2 DEF FamilyInv, CodesInv
<1> QED
  BY <1>9, <1>10, <1>11, <1>12, <1>13, <1>14, <1>15 DEF FamilyInv

(* Enter wakes the only reader. *)
LEMMA RecallFamily ==
    ASSUME IndInv, FamilyInv, dev_stdin_recall
    PROVE  FamilyInv'
<1> DEFINE w == wait4input
<1>0. /\ k.fn \in {"user", "idle"} /\ w \in Queued /\ sched_wake_task(w)
      /\ wait4input' = None /\ old_tid' = old_tid /\ k' = k /\ exits' = exits
  BY DEF dev_stdin_recall, KeyboardOn
<1>e. tcb' = [tcb EXCEPT ![w].ret = LINE, ![w].st = WokenState(w)]
  BY DEF dev_stdin_recall
<1>1. w \in Sleeping /\ ~tcb[w].mask /\ w \in Slots
  BY <1>0, QueuedAreSlots, TasksAssumption DEF FamilyInv, ReaderInv, IndInv, Queued
<1>2. \A u \in Slots : Same(u)
  <2>1. tcb \in [Slots -> TCB]
    BY DEF IndInv, TypeOK
  <2> QED
    BY <1>e, <2>1 DEF Same, TCB
<1>3. Runnable' = Runnable \cup {w} /\ Sleeping' = Sleeping \ {w}
  BY <1>0, WakeFacts DEF IndInv
<1>4. Queued' = Queued /\ Runnable \subseteq Slots /\ Sleeping \subseteq Slots /\ Queued \subseteq Slots
  BY <1>1, <1>3, QueuedAreSlots DEF Queued, IndInv
<1>6. RootInv'
  BY <1>2, RootKept DEF Same
<1>7. SignalsInv'
  BY <1>1, <1>2, <1>3 DEF FamilyInv, SignalsInv, Same
<1>8. NoOrphans' /\ ExitingInv'
  BY <1>0, <1>2, <1>4 DEF FamilyInv, NoOrphans, ExitingInv, Same
<1>9. WaiterHasChild'
  <2> SUFFICES ASSUME NEW t \in Sleeping', tcb'[t].mask
               PROVE  LET c == tcb'[t].wait4 IN
                      /\ c # None /\ tcb'[c].live /\ tcb'[c].parent = t /\ tcb'[c].id = tcb'[t].pid
                      /\ c \in Queued'
    BY DEF WaiterHasChild
  <2>1. t \in Sleeping /\ tcb[t].mask /\ t \in Slots
    BY <1>2, <1>3, <1>4 DEF Same
  <2>2. LET c == tcb[t].wait4 IN
        c # None /\ tcb[c].live /\ tcb[c].parent = t /\ tcb[c].id = tcb[t].pid /\ c \in Queued
    BY <1>0, <2>1 DEF FamilyInv, WaiterHasChild
  <2> QED
    BY <1>2, <1>4, <2>1, <2>2 DEF Same
<1>10. ReaderIsKnown' /\ ReaderInv'
  BY <1>0, <1>2, <1>3, <1>4 DEF FamilyInv, ReaderIsKnown, ReaderInv, Same
<1>12. CodesInv'
  <2>1. ASSUME NEW t \in Slots, tcb'[t].cur PROVE PendingCode(t)'
    <3>1. tcb[t].cur /\ tcb[t].wait4 \in Slots
      BY <1>0, <1>2, <2>1 DEF Same, IndInv, EntryConditions, PendingInv
    <3>2. PendingCode(t)
      BY <1>0, <3>1 DEF FamilyInv, CodesInv
    <3> QED
      BY <1>0, <1>2, <3>1, <3>2 DEF PendingCode, Same
  <2>2. \A t \in Queued' : exits'[tcb'[t].id] = -1
    BY <1>0, <1>2, <1>4 DEF FamilyInv, CodesInv, Same
  <2> QED
    BY <1>0, <2>1, <2>2 DEF FamilyInv, CodesInv
<1> QED
  BY <1>6, <1>7, <1>8, <1>9, <1>10, <1>12 DEF FamilyInv

(* do_exit: its task was running without a signal pending, or is killed with a
   parent that has left, so nobody is left without a parent or waits in vain. *)
LEMMA DoExitFamily ==
    ASSUME IndInv, FamilyInv, do_exit
    PROVE  FamilyInv'
<1> DEFINE t == k.t
           i == tcb[t].id
<1>0. /\ k.fn = "exit" /\ ~Leaked(t) /\ sched_remove(t)
      /\ k' = IF i = 1 THEN SwitchTo ELSE Call("notify", t, None, 0)
      /\ old_tid' = old_tid /\ wait4input' = wait4input
  BY DEF do_exit
<1>1. /\ t \in Slots /\ tcb[t].live /\ Rekilled(t) /\ k.code \in Status
      /\ i \in Tids /\ i <= old_tid /\ i \in Nat /\ old_tid \in Nat
  BY <1>0, TasksAssumption DEF IndInv, EntryConditions, ControlInv, IdsInv, TypeOK, Tids
<1>2. \/ t \in Runnable /\ ~tcb[t].cur
      \/ t \notin Queued /\ tcb[t].parent \notin Queued
  BY <1>0 DEF FamilyInv, ExitingInv
<1> HIDE DEF t
<1>3. /\ \A u \in Slots :
           /\ tcb'[u].live = tcb[u].live /\ tcb'[u].id = tcb[u].id /\ tcb'[u].parent = tcb[u].parent
           /\ tcb'[u].mask = tcb[u].mask /\ tcb'[u].cur = tcb[u].cur
           /\ tcb'[u].wait4 = tcb[u].wait4 /\ tcb'[u].pid = tcb[u].pid
           /\ u # t => tcb'[u].code = tcb[u].code
      /\ tcb'[t].code = k.code
  <2>1. tcb \in [Slots -> TCB] /\ tcb' = [tcb EXCEPT ![t].code = k.code]
    BY DEF IndInv, TypeOK, do_exit, t
  <2> QED
    BY <1>1, <2>1 DEF TCB
<1>4. /\ exits[i] = -1 => exits'[i] = k.code
      /\ \A j \in Tids : j # i => exits'[j] = exits[j]
  <2>1. exits' = IF exits[i] = -1 THEN [exits EXCEPT ![i] = k.code] ELSE exits
    BY DEF do_exit, t
  <2>2. exits \in [Tids -> Status \cup {-1}]
    BY DEF IndInv, TypeOK
  <2> QED
    BY <1>1, <2>1, <2>2
<1> HIDE DEF i
<1>5. /\ Runnable' = Runnable \ {t} /\ Sleeping' = Sleeping \ {t} /\ Queued' = Queued \ {t}
      /\ Runnable \subseteq Slots /\ Sleeping \subseteq Slots /\ Queued \subseteq Slots
  <2>1. Runnable' = Runnable \ {t} /\ Sleeping' = Sleeping \ {t}
    BY <1>0, <1>1, RemoveFacts DEF IndInv
  <2> QED
    BY <2>1, QueuedAreSlots DEF IndInv, Queued
<1>6. t \notin Sleeping /\ ~tcb[t].cur /\ ~tcb[t].mask
  BY <1>1, <1>2 DEF IndInv, QueuesDisjoint, Queued, FamilyInv, SignalsInv
<1>7. \/ i = 1 /\ k'.fn = "switch_to"
      \/ i # 1 /\ k'.fn = "notify" /\ k'.t = t
  BY <1>0 DEF SwitchTo, Call
<1>8. ASSUME NEW u \in Slots, tcb[u].live, u # t PROVE tcb[u].id # i /\ tcb[u].id \in Tids
  <2>1. tcb[u].id # i
    BY <1>1, <1>8 DEF IndInv, UniqueIds, i
  <2>2. tcb[u].id \in 1..old_tid /\ old_tid \in 1..MaxTid
    BY <1>8 DEF IndInv, EntryConditions, IdsInv, TypeOK, Tids
  <2> QED
    BY <2>1, <2>2, TasksAssumption DEF Tids
<1>9. RootInv'
  BY <1>3, RootKept
<1>10. SignalsInv'
  BY <1>3, <1>5, <1>6 DEF FamilyInv, SignalsInv
<1>11. NoOrphans' /\ ExitingInv'
  <2>1. \A c \in Queued : tcb[c].id # 1 => tcb[c].parent \in Queued /\ tcb[c].parent # t
    BY <1>0 DEF FamilyInv, NoOrphans, t
  <2> QED
    BY <1>3, <1>5, <1>7, <2>1 DEF NoOrphans, ExitingInv
<1>12. WaiterHasChild'
  <2> SUFFICES ASSUME NEW u \in Sleeping', tcb'[u].mask
               PROVE  LET c == tcb'[u].wait4 IN
                      /\ c # None /\ tcb'[c].live /\ tcb'[c].parent = u /\ tcb'[c].id = tcb'[u].pid
                      /\ c \in Queued' \/ (k'.fn \in {"exit", "notify"} /\ k'.t = c)
    BY DEF WaiterHasChild
  <2> DEFINE c == tcb[u].wait4
  <2>1. u \in Sleeping /\ tcb[u].mask /\ u \in Slots /\ tcb'[u].wait4 = c /\ tcb'[u].pid = tcb[u].pid
    BY <1>3, <1>5
  <2>2. /\ c # None /\ tcb[c].live /\ tcb[c].parent = u /\ tcb[c].id = tcb[u].pid
        /\ c \in Queued \/ c = t
    BY <2>1 DEF FamilyInv, WaiterHasChild, t
  <2>3. c \in Slots
    BY <1>1, <1>5, <2>2
  <2> HIDE DEF c
  <2>4. c = t => i # 1
    BY <1>1, <2>1, <2>2, TasksAssumption DEF FamilyInv, RootInv, i
  <2>5. c \in Queued' \/ (k'.fn \in {"exit", "notify"} /\ k'.t = c)
    BY <1>5, <1>7, <2>2, <2>4
  <2> QED
    BY <1>3, <2>1, <2>2, <2>3, <2>5
<1>13. ReaderIsKnown'
  BY <1>0, <1>3, <1>5 DEF FamilyInv, ReaderIsKnown
<1>14. ReaderInv'
  <2> SUFFICES ASSUME wait4input # None
               PROVE  /\ wait4input \in Sleeping' /\ ~tcb'[wait4input].mask
                      /\ \A c \in Slots : tcb'[c].live /\ tcb'[c].parent = wait4input => Quiet(c)'
    BY <1>0 DEF ReaderInv
  <2>1. wait4input \in Sleeping' /\ ~tcb'[wait4input].mask
    BY <1>3, <1>5, <1>6 DEF FamilyInv, ReaderInv
  <2>2. ASSUME NEW c \in Slots, tcb'[c].live, tcb'[c].parent = wait4input PROVE Quiet(c)'
    <3>1. c \notin Queued /\ c # t
      BY <1>0, <1>3, <2>2 DEF FamilyInv, ReaderInv, Quiet, t
    <3> QED
      BY <1>5, <1>7, <3>1 DEF Quiet
  <2> QED
    BY <2>1, <2>2
<1>15. CodesInv'
  <2>1. \A u \in Queued' : exits'[tcb'[u].id] = -1
    <3> SUFFICES ASSUME NEW u \in Queued' PROVE exits'[tcb'[u].id] = -1
      OBVIOUS
    <3>1. u \in Queued /\ u # t /\ u \in Slots /\ tcb[u].live
      BY <1>5 DEF IndInv, QueuesMatchStates, Queued
    <3>2. tcb[u].id # i /\ tcb[u].id \in Tids /\ exits[tcb[u].id] = -1
      BY <1>8, <3>1 DEF FamilyInv, CodesInv
    <3> QED
      BY <1>3, <1>4, <3>1, <3>2
  <2>2. \A j \in Tids : j > old_tid' => exits'[j] = -1
    BY <1>0, <1>1, <1>4 DEF FamilyInv, CodesInv, Tids
  <2>3. k'.fn = "notify" /\ tcb'[k'.t].parent \in Queued' => tcb'[k'.t].code = exits'[tcb'[k'.t].id]
    <3> SUFFICES ASSUME k'.fn = "notify", tcb'[t].parent \in Queued' PROVE tcb'[t].code = exits'[i]
      BY <1>1, <1>3, <1>7 DEF i
    <3>1. t \in Queued
      BY <1>1, <1>2, <1>3, <1>5 DEF Queued
    <3>2. exits[i] = -1
      BY <3>1 DEF FamilyInv, CodesInv, i
    <3> QED
      BY <1>3, <1>4, <3>2
  <2>4. ASSUME NEW u \in Slots, tcb'[u].cur PROVE PendingCode(u)'
    <3> DEFINE z == tcb[u].wait4
    <3>1. tcb[u].cur /\ u \in Runnable
      BY <1>3, <2>4 DEF FamilyInv, SignalsInv
    <3>2. z \in Slots /\ tcb[z].live /\ tcb[z].parent = u /\ tcb[z].st = "ZOMBIE"
      BY <1>0, <3>1 DEF IndInv, EntryConditions, PendingInv
    <3>3. tcb[z].id = tcb[u].pid /\ tcb[z].code = exits[tcb[u].pid]
      BY <1>0, <3>1 DEF FamilyInv, CodesInv, PendingCode
    <3> HIDE DEF z
    <3>4. z # t
      BY <1>1, <3>1, <3>2 DEF Rekilled, Queued
    <3>5. tcb[z].id # i /\ tcb[z].id \in Tids
      BY <1>8, <3>2, <3>4
    <3>6. tcb'[u].wait4 = z /\ tcb'[u].pid = tcb[u].pid
      BY <1>3 DEF z
    <3>7. tcb'[z].id = tcb[z].id /\ tcb'[z].code = tcb[z].code /\ exits'[tcb[u].pid] = exits[tcb[u].pid]
      BY <1>3, <1>4, <3>2, <3>3, <3>4, <3>5
    <3> QED
      BY <3>3, <3>6, <3>7 DEF PendingCode
  <2> QED
    BY <1>7, <2>1, <2>2, <2>3, <2>4 DEF CodesInv
<1> QED
  BY <1>9, <1>10, <1>11, <1>12, <1>13, <1>14, <1>15 DEF FamilyInv

(* The parent is woken with the status of the child it waits for. *)
LEMMA NotifyParentFamily ==
    ASSUME IndInv, FamilyInv, notify_parent
    PROVE  FamilyInv'
<1> DEFINE t == k.t
           p == tcb[t].parent
<1>0. /\ k.fn = "notify" /\ Awaited(t) /\ p \in Queued /\ sched_wake_task(p)
      /\ k' = SwitchTo
      /\ old_tid' = old_tid /\ wait4input' = wait4input /\ exits' = exits
  BY DEF notify_parent
<1>e. tcb' = [tcb EXCEPT ![t].st = "ZOMBIE",
                         ![p].cur = @ \/ tcb[p].mask,
                         ![p].st = WokenState(p)]
  BY DEF notify_parent
<1>1. t \in Slots /\ tcb[t].live /\ t \notin Queued /\ p \in Slots /\ p # t
  <2>1. t \in Slots /\ tcb[t].live /\ t \notin Queued
    BY <1>0 DEF IndInv, EntryConditions, ControlInv
  <2> HIDE DEF p, t
  <2> QED
    BY <1>0, <2>1, QueuedAreSlots DEF IndInv, Queued
<1>2. tcb[p].wait4 = t
  <2> DEFINE w == tcb[p].wait4
  <2>1. w # None /\ tcb[w].id = tcb[t].id
    BY <1>0 DEF Awaited
  <2> HIDE DEF p, t
  <2>2. w \in Slots
    BY <1>1, <2>1 DEF IndInv, TypeOK, TCB
  <2>3. tcb[t].id # 0
    BY <1>1 DEF IndInv, EntryConditions, IdsInv
  <2> HIDE DEF w
  <2>4. tcb[w].live
    BY <2>1, <2>2, <2>3 DEF IndInv, EntryConditions, IdsInv
  <2>5. w = t
    BY <1>1, <2>1, <2>2, <2>4 DEF IndInv, UniqueIds
  <2> QED
    BY <2>5 DEF w
<1>a. tcb[t].parent = p /\ k.t = t
  OBVIOUS
<1> HIDE DEF p, t
<1>3. /\ \A u \in Slots :
           /\ tcb'[u].live = tcb[u].live /\ tcb'[u].id = tcb[u].id /\ tcb'[u].parent = tcb[u].parent
           /\ tcb'[u].mask = tcb[u].mask /\ tcb'[u].wait4 = tcb[u].wait4
           /\ tcb'[u].pid = tcb[u].pid /\ tcb'[u].code = tcb[u].code
           /\ u # p => tcb'[u].cur = tcb[u].cur
      /\ tcb'[p].cur = (tcb[p].cur \/ tcb[p].mask)
  <2> DEFINE x == tcb[p].cur \/ tcb[p].mask
             y == WokenState(p)
  <2>1. tcb \in [Slots -> TCB]
    BY DEF IndInv, TypeOK
  <2>2. tcb' = [tcb EXCEPT ![t].st = "ZOMBIE", ![p].cur = x, ![p].st = y]
    BY <1>e
  <2> HIDE DEF y
  <2>3. ASSUME NEW u \in Slots
        PROVE  /\ tcb'[u].live = tcb[u].live /\ tcb'[u].id = tcb[u].id /\ tcb'[u].parent = tcb[u].parent
               /\ tcb'[u].mask = tcb[u].mask /\ tcb'[u].wait4 = tcb[u].wait4
               /\ tcb'[u].pid = tcb[u].pid /\ tcb'[u].code = tcb[u].code
               /\ u # p => tcb'[u].cur = tcb[u].cur
    <3> HIDE DEF x
    <3> QED
      BY <1>1, <2>1, <2>2, SMTT(30) DEF TCB
  <2>4. tcb'[p].cur = x
    <3> HIDE DEF x
    <3> QED
      BY <1>1, <2>1, <2>2, SMTT(30) DEF TCB
  <2> QED
    BY <2>3, <2>4
<1>4. /\ Runnable' = Runnable \cup {p} /\ Sleeping' = Sleeping \ {p} /\ Queued' = Queued
      /\ Runnable \subseteq Slots /\ Sleeping \subseteq Slots /\ Queued \subseteq Slots
  <2>1. Runnable' = Runnable \cup {p} /\ Sleeping' = Sleeping \ {p}
    BY <1>0, WakeFacts DEF IndInv
  <2> QED
    BY <1>0, <2>1, QueuedAreSlots DEF IndInv, Queued
<1>5. k'.fn = "switch_to"
  BY <1>0 DEF SwitchTo, Call
<1>6. p # wait4input
  <2> SUFFICES ASSUME p = wait4input PROVE FALSE
    OBVIOUS
  <2>1. Quiet(t)
    BY <1>1, <1>a, TasksAssumption DEF FamilyInv, ReaderInv
  <2> QED
    BY <1>0, <1>a, <2>1 DEF Quiet
<1>7. p \in Sleeping => tcb[p].mask
  BY <1>6 DEF FamilyInv, ReaderIsKnown
<1>8. p \notin Sleeping /\ tcb[p].mask => tcb[p].cur
  BY <1>1 DEF FamilyInv, SignalsInv
<1>9. RootInv'
  BY <1>3, RootKept
<1>10. SignalsInv'
  <2>1. \A u \in Slots : /\ tcb[u].cur => u \in Runnable /\ tcb[u].mask
                         /\ tcb[u].mask => tcb[u].cur \/ u \in Sleeping
    BY DEF FamilyInv, SignalsInv
  <2> QED
    BY <1>1, <1>3, <1>4, <2>1 DEF SignalsInv
<1>11. NoOrphans' /\ ExitingInv'
  BY <1>3, <1>4, <1>5 DEF FamilyInv, NoOrphans, ExitingInv
<1>12. WaiterHasChild'
  <2> SUFFICES ASSUME NEW u \in Sleeping', tcb'[u].mask
               PROVE  LET c == tcb'[u].wait4 IN
                      /\ c # None /\ tcb'[c].live /\ tcb'[c].parent = u /\ tcb'[c].id = tcb'[u].pid
                      /\ c \in Queued'
    BY DEF WaiterHasChild
  <2> DEFINE c == tcb[u].wait4
  <2>1. /\ u \in Sleeping /\ tcb[u].mask /\ u \in Slots /\ u # p
        /\ tcb'[u].wait4 = c /\ tcb'[u].pid = tcb[u].pid
    BY <1>3, <1>4
  <2>2. /\ c # None /\ tcb[c].live /\ tcb[c].parent = u /\ tcb[c].id = tcb[u].pid
        /\ c \in Queued \/ c = t
    BY <1>a, <2>1 DEF FamilyInv, WaiterHasChild
  <2> HIDE DEF c
  <2> QED
    BY <1>3, <1>4, <1>a, <2>1, <2>2
<1>13. ReaderIsKnown'
  BY <1>0, <1>3, <1>4 DEF FamilyInv, ReaderIsKnown
<1>14. ReaderInv'
  BY <1>0, <1>3, <1>4, <1>5, <1>6 DEF FamilyInv, ReaderInv, Quiet
<1>15. CodesInv'
  <2>1. \A u \in Queued' : exits'[tcb'[u].id] = -1
    BY <1>0, <1>3, <1>4 DEF FamilyInv, CodesInv
  <2>2. ASSUME NEW u \in Slots, tcb'[u].cur PROVE PendingCode(u)'
    <3>1. CASE tcb[u].cur
      <4>1. tcb[u].wait4 \in Slots
        BY <1>0, <3>1 DEF IndInv, EntryConditions, PendingInv
      <4>2. PendingCode(u)
        BY <1>0, <3>1 DEF FamilyInv, CodesInv
      <4> QED
        BY <1>0, <1>3, <4>1, <4>2 DEF PendingCode
    <3>2. CASE ~tcb[u].cur
      <4>1. u = p /\ tcb[p].mask /\ p \in Sleeping
        BY <1>3, <1>8, <2>2, <3>2
      <4>2. tcb[t].id = tcb[p].pid
        BY <1>2, <4>1 DEF FamilyInv, WaiterHasChild
      <4>3. tcb[t].code = exits[tcb[t].id]
        BY <1>0, <1>a DEF FamilyInv, CodesInv
      <4> QED
        BY <1>0, <1>1, <1>2, <1>3, <4>1, <4>2, <4>3 DEF PendingCode
    <3> QED
      BY <3>1, <3>2
  <2> QED
    BY <1>0, <1>5, <2>1, <2>2 DEF FamilyInv, CodesInv
<1> QED
  BY <1>9, <1>10, <1>11, <1>12, <1>13, <1>14, <1>15 DEF FamilyInv

(* The freed task is nobody's child, reader or zombie any more. *)
LEMMA DestroyFamily ==
    ASSUME IndInv, FamilyInv, task_destroy
    PROVE  FamilyInv'
<1> DEFINE t == k.t
           p == tcb[t].parent
<1>0. /\ k.fn = "destroy"
      /\ k' = IF k.n = None THEN SwitchTo ELSE Call("reaped", None, k.n, 0)
      /\ old_tid' = old_tid /\ wait4input' = wait4input /\ exits' = exits
  BY DEF task_destroy
<1>1. /\ t \in Slots /\ tcb[t].live /\ t \notin Queued /\ tcb[t].id # 1
      /\ IF k.n = None THEN \A u \in Slots : ~(tcb[u].cur /\ tcb[u].wait4 = t)
                       ELSE k.n = p /\ tcb[k.n].wait4 = t
      /\ k.n # None => k.n \in Runnable /\ tcb[k.n].cur
  BY <1>0 DEF IndInv, EntryConditions, ControlInv
<1>2. p \in Slots /\ tcb[t].parent = p
  BY <1>1 DEF IndInv, EntryConditions, IdsInv
<1>e. tcb' = [tcb EXCEPT ![p].kids = _remove_child(@, t), ![t] = NoTask]
  BY DEF task_destroy
<1> HIDE DEF t, p
<1>3. /\ \A u \in Slots : u # t =>
           /\ tcb'[u].live = tcb[u].live /\ tcb'[u].id = tcb[u].id /\ tcb'[u].parent = tcb[u].parent
           /\ tcb'[u].mask = tcb[u].mask /\ tcb'[u].cur = tcb[u].cur
           /\ tcb'[u].wait4 = tcb[u].wait4 /\ tcb'[u].pid = tcb[u].pid
           /\ tcb'[u].code = tcb[u].code /\ tcb'[u].ret = tcb[u].ret
      /\ ~tcb'[t].live /\ ~tcb'[t].mask /\ ~tcb'[t].cur
  <2>1. tcb \in [Slots -> TCB]
    BY DEF IndInv, TypeOK
  <2>2. ~NoTask.live /\ ~NoTask.mask /\ ~NoTask.cur
    BY DEF NoTask, NewTask
  <2>3. tcb'[t] = NoTask
    BY <1>1, <1>2, <1>e, <2>1
  <2>4. \A u \in Slots : u # t => tcb'[u] = IF u = p THEN [tcb[p] EXCEPT !.kids = _remove_child(@, t)]
                                                  ELSE tcb[u]
    BY <1>1, <1>2, <1>e, <2>1
  <2> QED
    BY <2>1, <2>2, <2>3, <2>4 DEF TCB
<1>4. /\ Runnable' = Runnable /\ Sleeping' = Sleeping /\ Queued' = Queued
      /\ Runnable \subseteq Slots /\ Sleeping \subseteq Slots /\ Queued \subseteq Slots
  <2>1. os_q' = os_q /\ sleep_q' = sleep_q
    BY DEF task_destroy
  <2> QED
    BY <2>1, QueuedAreSlots DEF IndInv, Queued, Runnable, Sleeping
<1>5. /\ k'.fn \in {"switch_to", "reaped"}
      /\ k'.fn = "reaped" => k.n # None /\ k'.n = k.n
      /\ k.n # None => k'.fn = "reaped" /\ k'.n = k.n
  BY <1>0 DEF SwitchTo, Call
<1>6. t \notin Runnable /\ t \notin Sleeping
  BY <1>1 DEF Queued
<1>9. RootInv'
  BY <1>3, RootKept
<1>10. SignalsInv'
  BY <1>3, <1>4 DEF FamilyInv, SignalsInv
<1>11. NoOrphans' /\ ExitingInv'
  BY <1>1, <1>3, <1>4, <1>5 DEF FamilyInv, NoOrphans, ExitingInv
<1>12. WaiterHasChild'
  <2> SUFFICES ASSUME NEW u \in Sleeping', tcb'[u].mask
               PROVE  LET c == tcb'[u].wait4 IN
                      /\ c # None /\ tcb'[c].live /\ tcb'[c].parent = u /\ tcb'[c].id = tcb'[u].pid
                      /\ c \in Queued'
    BY DEF WaiterHasChild
  <2> DEFINE c == tcb[u].wait4
  <2>1. /\ u \in Sleeping /\ tcb[u].mask /\ u \in Slots /\ u # t
        /\ tcb'[u].wait4 = c /\ tcb'[u].pid = tcb[u].pid
    BY <1>3, <1>4, <1>6
  <2>2. /\ c # None /\ tcb[c].live /\ tcb[c].parent = u /\ tcb[c].id = tcb[u].pid
        /\ c \in Queued
    BY <1>0, <2>1 DEF FamilyInv, WaiterHasChild
  <2> HIDE DEF c
  <2> QED
    BY <1>1, <1>3, <1>4, <2>1, <2>2
<1>13. ReaderIsKnown'
  BY <1>0, <1>3, <1>4, <1>6 DEF FamilyInv, ReaderIsKnown
<1>14. ReaderInv'
  BY <1>0, <1>3, <1>4, <1>5, <1>6 DEF FamilyInv, ReaderInv, Quiet
<1>15. CodesInv'
  <2>1. \A u \in Queued' : exits'[tcb'[u].id] = -1
    BY <1>0, <1>1, <1>3, <1>4 DEF FamilyInv, CodesInv
  <2>2. ASSUME NEW u \in Slots, tcb'[u].cur, ~(k'.fn = "reaped" /\ k'.n = u) PROVE PendingCode(u)'
    <3> DEFINE z == tcb[u].wait4
    <3>1. u # t /\ tcb[u].cur
      BY <1>3, <2>2
    <3>2. z \in Slots /\ tcb[z].parent = u
      BY <1>0, <3>1 DEF IndInv, EntryConditions, PendingInv
    <3>3. PendingCode(u)
      BY <1>0, <3>1 DEF FamilyInv, CodesInv
    <3>4. z # t
      <4>1. CASE k.n = None
        BY <1>1, <3>1, <4>1
      <4>2. CASE k.n # None
        BY <1>1, <1>2, <1>5, <2>2, <3>2, <4>2
      <4> QED
        BY <4>1, <4>2
    <3> QED
      BY <1>0, <1>3, <3>1, <3>2, <3>3, <3>4 DEF PendingCode
  <2>3. k'.fn = "reaped" => tcb'[k'.n].ret = exits'[tcb'[k'.n].pid]
    <3> SUFFICES ASSUME k'.fn = "reaped" PROVE tcb'[k.n].ret = exits[tcb'[k.n].pid]
      BY <1>0, <1>5
    <3>1. k.n # None /\ k.n \in Slots /\ k.n # t
      BY <1>1, <1>4, <1>5, <1>6
    <3>2. tcb[k.n].ret = exits[tcb[k.n].pid]
      BY <1>0, <3>1 DEF FamilyInv, CodesInv
    <3> QED
      BY <1>3, <3>1, <3>2
  <2> QED
    BY <1>0, <1>5, <2>1, <2>2, <2>3 DEF FamilyInv, CodesInv
<1> QED
  BY <1>9, <1>10, <1>11, <1>12, <1>13, <1>14, <1>15 DEF FamilyInv

(* The signal is toggled off where it was on. *)
LEMMA SigHandledFamily ==
    ASSUME IndInv, FamilyInv, sig_handled
    PROVE  FamilyInv'
<1> DEFINE n == k.n
<1>0. /\ k.fn = "reaped" /\ k' = User
      /\ old_tid' = old_tid /\ wait4input' = wait4input /\ exits' = exits
  BY DEF sig_handled
<1>1. n \in Runnable /\ n \in Slots /\ tcb[n].cur /\ tcb[n].mask /\ n \notin Sleeping
  BY <1>0, QueuedAreSlots
     DEF IndInv, EntryConditions, ControlInv, QueuesDisjoint, FamilyInv, SignalsInv
<1>e. tcb' = [tcb EXCEPT ![n].mask = ~@, ![n].cur = ~@]
  BY DEF sig_handled
<1>a. n = k.n
  OBVIOUS
<1> HIDE DEF n
<1>2. /\ \A u \in Slots :
           /\ tcb'[u].live = tcb[u].live /\ tcb'[u].id = tcb[u].id /\ tcb'[u].parent = tcb[u].parent
           /\ tcb'[u].wait4 = tcb[u].wait4 /\ tcb'[u].pid = tcb[u].pid /\ tcb'[u].code = tcb[u].code
           /\ u # n => tcb'[u].mask = tcb[u].mask /\ tcb'[u].cur = tcb[u].cur
      /\ ~tcb'[n].mask /\ ~tcb'[n].cur
  <2>1. tcb \in [Slots -> TCB]
    BY DEF IndInv, TypeOK
  <2> QED
    BY <1>1, <1>e, <2>1 DEF TCB
<1>3. /\ Runnable' = Runnable /\ Sleeping' = Sleeping /\ Queued' = Queued
      /\ Runnable \subseteq Slots /\ Sleeping \subseteq Slots /\ Queued \subseteq Slots
  <2>1. os_q' = os_q /\ sleep_q' = sleep_q
    BY DEF sig_handled
  <2> QED
    BY <2>1, QueuedAreSlots DEF IndInv, Queued, Runnable, Sleeping
<1>4. k'.fn = "user"
  BY <1>0 DEF User, Call
<1>9. RootInv'
  BY <1>2, RootKept
<1>10. SignalsInv'
  BY <1>2, <1>3 DEF FamilyInv, SignalsInv
<1>11. NoOrphans' /\ ExitingInv'
  BY <1>2, <1>3, <1>4 DEF FamilyInv, NoOrphans, ExitingInv
<1>12. WaiterHasChild'
  <2> SUFFICES ASSUME NEW u \in Sleeping', tcb'[u].mask
               PROVE  LET c == tcb'[u].wait4 IN
                      /\ c # None /\ tcb'[c].live /\ tcb'[c].parent = u /\ tcb'[c].id = tcb'[u].pid
                      /\ c \in Queued'
    BY DEF WaiterHasChild
  <2> DEFINE c == tcb[u].wait4
  <2>1. /\ u \in Sleeping /\ tcb[u].mask /\ u \in Slots
        /\ tcb'[u].wait4 = c /\ tcb'[u].pid = tcb[u].pid
    BY <1>1, <1>2, <1>3
  <2>2. /\ c # None /\ tcb[c].live /\ tcb[c].parent = u /\ tcb[c].id = tcb[u].pid
        /\ c \in Queued
    BY <1>0, <2>1 DEF FamilyInv, WaiterHasChild
  <2> HIDE DEF c
  <2> QED
    BY <1>2, <1>3, <2>1, <2>2
<1>13. ReaderIsKnown'
  BY <1>0, <1>1, <1>2, <1>3 DEF FamilyInv, ReaderIsKnown
<1>14. ReaderInv'
  BY <1>0, <1>1, <1>2, <1>3, <1>4 DEF FamilyInv, ReaderInv, Quiet
<1>15. CodesInv'
  <2>1. \A u \in Queued' : exits'[tcb'[u].id] = -1
    BY <1>0, <1>2, <1>3 DEF FamilyInv, CodesInv
  <2>2. ASSUME NEW u \in Slots, tcb'[u].cur PROVE PendingCode(u)'
    <3>1. u # n /\ tcb[u].cur
      BY <1>2, <2>2
    <3>2. tcb[u].wait4 \in Slots
      BY <1>0, <1>a, <3>1 DEF IndInv, EntryConditions, PendingInv
    <3>3. PendingCode(u)
      BY <1>0, <1>a, <3>1 DEF FamilyInv, CodesInv
    <3> QED
      BY <1>0, <1>2, <3>2, <3>3 DEF PendingCode
  <2> QED
    BY <1>0, <1>4, <2>1, <2>2 DEF FamilyInv, CodesInv
<1> QED
  BY <1>9, <1>10, <1>11, <1>12, <1>13, <1>14, <1>15 DEF FamilyInv

(* The forked task is a child of the running one, and nothing else yet. *)
LEMMA ForkFamily ==
    ASSUME IndInv, FamilyInv, NEW s \in Slots, do_fork(s)
    PROVE  FamilyInv'
<1>0. /\ InUserMode /\ old_tid < MaxTid /\ ~tcb[s].live /\ old_tid' = old_tid + 1
      /\ wait4input' = wait4input /\ exits' = exits /\ k' = k
  BY DEF do_fork, _get_tid
<1>1. /\ me \in Slots /\ me \in Runnable /\ me \notin Sleeping /\ me \in Queued
      /\ ~tcb[me].cur /\ ~tcb[me].mask /\ tcb[me].live
  BY <1>0, UserMasked
<1>2. s # me /\ s \notin Queued /\ s \notin Runnable /\ s \notin Sleeping
  BY <1>0, <1>1 DEF IndInv, QueuesMatchStates, Queued
<1>3. old_tid \in Nat /\ old_tid >= 1 /\ old_tid + 1 \in Tids
  BY <1>0, TasksAssumption DEF IndInv, TypeOK, Tids
<1>4. /\ \A u \in Slots : u # s => Same(u)
      /\ tcb'[s].live /\ tcb'[s].id = old_tid + 1 /\ tcb'[s].parent = me
      /\ ~tcb'[s].mask /\ ~tcb'[s].cur
  <2> DEFINE new == NewTask(old_tid + 1, me, tcb[me].mask)
  <2>1. /\ tcb \in [Slots -> TCB]
        /\ tcb' = [tcb EXCEPT ![s] = new, ![me].kids = Append(@, s)]
    BY DEF IndInv, TypeOK, do_fork, _get_tid
  <2>2. /\ new.live /\ new.id = old_tid + 1 /\ new.parent = me
        /\ ~new.cur /\ (new.mask <=> tcb[me].mask)
    BY DEF NewTask
  <2> HIDE DEF new
  <2>3. tcb'[s] = new /\ tcb'[me] = [tcb[me] EXCEPT !.kids = Append(@, s)]
        /\ \A u \in Slots : u # s /\ u # me => tcb'[u] = tcb[u]
    BY <1>1, <1>2, <2>1
  <2>4. Same(me)
    <3> DEFINE kids == Append(tcb[me].kids, s)
    <3>1. tcb[me] \in TCB /\ tcb'[me] = [tcb[me] EXCEPT !.kids = kids]
      BY <1>1, <2>1, <2>3
    <3> HIDE DEF kids
    <3> QED
      BY <3>1 DEF Same, TCB
  <2>5. \A u \in Slots : u # s => Same(u)
    <3> SUFFICES ASSUME NEW u \in Slots, u # s PROVE Same(u)
      OBVIOUS
    <3>1. CASE u = me
      BY <2>4, <3>1
    <3>2. CASE u # me
      <4>1. tcb'[u] = tcb[u]
        BY <2>3, <3>2
      <4> QED
        BY <4>1 DEF Same
    <3> QED
      BY <3>1, <3>2
  <2> QED
    BY <1>1, <2>2, <2>3, <2>5
<1>5. /\ Runnable' = Runnable \cup {s} /\ Sleeping' = Sleeping /\ Queued' = Queued \cup {s}
      /\ Runnable \subseteq Slots /\ Sleeping \subseteq Slots /\ Queued \subseteq Slots
  <2>1. os_q \in Seq(Slots) /\ os_q' = Append(os_q, s) /\ sleep_q' = sleep_q
    BY DEF IndInv, TypeOK, do_fork
  <2>2. Runnable' = Runnable \cup {s} /\ Sleeping' = Sleeping
    BY <2>1, AppendFacts DEF Runnable, Sleeping
  <2> QED
    BY <2>2, QueuedAreSlots DEF IndInv, Queued
<1>6. k.fn = "user"
  BY <1>0 DEF InUserMode
<1>9. RootInv'
  <2>1. ASSUME NEW u \in Slots, tcb'[u].live
        PROVE  \/ ~(tcb'[u].id = 1)
               \/ tcb[u].live /\ tcb[u].id = 1 /\ tcb'[u].parent = tcb[u].parent
    BY <1>3, <1>4, <2>1 DEF Same
  <2> QED
    BY <2>1, RootKept
<1>10. SignalsInv'
  BY <1>4, <1>5 DEF FamilyInv, SignalsInv, Same
<1>11. NoOrphans' /\ ExitingInv'
  BY <1>0, <1>1, <1>2, <1>4, <1>5, <1>6 DEF FamilyInv, NoOrphans, ExitingInv, Same
<1>12. WaiterHasChild'
  <2> SUFFICES ASSUME NEW u \in Sleeping', tcb'[u].mask
               PROVE  LET c == tcb'[u].wait4 IN
                      /\ c # None /\ tcb'[c].live /\ tcb'[c].parent = u /\ tcb'[c].id = tcb'[u].pid
                      /\ c \in Queued'
    BY DEF WaiterHasChild
  <2> DEFINE c == tcb[u].wait4
  <2>1. /\ u \in Sleeping /\ tcb[u].mask /\ u \in Slots
        /\ tcb'[u].wait4 = c /\ tcb'[u].pid = tcb[u].pid
    BY <1>2, <1>4, <1>5 DEF Same
  <2>2. /\ c # None /\ tcb[c].live /\ tcb[c].parent = u /\ tcb[c].id = tcb[u].pid
        /\ c \in Queued
    BY <1>6, <2>1 DEF FamilyInv, WaiterHasChild
  <2> HIDE DEF c
  <2> QED
    BY <1>2, <1>4, <1>5, <2>1, <2>2 DEF Same
<1>13. ReaderIsKnown'
  BY <1>0, <1>2, <1>4, <1>5 DEF FamilyInv, ReaderIsKnown, Same
<1>14. ReaderInv'
  <2> SUFFICES ASSUME wait4input # None
               PROVE  /\ wait4input \in Sleeping' /\ ~tcb'[wait4input].mask
                      /\ \A c \in Slots : tcb'[c].live /\ tcb'[c].parent = wait4input => Quiet(c)'
    BY <1>0 DEF ReaderInv
  <2>1. wait4input \in Sleeping /\ ~tcb[wait4input].mask /\ wait4input # me /\ wait4input # s
    BY <1>1, <1>2 DEF FamilyInv, ReaderInv
  <2>2. \A c \in Slots : tcb'[c].live /\ tcb'[c].parent = wait4input => Quiet(c)'
    BY <1>0, <1>4, <1>5, <1>6, <2>1 DEF FamilyInv, ReaderInv, Quiet, Same
  <2> QED
    BY <1>4, <1>5, <2>1, <2>2 DEF Same
<1>15. CodesInv'
  <2>1. \A u \in Queued' : exits'[tcb'[u].id] = -1
    <3>1. exits[old_tid + 1] = -1
      BY <1>3 DEF FamilyInv, CodesInv
    <3> QED
      BY <1>0, <1>2, <1>4, <1>5, <3>1 DEF FamilyInv, CodesInv, Same
  <2>2. \A i \in Tids : i > old_tid' => exits'[i] = -1
    BY <1>0, <1>3 DEF FamilyInv, CodesInv, Tids
  <2>3. ASSUME NEW u \in Slots, tcb'[u].cur PROVE PendingCode(u)'
    <3>1. u # s /\ tcb[u].cur
      BY <1>4, <2>3 DEF Same
    <3>2. tcb[u].wait4 \in Slots /\ tcb[u].wait4 # s
      BY <1>0, <1>6, <3>1 DEF IndInv, EntryConditions, PendingInv
    <3>3. PendingCode(u)
      BY <1>6, <3>1 DEF FamilyInv, CodesInv
    <3> QED
      BY <1>0, <1>4, <3>1, <3>2, <3>3 DEF PendingCode, Same
  <2> QED
    BY <1>0, <1>6, <2>1, <2>2, <2>3 DEF CodesInv
<1> QED
  BY <1>9, <1>10, <1>11, <1>12, <1>13, <1>14, <1>15 DEF FamilyInv

(* init alone. *)
LEMMA InitFamily == Init => FamilyInv
<1> SUFFICES ASSUME Init PROVE FamilyInv
  OBVIOUS
<1>1. PICK s \in Slots :
        /\ tcb = [t \in Slots |-> IF t = s THEN NewTask(1, None, FALSE) ELSE NoTask]
        /\ os_q = <<s>>
  BY DEF Init
<1>2. /\ sleep_q = <<>> /\ old_tid = 1 /\ wait4input = None /\ k = Switch
      /\ exits = [p \in Tids |-> -1]
  BY DEF Init
<1>3. \A t \in Slots : /\ tcb[t].parent = None /\ ~tcb[t].cur /\ ~tcb[t].mask
                       /\ t = s => tcb[t].id = 1
  BY <1>1 DEF NewTask, NoTask
<1>4. Runnable = {s} /\ Sleeping = {} /\ Queued = {s}
  BY <1>1, <1>2 DEF Runnable, Sleeping, Queued, ToSet
<1>5. k.fn = "switch"
  BY <1>2 DEF Switch, Call
<1>6. 1 \in Tids
  BY TasksAssumption DEF Tids
<1>7. RootInv /\ SignalsInv /\ NoOrphans /\ ExitingInv
  BY <1>3, <1>4, <1>5 DEF RootInv, SignalsInv, NoOrphans, ExitingInv
<1>8. WaiterHasChild /\ ReaderIsKnown /\ ReaderInv
  BY <1>2, <1>4 DEF WaiterHasChild, ReaderIsKnown, ReaderInv
<1>9. CodesInv
  BY <1>2, <1>3, <1>4, <1>5, <1>6 DEF CodesInv
<1> QED
  BY <1>7, <1>8, <1>9 DEF FamilyInv

(* Every step of programs that look after their children keeps FamilyInv. *)
LEMMA NextFamily == Families /\ IndInv /\ FamilyInv /\ [Next]_vars => FamilyInv'
<1> SUFFICES ASSUME Families, IndInv, FamilyInv, [Next]_vars PROVE FamilyInv'
  OBVIOUS
<1>1. ASSUME NEW s \in Slots, do_fork(s) PROVE FamilyInv'
  BY <1>1, ForkFamily
<1>2. ASSUME NEW code \in Codes, sys_exit(code) PROVE FamilyInv'
  BY <1>2, ExitFamily DEF sys_exit
<1>3. CASE SegFault
  BY <1>3, ExitFamily DEF SegFault
<1>4. ASSUME NEW pid \in Tids, waitpid_ESRCH(pid) PROVE FamilyInv'
  BY <1>4, EsrchFamily
<1>5. ASSUME NEW pid \in Tids, waitpid(pid) PROVE FamilyInv'
  BY <1>5, WaitpidFamily
<1>6. CASE stdin_read
  BY <1>6, StdinReadFamily
<1>7. CASE \/ TimerSwitch \/ idle_loop
           \/ dev_stdin_recall_panic \/ do_exit_panic \/ notify_parent_panic
  BY <1>7, ControlFamily
<1>8. CASE dev_stdin_recall
  BY <1>8, RecallFamily
<1>9. CASE do_exit
  BY <1>9, DoExitFamily
<1>10. CASE notify_parent
  BY <1>10, NotifyParentFamily
<1>11. CASE notify_nobody
  BY <1>11, NotifyNobodyFamily
<1>12. CASE task_destroy_children
  BY <1>12, DestroyChildrenFamily
<1>13. CASE task_destroy
  BY <1>13, DestroyFamily
<1>14. CASE task_switch \/ task_switch_to
  BY <1>14, SwitchFamily
<1>15. CASE resume
  BY <1>15, ResumeFamily
<1>16. CASE sig_handler
  BY <1>16, SigHandlerFamily
<1>17. CASE sig_handled
  BY <1>17, SigHandledFamily
<1>18. CASE UNCHANGED vars
  BY <1>18 DEF vars, FamilyInv, RootInv, SignalsInv, NoOrphans, ExitingInv, WaiterHasChild,
       ReaderIsKnown, ReaderInv, Quiet, CodesInv, PendingCode, Runnable, Sleeping, Queued
<1> QED
  BY <1>1, <1>2, <1>3, <1>4, <1>5, <1>6, <1>7, <1>8, <1>9, <1>10, <1>11, <1>12, <1>13,
     <1>14, <1>15, <1>16, <1>17, <1>18 DEF Next, UserStep, KernelStep

(* FamilyInv holds in every reachable state. *)
LEMMA FamilyInductive == ASSUME Families PROVE Spec => [](IndInv /\ FamilyInv)
<1>1. Init => IndInv /\ FamilyInv
  BY InitIndInv, InitFamily
<1>2. (IndInv /\ FamilyInv) /\ [Next]_vars => (IndInv /\ FamilyInv)'
  BY NextIndInv, NextFamily
<1> QED
  BY <1>1, <1>2, PTL DEF Spec

(* No wake-up is missed: when programs wait for children only and end after
   them, whoever sleeps in waitpid waits for a child that has still to exit. *)
THEOREM WaitersSafe == ASSUME Families PROVE Spec => []WaiterHasChild
<1>1. IndInv /\ FamilyInv => WaiterHasChild
  BY DEF FamilyInv
<1> QED
  BY <1>1, FamilyInductive, PTL

(* Whoever sleeps in read(stdin) is the task the next Enter wakes. *)
THEOREM ReaderSafe == ASSUME Families PROVE Spec => []ReaderIsKnown
<1>1. IndInv /\ FamilyInv => ReaderIsKnown
  BY DEF FamilyInv
<1> QED
  BY <1>1, FamilyInductive, PTL

(* Only the end of sig_handler takes a pending signal away. *)
LEMMA SignalKept ==
    ASSUME IndInv, FamilyInv, Next, ~sig_handled, NEW t \in Slots, tcb[t].cur
    PROVE  tcb'[t].cur
<1>0. tcb \in [Slots -> TCB]
  BY DEF IndInv, TypeOK
<1>1. t \in Queued /\ tcb[t].live
  BY DEF FamilyInv, SignalsInv, Queued, IndInv, QueuesMatchStates
<1>2. ASSUME NEW s \in Slots, do_fork(s) PROVE tcb'[t].cur
  <2>1. /\ t # s /\ InUserMode
        /\ tcb' = [tcb EXCEPT ![s] = NewTask(_get_tid, me, tcb[me].mask), ![me].kids = Append(@, s)]
    BY <1>1, <1>2 DEF do_fork
  <2>2. t # me /\ me \in Slots
    BY <2>1, RunningTask
  <2> QED
    BY <1>0, <2>1, <2>2
<1>3. CASE \/ \E code \in Codes : sys_exit(code)
           \/ SegFault \/ TimerSwitch \/ idle_loop
           \/ dev_stdin_recall_panic \/ do_exit_panic \/ notify_parent_panic
           \/ notify_nobody \/ task_destroy_children
  BY <1>3 DEF sys_exit, SegFault, TimerSwitch, idle_loop, dev_stdin_recall_panic, do_exit_panic,
              notify_parent_panic, notify_nobody, task_destroy_children
<1>4. ASSUME NEW pid \in Tids, waitpid_ESRCH(pid) PROVE tcb'[t].cur
  BY <1>0, <1>4 DEF waitpid_ESRCH, TCB
<1>5. ASSUME NEW pid \in Tids, waitpid(pid) PROVE tcb'[t].cur
  <2>1. InUserMode /\ \E w : tcb' = [tcb EXCEPT ![me].wait4 = w, ![me].mask = TRUE, ![me].pid = pid,
                                             ![me].st = "WAITING"]
    BY <1>5 DEF waitpid
  <2>2. t # me /\ me \in Slots
    BY <2>1, RunningTask
  <2> QED
    BY <1>0, <2>1, <2>2
<1>6. CASE stdin_read
  BY <1>0, <1>6 DEF stdin_read, TCB
<1>8. CASE dev_stdin_recall
  BY <1>0, <1>8 DEF dev_stdin_recall, TCB
<1>9. CASE do_exit
  BY <1>0, <1>9 DEF do_exit, TCB
<1>10. CASE notify_parent
  <2> DEFINE c == k.t
             p == tcb[c].parent
             x == WokenState(p)
             y == tcb[p].cur \/ tcb[p].mask
  <2>1. tcb' = [tcb EXCEPT ![c].st = "ZOMBIE", ![p].cur = y, ![p].st = x]
    BY <1>10 DEF notify_parent
  <2>2. t = p => y
    OBVIOUS
  <2> HIDE DEF c, p, x, y
  <2> QED
    BY <1>0, <2>1, <2>2 DEF TCB
<1>13. CASE task_destroy
  <2> DEFINE c == k.t
             p == tcb[c].parent
  <2>1. tcb' = [tcb EXCEPT ![p].kids = _remove_child(@, c), ![c] = NoTask] /\ c # t
    BY <1>1, <1>13 DEF task_destroy, IndInv, EntryConditions, ControlInv
  <2> HIDE DEF c, p
  <2> QED
    BY <1>0, <2>1 DEF TCB
<1>14. CASE task_switch \/ task_switch_to
  BY <1>0, <1>14, SMTT(30) DEF task_switch, task_switch_to, Preempted, TCB
<1>15. CASE resume
  BY <1>0, <1>15 DEF resume, TCB
<1>16. CASE sig_handler
  BY <1>0, <1>16 DEF sig_handler, TCB
<1> QED
  BY <1>2, <1>3, <1>4, <1>5, <1>6, <1>8, <1>9, <1>10, <1>13, <1>14, <1>15, <1>16
     DEF Next, UserStep, KernelStep

(* Every waitpid returns the status its child passed to exit, or the one the
   kernel ended it with. *)
THEOREM ExitCodesSafe == ASSUME Families PROVE Spec => ExitCodeDelivered
<1> DEFINE Delivers == \A t \in Slots : tcb[t].cur /\ ~tcb'[t].cur =>
                                         tcb'[t].ret = exits[tcb[t].pid]
<1>1. ASSUME IndInv, FamilyInv, [Next]_vars PROVE [Delivers]_vars
  <2>0. tcb \in [Slots -> TCB]
    BY <1>1 DEF IndInv, TypeOK
  <2> SUFFICES ASSUME NEW t \in Slots, tcb[t].cur, ~tcb'[t].cur, Next
               PROVE  tcb'[t].ret = exits[tcb[t].pid]
    BY <1>1
  <2>1. CASE sig_handled
    <3>1. t = k.n /\ k.fn = "reaped"
      <4>1. k.fn = "reaped" /\ tcb' = [tcb EXCEPT ![k.n].mask = ~@, ![k.n].cur = ~@]
        BY <2>1 DEF sig_handled
      <4> QED
        BY <2>0, <4>1 DEF TCB
    <3>2. t # None
      BY TasksAssumption
    <3>3. tcb[t].ret = exits[tcb[t].pid]
      BY <1>1, <3>1, <3>2 DEF FamilyInv, CodesInv
    <3>4. tcb'[t].ret = tcb[t].ret
      BY <2>0, <2>1 DEF sig_handled, TCB
    <3> QED
      BY <3>3, <3>4
  <2>2. CASE ~sig_handled
    BY <1>1, <2>2, SignalKept
  <2> QED
    BY <2>1, <2>2
<1> QED
  BY <1>1, FamilyInductive, PTL DEF Spec, ExitCodeDelivered

-----------------------------------------------------------------------------
(* What the steps of the kernel do to the tasks and the queues, in the terms of the
   two invariants that follow *)

(* The steps that move no task, make no zombie and change no family. *)
Still ==
    /\ \A u \in Slots : Same(u) /\ (tcb'[u].st = "ZOMBIE" <=> tcb[u].st = "ZOMBIE")
    /\ UNCHANGED <<os_q, sleep_q, exits>>
    /\ k.fn # "reaped" /\ k'.fn \notin {"notify", "reaped"}

(* Programs that end, interrupts, panics and the scheduler. *)
StillNext ==
    \/ SegFault \/ \E code \in Codes : sys_exit(code)
    \/ TimerSwitch \/ idle_loop \/ \E pid \in Tids : waitpid_ESRCH(pid)
    \/ dev_stdin_recall_panic \/ do_exit_panic \/ notify_parent_panic
    \/ notify_nobody \/ task_destroy_children
    \/ task_switch \/ task_switch_to \/ resume \/ sig_handler

(* They are such steps. *)
LEMMA StillSteps == ASSUME IndInv, StillNext PROVE Still
<1> USE DEF Still
<1>t. tcb \in [Slots -> TCB]
  BY DEF IndInv, TypeOK
<1>1. ASSUME tcb' = tcb
      PROVE  \A u \in Slots : Same(u) /\ (tcb'[u].st = "ZOMBIE" <=> tcb[u].st = "ZOMBIE")
  BY <1>1, SameTcb
<1>2. CASE SegFault \/ \E code \in Codes : sys_exit(code)
  BY <1>1, <1>2 DEF SegFault, sys_exit, InUserMode, Call
<1>3. CASE TimerSwitch \/ idle_loop \/ dev_stdin_recall_panic
  <2>1. /\ tcb' = tcb /\ UNCHANGED <<os_q, sleep_q, exits>>
        /\ k.fn \in {"user", "idle"} /\ (k' = Switch \/ k' = Panic)
    BY <1>3 DEF TimerSwitch, idle_loop, dev_stdin_recall_panic, InUserMode, KeyboardOn
  <2> QED
    BY <1>1, <2>1 DEF Switch, Panic, Call
<1>4. CASE do_exit_panic \/ notify_parent_panic \/ notify_nobody \/ task_destroy_children
  <2>1. /\ tcb' = tcb /\ UNCHANGED <<os_q, sleep_q, exits>>
        /\ k.fn # "reaped"
        /\ \/ k' = Panic \/ \E t : k' = Call("destroy", t, None, 0)
           \/ \E t, c : k' = Call("exit", t, None, c)
    BY <1>4 DEF do_exit_panic, notify_parent_panic, notify_nobody, task_destroy_children
  <2> QED
    BY <1>1, <2>1 DEF Panic, Call
<1>5. ASSUME NEW pid \in Tids, waitpid_ESRCH(pid) PROVE Still
  <2>1. /\ tcb' = [tcb EXCEPT ![me].ret = WAITPID] /\ k' = k /\ k.fn = "user"
        /\ UNCHANGED <<os_q, sleep_q, exits>>
    BY <1>5 DEF waitpid_ESRCH, InUserMode
  <2>2. \A u \in Slots : Same(u) /\ (tcb'[u].st = "ZOMBIE" <=> tcb[u].st = "ZOMBIE")
    BY <1>t, <2>1 DEF Same, TCB
  <2> QED
    BY <2>1, <2>2
<1>6. CASE task_switch \/ task_switch_to
  <2>1. /\ tcb' = Preempted /\ UNCHANGED <<os_q, sleep_q, exits>>
        /\ k.fn \in {"switch", "switch_to"}
        /\ (\E n : k' = Call("resume", None, n, 0)) \/ k' = Idle \/ k' = Panic
    BY <1>6 DEF task_switch, task_switch_to
  <2>2. \A u \in Slots : Same(u) /\ (tcb'[u].st = "ZOMBIE" <=> tcb[u].st = "ZOMBIE")
    BY <1>t, <2>1 DEF Preempted, Same, TCB
  <2>3. k'.fn \in {"resume", "idle", "panic"}
    BY <2>1 DEF Idle, Panic, Call
  <2> QED
    BY <2>1, <2>2, <2>3
<1>7. CASE resume \/ sig_handler
  <2> DEFINE n == k.n
  <2>1. /\ k.fn = "resume" /\ UNCHANGED <<os_q, sleep_q, exits>>
        /\ k' = User \/ \E t : k' = Call("destroy", t, n, 0)
        /\ \/ tcb' = [tcb EXCEPT ![n].st = "RUNNING"]
           \/ \E x : tcb' = [tcb EXCEPT ![n].st = "RUNNING", ![n].ret = x]
    BY <1>7 DEF resume, sig_handler
  <2>2. n \in Runnable /\ n \in Slots /\ tcb[n].st # "ZOMBIE"
    BY <2>1, QueuedAreSlots DEF IndInv, EntryConditions, ControlInv, QueuesMatchStates
  <2> HIDE DEF n
  <2>3. \A u \in Slots : Same(u) /\ (tcb'[u].st = "ZOMBIE" <=> tcb[u].st = "ZOMBIE")
    <3>1. CASE tcb' = [tcb EXCEPT ![n].st = "RUNNING"]
      BY <1>t, <2>2, <3>1 DEF Same, TCB
    <3>2. ASSUME NEW x, tcb' = [tcb EXCEPT ![n].st = "RUNNING", ![n].ret = x]
          PROVE  \A u \in Slots : Same(u) /\ (tcb'[u].st = "ZOMBIE" <=> tcb[u].st = "ZOMBIE")
      BY <1>t, <2>2, <3>2 DEF Same, TCB
    <3> QED
      BY <2>1, <3>1, <3>2
  <2>4. k'.fn \in {"user", "destroy"}
    BY <2>1 DEF User, Call
  <2> QED
    BY <2>1, <2>3, <2>4
<1> QED
  BY <1>2, <1>3, <1>4, <1>5, <1>6, <1>7 DEF StillNext

(* A still step leaves the same tasks queued. *)
LEMMA StillQueues == ASSUME Still PROVE Runnable' = Runnable /\ Sleeping' = Sleeping /\ Queued' = Queued
  BY DEF Still, Runnable, Sleeping, Queued

(* do_fork: the child is a fresh task in the run queue. *)
LEMMA ForkEffect ==
    ASSUME IndInv, FamilyInv, NEW s \in Slots, do_fork(s)
    PROVE  /\ me \in Slots /\ me \in Queued /\ tcb[me].live /\ s # me /\ s \notin Queued /\ ~tcb[s].live
           /\ \A u \in Slots : u # s => Same(u) /\ tcb'[u].st = tcb[u].st
           /\ tcb'[s].id = old_tid + 1 /\ tcb'[s].parent = me /\ tcb'[s].st = "READY" /\ tcb'[s].pid = 0
           /\ Runnable' = Runnable \cup {s} /\ Sleeping' = Sleeping /\ Queued' = Queued \cup {s}
           /\ k.fn = "user" /\ k'.fn = "user" /\ exits' = exits
<1>0. InUserMode /\ ~tcb[s].live /\ k' = k /\ exits' = exits
  BY DEF do_fork
<1>1. me \in Slots /\ me \in Runnable /\ me \in Queued /\ ~tcb[me].cur /\ tcb[me].live
  BY <1>0, UserMasked
<1>2. s # me /\ s \notin Queued
  BY <1>0, <1>1 DEF IndInv, QueuesMatchStates, Queued
<1>3. /\ \A u \in Slots : u # s => Same(u) /\ tcb'[u].st = tcb[u].st
      /\ tcb'[s].id = old_tid + 1 /\ tcb'[s].parent = me /\ tcb'[s].st = "READY" /\ tcb'[s].pid = 0
  <2> DEFINE new == NewTask(old_tid + 1, me, tcb[me].mask)
             kids == Append(tcb[me].kids, s)
  <2>1. /\ tcb \in [Slots -> TCB]
        /\ tcb' = [tcb EXCEPT ![s] = new, ![me].kids = Append(@, s)]
    BY DEF IndInv, TypeOK, do_fork, _get_tid
  <2>2. new.id = old_tid + 1 /\ new.parent = me /\ new.st = "READY" /\ new.pid = 0
    BY DEF NewTask
  <2> HIDE DEF new
  <2>3. tcb'[s] = new /\ tcb'[me] = [tcb[me] EXCEPT !.kids = kids]
        /\ \A u \in Slots : u # s /\ u # me => tcb'[u] = tcb[u]
    BY <1>1, <1>2, <2>1
  <2> HIDE DEF kids
  <2>4. Same(me) /\ tcb'[me].st = tcb[me].st
    <3>1. tcb[me] \in TCB /\ tcb'[me] = [tcb[me] EXCEPT !.kids = kids]
      BY <1>1, <2>1, <2>3
    <3> QED
      BY <3>1 DEF Same, TCB
  <2>5. ASSUME NEW u \in Slots, u # s PROVE Same(u) /\ tcb'[u].st = tcb[u].st
    <3>1. CASE u = me
      BY <2>4, <3>1
    <3>2. CASE u # me
      <4>1. tcb'[u] = tcb[u]
        BY <2>3, <2>5, <3>2
      <4> QED
        BY <4>1 DEF Same
    <3> QED
      BY <3>1, <3>2
  <2> QED
    BY <2>2, <2>3, <2>5
<1>4. Runnable' = Runnable \cup {s} /\ Sleeping' = Sleeping
  <2>1. os_q \in Seq(Slots) /\ os_q' = Append(os_q, s) /\ sleep_q' = sleep_q
    BY DEF IndInv, TypeOK, do_fork
  <2> QED
    BY <2>1, AppendFacts DEF Runnable, Sleeping
<1>5. Queued' = Queued \cup {s}
  BY <1>4 DEF Queued
<1>6. k.fn = "user" /\ k'.fn = "user"
  BY <1>0 DEF InUserMode
<1> QED
  BY <1>0, <1>1, <1>2, <1>3, <1>4, <1>5, <1>6

(* read(stdin): the running task sleeps, with SIGCHLD masked. *)
LEMMA ReadEffect ==
    ASSUME IndInv, FamilyInv, stdin_read
    PROVE  /\ me \in Slots /\ me \in Runnable
           /\ \A u \in Slots : Same(u) /\ (tcb'[u].st = "ZOMBIE" <=> tcb[u].st = "ZOMBIE")
           /\ Sleeping' = Sleeping \cup {me} /\ Queued' = Queued
           /\ k'.fn = "switch" /\ exits' = exits
<1>0. /\ InUserMode /\ sched_sleep_task(me) /\ k' = Switch /\ exits' = exits
      /\ tcb' = [tcb EXCEPT ![me].st = "WAITING"]
  BY DEF stdin_read
<1>1. me \in Slots /\ me \in Runnable /\ me \in Queued
  BY <1>0, UserMasked
<1>2. tcb[me].st # "ZOMBIE"
  BY <1>1 DEF IndInv, QueuesMatchStates
<1>3. \A u \in Slots : Same(u) /\ (tcb'[u].st = "ZOMBIE" <=> tcb[u].st = "ZOMBIE")
  <2>1. tcb \in [Slots -> TCB]
    BY DEF IndInv, TypeOK
  <2> QED
    BY <1>0, <1>1, <1>2, <2>1 DEF Same, TCB
<1>4. Runnable' = Runnable \ {me} /\ Sleeping' = Sleeping \cup {me}
  BY <1>0, <1>1, SleepFacts DEF IndInv
<1> QED
  BY <1>0, <1>1, <1>3, <1>4 DEF Queued, Switch, Call

(* waitpid: the running task sleeps, with SIGCHLD unmasked, until pid ends. *)
LEMMA WaitEffect ==
    ASSUME IndInv, FamilyInv, NEW pid \in Tids, waitpid(pid)
    PROVE  /\ me \in Slots /\ me \in Runnable
           /\ \A u \in Slots :
                /\ tcb'[u].live = tcb[u].live /\ tcb'[u].id = tcb[u].id /\ tcb'[u].parent = tcb[u].parent
                /\ tcb'[u].st = "ZOMBIE" <=> tcb[u].st = "ZOMBIE"
                /\ u # me => Same(u)
           /\ tcb'[me].pid = pid /\ tcb'[me].mask
           /\ Sleeping' = Sleeping \cup {me} /\ Queued' = Queued
           /\ k'.fn = "switch" /\ exits' = exits
           /\ \E w \in Queued : w \in Slots /\ tcb[w].id = pid
<1> DEFINE w == sched_get_tcb(pid)
<1>0. /\ InUserMode /\ sched_sleep_task(me) /\ k' = Switch /\ exits' = exits /\ w # None
      /\ tcb' = [tcb EXCEPT ![me].wait4 = w, ![me].mask = TRUE, ![me].pid = pid, ![me].st = "WAITING"]
  BY DEF waitpid
<1>1. me \in Slots /\ me \in Runnable /\ me \in Queued
  BY <1>0, UserMasked
<1>2. tcb[me].st # "ZOMBIE"
  BY <1>1 DEF IndInv, QueuesMatchStates
<1>5. \E x \in Queued : x \in Slots /\ tcb[x].id = pid
  <2>1. Queued \subseteq Slots
    BY QueuedAreSlots DEF IndInv, Queued
  <2>2. \E x \in Queued : tcb[x].id = pid
    <3>1. (~\E x \in Queued : tcb[x].id = pid) => sched_get_tcb(pid) = None
      BY DEF sched_get_tcb
    <3> QED
      BY <1>0, <3>1
  <2> QED
    BY <2>1, <2>2
<1> HIDE DEF w
<1>3. /\ \A u \in Slots :
           /\ tcb'[u].live = tcb[u].live /\ tcb'[u].id = tcb[u].id /\ tcb'[u].parent = tcb[u].parent
           /\ tcb'[u].st = "ZOMBIE" <=> tcb[u].st = "ZOMBIE"
           /\ u # me => Same(u)
      /\ tcb'[me].pid = pid /\ tcb'[me].mask
  <2>1. tcb \in [Slots -> TCB]
    BY DEF IndInv, TypeOK
  <2>2. /\ tcb'[me] = [tcb[me] EXCEPT !.wait4 = w, !.mask = TRUE, !.pid = pid, !.st = "WAITING"]
        /\ \A u \in Slots : u # me => tcb'[u] = tcb[u]
    BY <1>0, <1>1, <2>1
  <2>3. /\ tcb'[me].live = tcb[me].live /\ tcb'[me].id = tcb[me].id /\ tcb'[me].parent = tcb[me].parent
        /\ tcb'[me].st = "WAITING" /\ tcb'[me].pid = pid /\ tcb'[me].mask
    BY <1>1, <2>1, <2>2 DEF TCB
  <2>4. \A u \in Slots : u # me => Same(u)
    BY <2>2 DEF Same
  <2> QED
    BY <1>2, <2>2, <2>3, <2>4
<1>4. Runnable' = Runnable \ {me} /\ Sleeping' = Sleeping \cup {me}
  BY <1>0, <1>1, SleepFacts DEF IndInv
<1> QED
  BY <1>0, <1>1, <1>3, <1>4, <1>5 DEF Queued, Switch, Call

(* Enter moves the reader back to the run queue. *)
LEMMA RecallEffect ==
    ASSUME IndInv, FamilyInv, dev_stdin_recall
    PROVE  /\ \A u \in Slots : Same(u) /\ (tcb'[u].st = "ZOMBIE" <=> tcb[u].st = "ZOMBIE")
           /\ Sleeping' = Sleeping \ {wait4input} /\ Queued' = Queued
           /\ k' = k /\ k.fn \in {"user", "idle"} /\ exits' = exits
           /\ ~tcb[wait4input].mask
<1> DEFINE w == wait4input
<1>0. k.fn \in {"user", "idle"} /\ w \in Queued /\ sched_wake_task(w) /\ k' = k /\ exits' = exits
  BY DEF dev_stdin_recall, KeyboardOn
<1>1. w \in Slots /\ tcb[w].st # "ZOMBIE" /\ WokenState(w) # "ZOMBIE" /\ ~tcb[w].mask
  <2>1. w \in Slots /\ w # None
    BY <1>0, QueuedAreSlots, TasksAssumption DEF IndInv, Queued
  <2> QED
    BY <1>0, <2>1 DEF IndInv, QueuesMatchStates, Queued, WokenState, FamilyInv, ReaderInv
<1>2. \A u \in Slots : Same(u) /\ (tcb'[u].st = "ZOMBIE" <=> tcb[u].st = "ZOMBIE")
  <2> DEFINE x == WokenState(w)
  <2>1. tcb \in [Slots -> TCB] /\ tcb' = [tcb EXCEPT ![w].ret = LINE, ![w].st = x]
    BY DEF IndInv, TypeOK, dev_stdin_recall
  <2>2. x # "ZOMBIE"
    BY <1>1
  <2> HIDE DEF x, w
  <2> QED
    BY <1>1, <2>1, <2>2 DEF Same, TCB
<1>3. Runnable' = Runnable \cup {w} /\ Sleeping' = Sleeping \ {w}
  BY <1>0, WakeFacts DEF IndInv
<1> QED
  BY <1>0, <1>1, <1>2, <1>3 DEF Queued

(* do_exit takes the task out of its queue. *)
LEMMA DoExitEffect ==
    ASSUME IndInv, FamilyInv, do_exit
    PROVE  /\ k.fn = "exit" /\ k.t \in Slots /\ tcb[k.t].live
           /\ \A u \in Slots :
                /\ tcb'[u].live = tcb[u].live /\ tcb'[u].id = tcb[u].id /\ tcb'[u].parent = tcb[u].parent
                /\ tcb'[u].cur = tcb[u].cur /\ tcb'[u].wait4 = tcb[u].wait4 /\ tcb'[u].st = tcb[u].st
                /\ tcb'[u].pid = tcb[u].pid /\ tcb'[u].mask = tcb[u].mask
           /\ Runnable' = Runnable \ {k.t} /\ Sleeping' = Sleeping \ {k.t} /\ Queued' = Queued \ {k.t}
           /\ \/ tcb[k.t].id = 1 /\ k'.fn = "switch_to"
              \/ tcb[k.t].id # 1 /\ k'.fn = "notify" /\ k'.t = k.t
           /\ \A i \in Tids : exits'[i] = -1 => exits[i] = -1
<1> DEFINE t == k.t
<1>0. /\ k.fn = "exit" /\ ~Leaked(t) /\ sched_remove(t)
      /\ k' = IF tcb[t].id = 1 THEN SwitchTo ELSE Call("notify", t, None, 0)
      /\ exits' = IF exits[tcb[t].id] = -1 THEN [exits EXCEPT ![tcb[t].id] = k.code] ELSE exits
      /\ tcb' = [tcb EXCEPT ![t].code = k.code]
  BY DEF do_exit
<1>1. t \in Slots /\ tcb[t].live
  BY <1>0 DEF IndInv, EntryConditions, ControlInv
<1> HIDE DEF t
<1>2. \A u \in Slots :
           /\ tcb'[u].live = tcb[u].live /\ tcb'[u].id = tcb[u].id /\ tcb'[u].parent = tcb[u].parent
           /\ tcb'[u].cur = tcb[u].cur /\ tcb'[u].wait4 = tcb[u].wait4 /\ tcb'[u].st = tcb[u].st
           /\ tcb'[u].pid = tcb[u].pid /\ tcb'[u].mask = tcb[u].mask
  <2>1. tcb \in [Slots -> TCB]
    BY DEF IndInv, TypeOK
  <2> QED
    BY <1>0, <1>1, <2>1 DEF TCB
<1>3. Runnable' = Runnable \ {t} /\ Sleeping' = Sleeping \ {t}
  BY <1>0, <1>1, RemoveFacts DEF IndInv
<1>4. \/ tcb[t].id = 1 /\ k'.fn = "switch_to"
      \/ tcb[t].id # 1 /\ k'.fn = "notify" /\ k'.t = t
  BY <1>0 DEF SwitchTo, Call
<1>5. \A i \in Tids : exits'[i] = -1 => exits[i] = -1
  <2>1. exits \in [Tids -> Status \cup {-1}]
    BY DEF IndInv, TypeOK
  <2> QED
    BY <1>0, <2>1
<1> QED
  BY <1>0, <1>1, <1>2, <1>3, <1>4, <1>5 DEF Queued, t

(* The exiting task becomes a zombie; its parent gets the signal, if it unmasked it,
   and is runnable. *)
LEMMA NotifyEffect ==
    ASSUME IndInv, FamilyInv, notify_parent
    PROVE  LET t == k.t
               p == tcb[k.t].parent
           IN  /\ k.fn = "notify" /\ t \in Slots /\ tcb[t].live /\ tcb[t].id # 1 /\ Awaited(t)
               /\ p \in Slots /\ p \in Queued /\ p # t
               /\ \A u \in Slots :
                    /\ tcb'[u].live = tcb[u].live /\ tcb'[u].id = tcb[u].id /\ tcb'[u].parent = tcb[u].parent
                    /\ tcb'[u].wait4 = tcb[u].wait4 /\ tcb'[u].pid = tcb[u].pid /\ tcb'[u].mask = tcb[u].mask
                    /\ tcb[u].cur => tcb'[u].cur
                    /\ u # t /\ tcb'[u].st = "ZOMBIE" => tcb[u].st = "ZOMBIE"
               /\ tcb[p].mask => tcb'[p].cur
               /\ Runnable' = Runnable \cup {p} /\ Sleeping' = Sleeping \ {p} /\ Queued' = Queued
               /\ k'.fn = "switch_to" /\ exits' = exits
<1> DEFINE t == k.t
           p == tcb[t].parent
           x == WokenState(p)
<1>0. /\ k.fn = "notify" /\ p \in Queued /\ sched_wake_task(p) /\ k' = SwitchTo /\ exits' = exits
      /\ Awaited(t)
      /\ tcb' = [tcb EXCEPT ![t].st = "ZOMBIE", ![p].cur = @ \/ tcb[p].mask, ![p].st = x]
  BY DEF notify_parent
<1>1. t \in Slots /\ tcb[t].live /\ t \notin Queued /\ tcb[t].id # 1
  BY <1>0 DEF IndInv, EntryConditions, ControlInv
<1>2. p \in Slots /\ p # t /\ x # "ZOMBIE"
  BY <1>0, <1>1, QueuedAreSlots DEF IndInv, Queued, WokenState, QueuesMatchStates
<1>3. Runnable' = Runnable \cup {p} /\ Sleeping' = Sleeping \ {p} /\ Queued' = Queued
  <2>1. Runnable' = Runnable \cup {p} /\ Sleeping' = Sleeping \ {p}
    BY <1>0, WakeFacts DEF IndInv
  <2> QED
    BY <1>0, <2>1 DEF Queued
<1>5. k'.fn = "switch_to"
  BY <1>0 DEF SwitchTo, Call
<1> HIDE DEF p, t, x
<1>4. /\ \A u \in Slots :
           /\ tcb'[u].live = tcb[u].live /\ tcb'[u].id = tcb[u].id /\ tcb'[u].parent = tcb[u].parent
           /\ tcb'[u].wait4 = tcb[u].wait4 /\ tcb'[u].pid = tcb[u].pid /\ tcb'[u].mask = tcb[u].mask
           /\ tcb[u].cur => tcb'[u].cur
           /\ u # t /\ tcb'[u].st = "ZOMBIE" => tcb[u].st = "ZOMBIE"
      /\ tcb[p].mask => tcb'[p].cur
  <2>1. tcb \in [Slots -> TCB]
    BY DEF IndInv, TypeOK
  <2> QED
    BY <1>0, <1>1, <1>2, <2>1 DEF TCB
<1> QED
  BY <1>0, <1>1, <1>2, <1>3, <1>4, <1>5 DEF t, p

(* task_destroy frees the task and changes no other. *)
LEMMA DestroyEffect ==
    ASSUME IndInv, FamilyInv, task_destroy
    PROVE  /\ k.fn = "destroy" /\ k.t \in Slots /\ tcb[k.t].live /\ k.t \notin Queued /\ tcb[k.t].kids = <<>>
           /\ \A u \in Slots : u # k.t => Same(u) /\ tcb'[u].st = tcb[u].st
           /\ ~tcb'[k.t].live
           /\ Runnable' = Runnable /\ Sleeping' = Sleeping /\ Queued' = Queued /\ exits' = exits
           /\ \/ k.n = None /\ k'.fn = "switch_to"
              \/ k.n # None /\ k'.fn = "reaped" /\ k'.n = k.n /\ tcb[k.n].wait4 = k.t
<1> DEFINE t == k.t
           p == tcb[t].parent
<1>0. /\ k.fn = "destroy" /\ tcb[t].kids = <<>> /\ exits' = exits
      /\ os_q' = os_q /\ sleep_q' = sleep_q
      /\ k' = IF k.n = None THEN SwitchTo ELSE Call("reaped", None, k.n, 0)
      /\ tcb' = [tcb EXCEPT ![p].kids = _remove_child(@, t), ![t] = NoTask]
  BY DEF task_destroy
<1>1. t \in Slots /\ tcb[t].live /\ t \notin Queued /\ tcb[t].id # 1 /\ (k.n # None => tcb[k.n].wait4 = t)
  BY <1>0 DEF IndInv, EntryConditions, ControlInv
<1>2. p \in Slots
  BY <1>1 DEF IndInv, EntryConditions, IdsInv
<1> HIDE DEF t, p
<1>3. (\A u \in Slots : u # t => Same(u) /\ tcb'[u].st = tcb[u].st) /\ ~tcb'[t].live
  <2>1. tcb \in [Slots -> TCB]
    BY DEF IndInv, TypeOK
  <2>2. ~NoTask.live
    BY DEF NoTask, NewTask
  <2>3. tcb'[t] = NoTask
    BY <1>0, <1>1, <1>2, <2>1
  <2>4. \A u \in Slots : u # t => tcb'[u] = IF u = p THEN [tcb[p] EXCEPT !.kids = _remove_child(@, t)]
                                                  ELSE tcb[u]
    BY <1>0, <1>1, <1>2, <2>1
  <2> QED
    BY <2>1, <2>2, <2>3, <2>4 DEF TCB, Same
<1>4. Runnable' = Runnable /\ Sleeping' = Sleeping /\ Queued' = Queued
  BY <1>0 DEF Queued, Runnable, Sleeping
<1>5. \/ k.n = None /\ k'.fn = "switch_to"
      \/ k.n # None /\ k'.fn = "reaped" /\ k'.n = k.n
  BY <1>0 DEF SwitchTo, Call
<1> QED
  BY <1>0, <1>1, <1>3, <1>4, <1>5 DEF t

(* sig_handler toggles the signal of the parent, which continues. *)
LEMMA HandledEffect ==
    ASSUME IndInv, FamilyInv, sig_handled
    PROVE  /\ k.fn = "reaped" /\ k.n \in Slots /\ k.n \in Runnable
           /\ \A u \in Slots :
                /\ tcb'[u].live = tcb[u].live /\ tcb'[u].id = tcb[u].id /\ tcb'[u].parent = tcb[u].parent
                /\ tcb'[u].pid = tcb[u].pid /\ tcb'[u].wait4 = tcb[u].wait4 /\ tcb'[u].st = tcb[u].st
                /\ u # k.n => tcb'[u].cur = tcb[u].cur /\ tcb'[u].mask = tcb[u].mask
           /\ Runnable' = Runnable /\ Sleeping' = Sleeping /\ Queued' = Queued
           /\ k'.fn = "user" /\ exits' = exits
<1> DEFINE n == k.n
<1>0. /\ k.fn = "reaped" /\ k' = User /\ exits' = exits /\ os_q' = os_q /\ sleep_q' = sleep_q
      /\ tcb' = [tcb EXCEPT ![n].mask = ~@, ![n].cur = ~@]
  BY DEF sig_handled
<1>1. n \in Slots /\ n \in Runnable
  BY <1>0, QueuedAreSlots DEF IndInv, EntryConditions, ControlInv
<1> HIDE DEF n
<1>2. \A u \in Slots :
           /\ tcb'[u].live = tcb[u].live /\ tcb'[u].id = tcb[u].id /\ tcb'[u].parent = tcb[u].parent
           /\ tcb'[u].pid = tcb[u].pid /\ tcb'[u].wait4 = tcb[u].wait4 /\ tcb'[u].st = tcb[u].st
           /\ u # n => tcb'[u].cur = tcb[u].cur /\ tcb'[u].mask = tcb[u].mask
  <2>1. tcb \in [Slots -> TCB]
    BY DEF IndInv, TypeOK
  <2> QED
    BY <1>0, <1>1, <2>1 DEF TCB
<1>3. Runnable' = Runnable /\ Sleeping' = Sleeping /\ Queued' = Queued
  BY <1>0 DEF Queued, Runnable, Sleeping
<1>4. k'.fn = "user"
  BY <1>0 DEF User, Call
<1> QED
  BY <1>0, <1>1, <1>2, <1>3, <1>4 DEF n

-----------------------------------------------------------------------------
(* Zombies that are waited for *)

(* A task whose waitpid has not seen its child's exit is still asleep in it, also
   while that child is in do_exit. *)
AwakeInv ==
    /\ \A p \in Queued : tcb[p].pid # 0 /\ exits[tcb[p].pid] = -1 => p \in Sleeping /\ tcb[p].mask
    /\ k.fn = "notify" =>
        LET p == tcb[k.t].parent IN
        p \in Queued /\ tcb[p].pid = tcb[k.t].id => p \in Sleeping /\ tcb[p].mask

(* If the parent of z waits for it, it has the signal pending, and is not yet past
   sig_handler. *)
Reaped(z) ==
    LET p == tcb[z].parent IN
    tcb[p].pid = tcb[z].id =>
        /\ tcb[p].cur /\ tcb[p].wait4 = z
        /\ ~(k.fn = "reaped" /\ k.n = p)

(* Every zombie is of that kind; init never is one. *)
ZombiesInv ==
    \A z \in Slots : tcb[z].live /\ tcb[z].st = "ZOMBIE" => tcb[z].id # 1 /\ Reaped(z)

(* The way of a zombie from do_exit to its parent. *)
ReapInv == AwakeInv /\ ZombiesInv

(* The parent of a task other than init is a TCB in use. *)
LEMMA ParentLive ==
    ASSUME IndInv, NEW c \in Slots, tcb[c].live, tcb[c].id # 1
    PROVE  tcb[c].parent \in Slots /\ tcb[tcb[c].parent].live /\ c \in ToSet(tcb[tcb[c].parent].kids)
<1>1. tcb[c].parent \in Slots
  BY DEF IndInv, EntryConditions, IdsInv
<1>2. c \in ToSet(tcb[tcb[c].parent].kids)
  BY <1>1 DEF IndInv, TreeConsistent
<1>3. tcb[tcb[c].parent].kids # <<>>
  BY <1>2 DEF ToSet
<1> QED
  BY <1>1, <1>2, <1>3 DEF IndInv, TreeConsistent

(* A zombie is not queued and has a parent. *)
LEMMA ZombieFacts ==
    ASSUME IndInv, ZombiesInv, NEW z \in Slots, tcb[z].live, tcb[z].st = "ZOMBIE"
    PROVE  /\ z \notin Queued /\ tcb[z].parent \in Slots /\ tcb[tcb[z].parent].live
           /\ z \in ToSet(tcb[tcb[z].parent].kids) /\ tcb[z].id # 1 /\ Reaped(z)
<1>1. z \notin Queued
  BY DEF IndInv, QueuesMatchStates, Queued
<1>2. tcb[z].id # 1 /\ Reaped(z)
  BY DEF ZombiesInv
<1> QED
  BY <1>1, <1>2, ParentLive

(* Task ids are the indices of `exits', or 0. *)
LEMMA PidTypes ==
    ASSUME IndInv
    PROVE  \A u \in Slots : /\ tcb[u].pid # 0 => tcb[u].pid \in Tids
                            /\ tcb[u].live => tcb[u].id \in Tids /\ tcb[u].id # 0
<1>1. tcb \in [Slots -> TCB] /\ MaxTid \in Nat /\ old_tid \in 1..MaxTid
  BY TasksAssumption DEF IndInv, TypeOK, Tids
<1>2. \A u \in Slots : tcb[u].pid \in 0..MaxTid
  BY <1>1 DEF TCB
<1>3. \A u \in Slots : tcb[u].live => tcb[u].id \in 1..old_tid
  BY DEF IndInv, EntryConditions, IdsInv
<1> QED
  BY <1>1, <1>2, <1>3 DEF Tids

(* A step that changes nothing of this, and frees, makes and signals nobody. *)
LEMMA PlainReap ==
    ASSUME IndInv, ReapInv,
           \A u \in Slots : Same(u) /\ (tcb'[u].st = "ZOMBIE" <=> tcb[u].st = "ZOMBIE"),
           \A p \in Sleeping : tcb[p].mask => p \in Sleeping',
           Queued' = Queued, exits' = exits, k'.fn \notin {"notify", "reaped"}
    PROVE  ReapInv'
<1>1. AwakeInv'
  <2>1. Queued \subseteq Slots
    BY QueuedAreSlots DEF IndInv, Queued
  <2> QED
    BY <2>1 DEF ReapInv, AwakeInv, Same
<1>2. ZombiesInv'
  <2> SUFFICES ASSUME NEW z \in Slots, tcb'[z].live, tcb'[z].st = "ZOMBIE"
               PROVE  tcb'[z].id # 1 /\ Reaped(z)'
    BY DEF ZombiesInv
  <2>1. tcb[z].live /\ tcb[z].st = "ZOMBIE" /\ tcb'[z].id = tcb[z].id /\ tcb'[z].parent = tcb[z].parent
    BY DEF Same
  <2>2. tcb[z].parent \in Slots /\ tcb[z].id # 1 /\ Reaped(z)
    BY <2>1, ZombieFacts DEF ReapInv
  <2> QED
    BY <2>1, <2>2 DEF Same, Reaped
<1> QED
  BY <1>1, <1>2 DEF ReapInv

(* do_fork: the child has waited for nobody. *)
LEMMA ForkReap ==
    ASSUME IndInv, FamilyInv, ReapInv, NEW s \in Slots, do_fork(s)
    PROVE  ReapInv'
<1>1. /\ me \in Slots /\ s # me /\ s \notin Queued /\ ~tcb[s].live
      /\ \A u \in Slots : u # s => Same(u) /\ tcb'[u].st = tcb[u].st
      /\ tcb'[s].st = "READY" /\ tcb'[s].pid = 0
      /\ Sleeping' = Sleeping /\ Queued' = Queued \cup {s}
      /\ k.fn = "user" /\ k'.fn = "user" /\ exits' = exits
  BY ForkEffect
<1>2. AwakeInv'
  <2>1. Queued \subseteq Slots
    BY QueuedAreSlots DEF IndInv, Queued
  <2>2. ASSUME NEW p \in Queued', tcb'[p].pid # 0, exits'[tcb'[p].pid] = -1
        PROVE  p \in Sleeping' /\ tcb'[p].mask
    <3>1. p \in Queued /\ p # s /\ p \in Slots /\ Same(p)
      BY <1>1, <2>1, <2>2
    <3> QED
      BY <1>1, <2>2, <3>1 DEF ReapInv, AwakeInv, Same
  <2> QED
    BY <1>1, <2>2 DEF AwakeInv
<1>3. ZombiesInv'
  <2> SUFFICES ASSUME NEW z \in Slots, tcb'[z].live, tcb'[z].st = "ZOMBIE"
               PROVE  tcb'[z].id # 1 /\ Reaped(z)'
    BY DEF ZombiesInv
  <2>1. z # s /\ tcb[z].live /\ tcb[z].st = "ZOMBIE" /\ Same(z)
    BY <1>1 DEF Same
  <2>2. tcb[z].parent \in Slots /\ tcb[tcb[z].parent].live /\ tcb[z].id # 1 /\ Reaped(z)
    BY <2>1, ZombieFacts DEF ReapInv
  <2>3. Same(tcb[z].parent)
    BY <1>1, <2>2
  <2> QED
    BY <1>1, <2>1, <2>2, <2>3 DEF Same, Reaped
<1> QED
  BY <1>2, <1>3 DEF ReapInv

(* waitpid: the awaited task is queued, so it is no zombie. *)
LEMMA WaitReap ==
    ASSUME IndInv, FamilyInv, ReapInv, NEW pid \in Tids, waitpid(pid)
    PROVE  ReapInv'
<1>1. /\ me \in Slots /\ me \in Runnable
      /\ \A u \in Slots :
           /\ tcb'[u].live = tcb[u].live /\ tcb'[u].id = tcb[u].id /\ tcb'[u].parent = tcb[u].parent
           /\ tcb'[u].st = "ZOMBIE" <=> tcb[u].st = "ZOMBIE"
           /\ u # me => Same(u)
      /\ tcb'[me].pid = pid /\ tcb'[me].mask
      /\ Sleeping' = Sleeping \cup {me} /\ Queued' = Queued
      /\ k'.fn = "switch" /\ exits' = exits
      /\ \E w \in Queued : w \in Slots /\ tcb[w].id = pid
  BY WaitEffect
<1>2. AwakeInv'
  <2>1. Queued \subseteq Slots
    BY QueuedAreSlots DEF IndInv, Queued
  <2>2. ASSUME NEW p \in Queued', tcb'[p].pid # 0, exits'[tcb'[p].pid] = -1, p # me
        PROVE  p \in Sleeping' /\ tcb'[p].mask
    <3>1. p \in Queued /\ Same(p)
      BY <1>1, <2>1, <2>2
    <3>2. p \in Sleeping /\ tcb[p].mask
      BY <1>1, <2>2, <3>1 DEF ReapInv, AwakeInv, Same
    <3> QED
      BY <1>1, <3>1, <3>2 DEF Same
  <2>3. me \in Sleeping' /\ tcb'[me].mask
    BY <1>1
  <2> QED
    BY <1>1, <2>2, <2>3 DEF AwakeInv
<1>3. ZombiesInv'
  <2> SUFFICES ASSUME NEW z \in Slots, tcb'[z].live, tcb'[z].st = "ZOMBIE"
               PROVE  tcb'[z].id # 1 /\ Reaped(z)'
    BY DEF ZombiesInv
  <2>1. tcb[z].live /\ tcb[z].st = "ZOMBIE"
    BY <1>1
  <2>2. tcb[z].parent \in Slots /\ tcb[z].id # 1 /\ Reaped(z) /\ z \notin Queued
    BY <2>1, ZombieFacts DEF ReapInv
  <2>3. CASE tcb[z].parent = me
    <3>1. PICK w \in Queued : w \in Slots /\ tcb[w].id = pid
      BY <1>1
    <3>2. tcb[w].live
      BY <3>1 DEF IndInv, QueuesMatchStates, Queued
    <3>3. tcb[z].id # pid
      BY <2>1, <2>2, <3>1, <3>2 DEF IndInv, UniqueIds
    <3> QED
      BY <1>1, <2>2, <2>3, <3>3 DEF Reaped
  <2>4. CASE tcb[z].parent # me
    <3>1. Same(tcb[z].parent)
      BY <1>1, <2>2, <2>4
    <3> QED
      BY <1>1, <2>2, <3>1 DEF Same, Reaped
  <2> QED
    BY <2>3, <2>4
<1> QED
  BY <1>2, <1>3 DEF ReapInv

(* do_exit: a queued task has not exited before, so a parent that waits for it is
   asleep. *)
LEMMA DoExitReap ==
    ASSUME IndInv, FamilyInv, ReapInv, do_exit
    PROVE  ReapInv'
<1> DEFINE t == k.t
<1>1. /\ k.fn = "exit" /\ t \in Slots /\ tcb[t].live
      /\ \A u \in Slots :
           /\ tcb'[u].live = tcb[u].live /\ tcb'[u].id = tcb[u].id /\ tcb'[u].parent = tcb[u].parent
           /\ tcb'[u].cur = tcb[u].cur /\ tcb'[u].wait4 = tcb[u].wait4 /\ tcb'[u].st = tcb[u].st
           /\ tcb'[u].pid = tcb[u].pid /\ tcb'[u].mask = tcb[u].mask
      /\ Sleeping' = Sleeping \ {t} /\ Queued' = Queued \ {t}
      /\ \/ tcb[t].id = 1 /\ k'.fn = "switch_to"
         \/ tcb[t].id # 1 /\ k'.fn = "notify" /\ k'.t = t
      /\ \A i \in Tids : exits'[i] = -1 => exits[i] = -1
  BY DoExitEffect
<1>a. k.fn = "exit" => \/ t \in Runnable
                       \/ t \notin Queued /\ tcb[t].parent \notin Queued
  BY DEF FamilyInv, ExitingInv
<1> HIDE DEF t
<1>q. Queued \subseteq Slots
  BY QueuedAreSlots DEF IndInv, Queued
<1>2. AwakeInv'
  <2>1. ASSUME NEW p \in Queued', tcb'[p].pid # 0, exits'[tcb'[p].pid] = -1
        PROVE  p \in Sleeping' /\ tcb'[p].mask
    <3>1. p \in Queued /\ p # t /\ p \in Slots
      BY <1>1, <1>q, <2>1
    <3>2. tcb[p].pid # 0 /\ tcb[p].pid \in Tids /\ exits[tcb[p].pid] = -1
      BY <1>1, <2>1, <3>1, PidTypes
    <3> QED
      BY <1>1, <3>1, <3>2 DEF ReapInv, AwakeInv
  <2>2. ASSUME k'.fn = "notify", k'.t = t, tcb'[t].parent \in Queued',
               tcb'[tcb'[t].parent].pid = tcb'[t].id
        PROVE  tcb'[t].parent \in Sleeping' /\ tcb'[tcb'[t].parent].mask
    <3> DEFINE p == tcb[t].parent
    <3>1. tcb'[t].parent = p /\ p \in Queued /\ p # t /\ p \in Slots /\ tcb[p].pid = tcb[t].id
      BY <1>1, <1>q, <2>2
    <3>2. t \in Queued /\ tcb[t].id # 0
      BY <1>1, <1>a, <3>1, PidTypes DEF Queued
    <3>3. exits[tcb[t].id] = -1
      BY <3>2 DEF FamilyInv, CodesInv
    <3>4. p \in Sleeping /\ tcb[p].mask
      BY <3>1, <3>2, <3>3 DEF ReapInv, AwakeInv
    <3> QED
      BY <1>1, <3>1, <3>4
  <2>3. k'.fn = "notify" => k'.t = t
    BY <1>1
  <2> QED
    BY <2>1, <2>2, <2>3 DEF AwakeInv
<1>3. ZombiesInv'
  <2> SUFFICES ASSUME NEW z \in Slots, tcb'[z].live, tcb'[z].st = "ZOMBIE"
               PROVE  tcb'[z].id # 1 /\ Reaped(z)'
    BY DEF ZombiesInv
  <2>1. tcb[z].live /\ tcb[z].st = "ZOMBIE"
    BY <1>1
  <2>2. tcb[z].parent \in Slots /\ tcb[z].id # 1 /\ Reaped(z)
    BY <2>1, ZombieFacts DEF ReapInv
  <2> QED
    BY <1>1, <2>2 DEF Reaped
<1> QED
  BY <1>2, <1>3 DEF ReapInv

(* The new zombie's parent, if it waited, was asleep with the signal unmasked. *)
LEMMA NotifyReap ==
    ASSUME IndInv, FamilyInv, ReapInv, notify_parent
    PROVE  ReapInv'
<1> DEFINE t == k.t
           p == tcb[t].parent
<1>1. /\ k.fn = "notify" /\ t \in Slots /\ tcb[t].live /\ tcb[t].id # 1 /\ Awaited(t)
      /\ p \in Slots /\ p \in Queued /\ p # t
      /\ \A u \in Slots :
           /\ tcb'[u].live = tcb[u].live /\ tcb'[u].id = tcb[u].id /\ tcb'[u].parent = tcb[u].parent
           /\ tcb'[u].wait4 = tcb[u].wait4 /\ tcb'[u].pid = tcb[u].pid /\ tcb'[u].mask = tcb[u].mask
           /\ tcb[u].cur => tcb'[u].cur
           /\ u # t /\ tcb'[u].st = "ZOMBIE" => tcb[u].st = "ZOMBIE"
      /\ tcb[p].mask => tcb'[p].cur
      /\ Sleeping' = Sleeping \ {p} /\ Queued' = Queued
      /\ k'.fn = "switch_to" /\ exits' = exits
  BY NotifyEffect
<1>2. tcb[p].wait4 # None /\ tcb[tcb[p].wait4].id = tcb[t].id
  BY <1>1 DEF Awaited
<1>3. tcb[p].pid = tcb[t].id => p \in Sleeping /\ tcb[p].mask
  BY <1>1 DEF ReapInv, AwakeInv
<1>4. exits[tcb[t].id] # -1
  <2>1. tcb[t].code = exits[tcb[t].id]
    BY <1>1 DEF FamilyInv, CodesInv
  <2>2. tcb[t].code \in Status \cup {0}
    BY <1>1 DEF IndInv, TypeOK, TCB
  <2>3. -1 \notin Status \cup {0}
    BY TasksAssumption DEF Status, SIGKILL, SEGV_STATUS
  <2> QED
    BY <2>1, <2>2, <2>3
<1>a. p = tcb[t].parent
  OBVIOUS
<1>5. AwakeInv'
  <2>1. Queued \subseteq Slots
    BY QueuedAreSlots DEF IndInv, Queued
  <2> HIDE DEF p, t
  <2>2. ASSUME NEW q \in Queued', tcb'[q].pid # 0, exits'[tcb'[q].pid] = -1
        PROVE  q \in Sleeping' /\ tcb'[q].mask
    <3>1. q \in Queued /\ q \in Slots /\ tcb[q].pid # 0 /\ exits[tcb[q].pid] = -1
      BY <1>1, <2>1, <2>2
    <3>2. q \in Sleeping /\ tcb[q].mask
      BY <3>1 DEF ReapInv, AwakeInv
    <3>3. q # p
      <4> SUFFICES ASSUME q = p PROVE FALSE
        OBVIOUS
      <4>1. tcb[tcb[p].wait4].id = tcb[p].pid
        BY <3>2 DEF FamilyInv, WaiterHasChild
      <4> QED
        BY <1>2, <1>4, <3>1, <4>1
    <3> QED
      BY <1>1, <3>1, <3>2, <3>3
  <2> QED
    BY <1>1, <2>2 DEF AwakeInv
<1>6. ZombiesInv'
  <2> HIDE DEF p, t
  <2> SUFFICES ASSUME NEW z \in Slots, tcb'[z].live, tcb'[z].st = "ZOMBIE"
               PROVE  tcb'[z].id # 1 /\ Reaped(z)'
    BY DEF ZombiesInv
  <2>1. CASE z # t
    <3>1. tcb[z].live /\ tcb[z].st = "ZOMBIE"
      BY <1>1, <2>1
    <3>2. tcb[z].parent \in Slots /\ tcb[z].id # 1 /\ Reaped(z)
      BY <3>1, ZombieFacts DEF ReapInv
    <3> QED
      BY <1>1, <3>2 DEF Reaped
  <2>2. CASE z = t
    <3> SUFFICES ASSUME tcb[p].pid = tcb[t].id PROVE tcb'[p].cur /\ tcb[p].wait4 = t
      BY <1>1, <1>a, <2>2 DEF Reaped
    <3>1. p \in Sleeping /\ tcb[p].mask
      BY <1>3
    <3>2. tcb[tcb[p].wait4].live /\ tcb[p].wait4 \in Slots
      <4>1. tcb[p].wait4 \in Slots \cup {None}
        BY <1>1 DEF IndInv, TypeOK, TCB
      <4> QED
        BY <1>2, <3>1, <4>1 DEF FamilyInv, WaiterHasChild
    <3>3. tcb[p].wait4 = t
      BY <1>1, <1>2, <3>2 DEF IndInv, UniqueIds
    <3> QED
      BY <1>1, <3>1, <3>3
  <2> QED
    BY <2>1, <2>2
<1> QED
  BY <1>5, <1>6 DEF ReapInv

(* The zombie that sig_handler frees is the one its parent waited for. *)
LEMMA DestroyReap ==
    ASSUME IndInv, FamilyInv, ReapInv, task_destroy
    PROVE  ReapInv'
<1> DEFINE t == k.t
<1>1. /\ k.fn = "destroy" /\ t \in Slots /\ tcb[t].live /\ t \notin Queued /\ tcb[t].kids = <<>>
      /\ \A u \in Slots : u # t => Same(u) /\ tcb'[u].st = tcb[u].st
      /\ ~tcb'[t].live
      /\ Sleeping' = Sleeping /\ Queued' = Queued /\ exits' = exits
      /\ \/ k.n = None /\ k'.fn = "switch_to"
         \/ k.n # None /\ k'.fn = "reaped" /\ k'.n = k.n /\ tcb[k.n].wait4 = t
  BY DestroyEffect
<1> HIDE DEF t
<1>2. AwakeInv'
  <2>1. Queued \subseteq Slots
    BY QueuedAreSlots DEF IndInv, Queued
  <2>2. ASSUME NEW p \in Queued', tcb'[p].pid # 0, exits'[tcb'[p].pid] = -1
        PROVE  p \in Sleeping' /\ tcb'[p].mask
    <3>1. p \in Queued /\ Same(p)
      BY <1>1, <2>1, <2>2
    <3> QED
      BY <1>1, <2>2, <3>1 DEF ReapInv, AwakeInv, Same
  <2> QED
    BY <1>1, <2>2 DEF AwakeInv
<1>3. ZombiesInv'
  <2> SUFFICES ASSUME NEW z \in Slots, tcb'[z].live, tcb'[z].st = "ZOMBIE"
               PROVE  tcb'[z].id # 1 /\ Reaped(z)'
    BY DEF ZombiesInv
  <2>1. z # t /\ tcb[z].live /\ tcb[z].st = "ZOMBIE" /\ Same(z)
    BY <1>1 DEF Same
  <2>2. /\ tcb[z].parent \in Slots /\ z \in ToSet(tcb[tcb[z].parent].kids)
        /\ tcb[z].id # 1 /\ Reaped(z)
    BY <2>1, ZombieFacts DEF ReapInv
  <2>3. tcb[z].parent # t
    BY <1>1, <2>2 DEF ToSet
  <2>4. Same(tcb[z].parent)
    BY <1>1, <2>2, <2>3
  <2> QED
    BY <1>1, <2>1, <2>2, <2>4 DEF Same, Reaped
<1> QED
  BY <1>2, <1>3 DEF ReapInv

(* The parent continues: none of the zombies left is the one it waited for. *)
LEMMA HandledReap ==
    ASSUME IndInv, FamilyInv, ReapInv, sig_handled
    PROVE  ReapInv'
<1> DEFINE n == k.n
<1>1. /\ k.fn = "reaped" /\ n \in Slots /\ n \in Runnable
      /\ \A u \in Slots :
           /\ tcb'[u].live = tcb[u].live /\ tcb'[u].id = tcb[u].id /\ tcb'[u].parent = tcb[u].parent
           /\ tcb'[u].pid = tcb[u].pid /\ tcb'[u].wait4 = tcb[u].wait4 /\ tcb'[u].st = tcb[u].st
           /\ u # n => tcb'[u].cur = tcb[u].cur /\ tcb'[u].mask = tcb[u].mask
      /\ Sleeping' = Sleeping /\ Queued' = Queued
      /\ k'.fn = "user" /\ exits' = exits
  BY HandledEffect
<1>a. n = k.n
  OBVIOUS
<1> HIDE DEF n
<1>2. AwakeInv'
  <2>1. Queued \subseteq Slots /\ Runnable \cap Sleeping = {}
    BY QueuedAreSlots DEF IndInv, Queued, QueuesDisjoint
  <2>2. ASSUME NEW p \in Queued', tcb'[p].pid # 0, exits'[tcb'[p].pid] = -1
        PROVE  p \in Sleeping' /\ tcb'[p].mask
    <3>1. p \in Queued /\ p \in Slots /\ tcb[p].pid # 0 /\ exits[tcb[p].pid] = -1
      BY <1>1, <2>1, <2>2
    <3>2. p \in Sleeping /\ tcb[p].mask
      BY <3>1 DEF ReapInv, AwakeInv
    <3>3. p # n
      BY <1>1, <2>1, <3>2
    <3> QED
      BY <1>1, <3>1, <3>2, <3>3
  <2> QED
    BY <1>1, <2>2 DEF AwakeInv
<1>3. ZombiesInv'
  <2> SUFFICES ASSUME NEW z \in Slots, tcb'[z].live, tcb'[z].st = "ZOMBIE"
               PROVE  tcb'[z].id # 1 /\ Reaped(z)'
    BY DEF ZombiesInv
  <2>1. tcb[z].live /\ tcb[z].st = "ZOMBIE"
    BY <1>1
  <2>2. tcb[z].parent \in Slots /\ tcb[z].id # 1 /\ Reaped(z)
    BY <2>1, ZombieFacts DEF ReapInv
  <2>3. CASE tcb[z].parent = n
    <3>1. tcb[n].pid # tcb[z].id
      BY <1>1, <1>a, <2>2, <2>3 DEF Reaped
    <3> QED
      BY <1>1, <2>2, <2>3, <3>1 DEF Reaped
  <2>4. CASE tcb[z].parent # n
    BY <1>1, <2>2, <2>4 DEF Reaped
  <2> QED
    BY <2>3, <2>4
<1> QED
  BY <1>2, <1>3 DEF ReapInv

(* init alone has waited for nobody. *)
LEMMA InitReap == Init => ReapInv
<1> SUFFICES ASSUME Init PROVE ReapInv
  OBVIOUS
<1>1. PICK s \in Slots :
        /\ tcb = [t \in Slots |-> IF t = s THEN NewTask(1, None, FALSE) ELSE NoTask]
        /\ os_q = <<s>> /\ sleep_q = <<>>
  BY DEF Init
<1>2. \A t \in Slots : tcb[t].st = "READY" /\ tcb[t].pid = 0
  BY <1>1 DEF NewTask, NoTask
<1>3. k.fn = "switch"
  BY DEF Init, Switch, Call
<1>4. Queued \subseteq Slots
  BY <1>1 DEF Queued, Runnable, Sleeping, ToSet
<1> QED
  BY <1>2, <1>3, <1>4 DEF ReapInv, AwakeInv, ZombiesInv

(* Every step keeps ReapInv. *)
LEMMA NextReap == IndInv /\ FamilyInv /\ ReapInv /\ [Next]_vars => ReapInv'
<1> SUFFICES ASSUME IndInv, FamilyInv, ReapInv, [Next]_vars PROVE ReapInv'
  OBVIOUS
<1>1. ASSUME NEW s \in Slots, do_fork(s) PROVE ReapInv'
  BY <1>1, ForkReap
<1>2. ASSUME Still PROVE ReapInv'
  <2>1. Sleeping' = Sleeping /\ Queued' = Queued
    BY <1>2, StillQueues
  <2> QED
    BY <1>2, <2>1, PlainReap DEF Still
<1>3. CASE stdin_read
  <2>1. /\ \A u \in Slots : Same(u) /\ (tcb'[u].st = "ZOMBIE" <=> tcb[u].st = "ZOMBIE")
        /\ Sleeping' = Sleeping \cup {me} /\ Queued' = Queued
        /\ k'.fn = "switch" /\ exits' = exits
    BY <1>3, ReadEffect
  <2> QED
    BY <2>1, PlainReap
<1>4. ASSUME NEW pid \in Tids, waitpid(pid) PROVE ReapInv'
  BY <1>4, WaitReap
<1>5. CASE dev_stdin_recall
  <2>1. /\ \A u \in Slots : Same(u) /\ (tcb'[u].st = "ZOMBIE" <=> tcb[u].st = "ZOMBIE")
        /\ Sleeping' = Sleeping \ {wait4input} /\ Queued' = Queued
        /\ k' = k /\ k.fn \in {"user", "idle"} /\ exits' = exits
        /\ ~tcb[wait4input].mask
    BY <1>5, RecallEffect
  <2> QED
    BY <2>1, PlainReap
<1>6. CASE do_exit
  BY <1>6, DoExitReap
<1>7. CASE notify_parent
  BY <1>7, NotifyReap
<1>8. CASE task_destroy
  BY <1>8, DestroyReap
<1>9. CASE sig_handled
  BY <1>9, HandledReap
<1>10. CASE UNCHANGED vars
  <2>1. AwakeInv'
    BY <1>10 DEF vars, ReapInv, AwakeInv, Runnable, Sleeping, Queued
  <2>2. ZombiesInv'
    BY <1>10 DEF vars, ReapInv, ZombiesInv, Reaped
  <2> QED
    BY <2>1, <2>2 DEF ReapInv
<1> QED
  BY <1>1, <1>2, <1>3, <1>4, <1>5, <1>6, <1>7, <1>8, <1>9, <1>10, StillSteps
     DEF StillNext, Next, UserStep, KernelStep

(* A zombie whose parent waited for it is on its way out: the parent has SIGCHLD
   pending and its wait4 still names it, also with siblings, early exits and TCBs
   at addresses used before. *)
THEOREM AwaitedSafe == ASSUME Families PROVE Spec => []AwaitedIsReaped
<1>1. Init => IndInv /\ FamilyInv /\ ReapInv
  BY InitIndInv, InitFamily, InitReap
<1>2. (IndInv /\ FamilyInv /\ ReapInv) /\ [Next]_vars => (IndInv /\ FamilyInv /\ ReapInv)'
  BY NextIndInv, NextFamily, NextReap
<1>3. IndInv /\ FamilyInv /\ ReapInv => AwaitedIsReaped
  BY DEF ReapInv, ZombiesInv, Reaped, AwaitedIsReaped
<1> QED
  BY <1>1, <1>2, <1>3, PTL DEF Spec

-----------------------------------------------------------------------------
(* The shell and its programs *)

(* Moreover a task has one running child at a time. *)
Shell == Families /\ "siblings" \notin Allowed

(* Parents are older than their children. *)
Lineage ==
    \A t \in Slots : tcb[t].live /\ tcb[t].id # 1 => tcb[tcb[t].parent].id < tcb[t].id

(* Nobody has two running children. *)
OneChild ==
    \A c, d \in Queued :
        tcb[c].id # 1 /\ tcb[d].id # 1 /\ tcb[c].parent = tcb[d].parent => c = d

(* On the way from exit() to the end of do_exit somebody is runnable, or the parent
   about to be woken is there, or nobody is left at all. *)
ShellControl ==
    /\ k.fn \in {"exit", "destroy"} => Runnable # {}
    /\ k.fn = "notify" => Runnable # {} \/ Awaited(k.t)
    /\ k.fn = "switch_to" => Runnable # {} \/ Queued = {}

(* What a shell session keeps to, beyond FamilyInv. *)
ShellInv == Lineage /\ OneChild /\ ShellControl

(* A step that adds no task keeps the ages and the number of children. *)
LEMMA KinKept ==
    ASSUME IndInv, IndInv', Lineage, OneChild, Queued' \subseteq Queued,
           \A u \in Slots : tcb'[u].live =>
              tcb[u].live /\ tcb'[u].id = tcb[u].id /\ tcb'[u].parent = tcb[u].parent
    PROVE  Lineage' /\ OneChild'
<1>1. Lineage'
  <2> SUFFICES ASSUME NEW t \in Slots, tcb'[t].live, tcb'[t].id # 1
               PROVE  tcb'[tcb'[t].parent].id < tcb'[t].id
    BY DEF Lineage
  <2>1. tcb'[t].parent \in Slots
    BY DEF IndInv, EntryConditions, IdsInv
  <2>2. t \in ToSet(tcb'[tcb'[t].parent].kids)
    BY <2>1 DEF IndInv, TreeConsistent
  <2>3. tcb'[tcb'[t].parent].kids # <<>>
    BY <2>2 DEF ToSet
  <2>4. tcb'[tcb'[t].parent].live
    BY <2>1, <2>3 DEF IndInv, TreeConsistent
  <2>5. tcb[tcb[t].parent].id < tcb[t].id
    BY DEF Lineage
  <2> QED
    BY <2>1, <2>4, <2>5
<1>2. OneChild'
  <2>1. Queued' \subseteq Slots /\ \A c \in Queued' : tcb'[c].live
    <3>1. Queued \subseteq Slots
      BY QueuedAreSlots DEF IndInv, Queued
    <3>2. \A c \in Queued' : tcb'[c].live
      BY DEF IndInv, Queued, QueuesMatchStates
    <3> QED
      BY <3>1, <3>2
  <2> QED
    BY <2>1 DEF OneChild
<1> QED
  BY <1>1, <1>2

(* do_fork: the child is younger than its parent, which had no other. *)
LEMMA ForkShell ==
    ASSUME IndInv, FamilyInv, ShellInv, Shell, NEW s \in Slots, do_fork(s)
    PROVE  ShellInv'
<1>1. /\ me \in Slots /\ me \in Queued /\ tcb[me].live /\ s # me /\ s \notin Queued /\ ~tcb[s].live
      /\ \A u \in Slots : u # s => Same(u) /\ tcb'[u].st = tcb[u].st
      /\ tcb'[s].id = old_tid + 1 /\ tcb'[s].parent = me
      /\ Queued' = Queued \cup {s} /\ k'.fn = "user"
  BY ForkEffect
<1>2. LiveKids(me) = {}
  BY DEF do_fork, Shell
<1>3. Lineage'
  <2> SUFFICES ASSUME NEW t \in Slots, tcb'[t].live, tcb'[t].id # 1
               PROVE  tcb'[tcb'[t].parent].id < tcb'[t].id
    BY DEF Lineage
  <2>1. CASE t = s
    <3>1. tcb[me].id \in 1..old_tid /\ old_tid \in Nat
      BY <1>1, TasksAssumption DEF IndInv, EntryConditions, IdsInv, TypeOK, Tids
    <3>2. tcb'[me].id = tcb[me].id
      BY <1>1 DEF Same
    <3> QED
      BY <1>1, <2>1, <3>1, <3>2
  <2>2. CASE t # s
    <3>1. tcb[t].live /\ tcb[t].id # 1 /\ tcb'[t].parent = tcb[t].parent /\ tcb'[t].id = tcb[t].id
      BY <1>1, <2>2 DEF Same
    <3>2. /\ tcb[t].parent \in Slots /\ tcb[tcb[t].parent].live
          /\ tcb[tcb[t].parent].id < tcb[t].id
      BY <3>1, ParentLive DEF ShellInv, Lineage
    <3>3. tcb[t].parent # s
      BY <1>1, <3>2
    <3>4. tcb'[tcb[t].parent].id = tcb[tcb[t].parent].id
      BY <1>1, <3>2, <3>3 DEF Same
    <3> QED
      BY <3>1, <3>2, <3>4
  <2> QED
    BY <2>1, <2>2
<1>4. OneChild'
  <2>1. Queued \subseteq Slots /\ \A c \in Queued : tcb[c].live
    BY QueuedAreSlots DEF IndInv, Queued, QueuesMatchStates
  <2>2. \A c \in Queued : tcb[c].parent # me
    <3> SUFFICES ASSUME NEW c \in Queued, tcb[c].parent = me PROVE FALSE
      OBVIOUS
    <3>1. c \in ToSet(tcb[me].kids)
      BY <1>1, <2>1 DEF IndInv, TreeConsistent
    <3> QED
      BY <1>2, <3>1 DEF LiveKids
  <2>3. \A c \in Queued : c # s /\ tcb'[c].id = tcb[c].id /\ tcb'[c].parent = tcb[c].parent
    BY <1>1, <2>1 DEF Same
  <2> QED
    BY <1>1, <2>2, <2>3 DEF ShellInv, OneChild
<1>5. ShellControl'
  BY <1>1 DEF ShellControl
<1> QED
  BY <1>3, <1>4, <1>5 DEF ShellInv

(* Among queued tasks and their parents is init: parents are older, and there is
   an oldest one. *)
LEMMA InitAmongThem ==
    ASSUME IndInv, Lineage, NEW Q \in SUBSET Queued, Q # {},
           \A c \in Q : tcb[c].id # 1 => tcb[c].parent \in Q
    PROVE  \E t \in Q : tcb[t].id = 1
<1> DEFINE Ids == {tcb[t].id : t \in Q}
<1>1. Q \subseteq Slots /\ \A t \in Q : tcb[t].live /\ tcb[t].id \in Nat
  <2>1. Queued \subseteq Slots /\ \A t \in Queued : tcb[t].live
    BY QueuedAreSlots DEF IndInv, Queued, QueuesMatchStates
  <2>2. \A t \in Slots : tcb[t].id \in Nat
    BY TasksAssumption DEF IndInv, TypeOK, TCB
  <2> QED
    BY <2>1, <2>2
<1>2. Ids \in SUBSET Nat /\ Ids # {}
  BY <1>1
<1>3. PICK i \in Ids : \A j \in Ids : i <= j
  <2> HIDE DEF Ids
  <2> QED
    BY <1>2, SL!LeastNat, Zenon
<1>4. PICK t \in Q : tcb[t].id = i
  OBVIOUS
<1>5. CASE tcb[t].id # 1
  <2>1. tcb[t].parent \in Q
    BY <1>5
  <2>2. tcb[tcb[t].parent].id \in Ids /\ tcb[tcb[t].parent].id \in Nat
    BY <1>1, <2>1
  <2>3. tcb[tcb[t].parent].id < tcb[t].id
    BY <1>1, <1>5 DEF Lineage
  <2>4. i <= tcb[tcb[t].parent].id /\ i \in Nat
    BY <1>2, <1>3, <2>2
  <2> QED
    BY <1>4, <2>2, <2>3, <2>4
<1> QED
  BY <1>5

(* do_exit: the parent is runnable or sleeps until this very child ends, since it
   has no other; or init has ended as the last task. *)
LEMMA DoExitShell ==
    ASSUME IndInv, FamilyInv, ShellInv, do_exit
    PROVE  ShellControl'
<1> DEFINE t == k.t
<1>1. /\ k.fn = "exit" /\ t \in Slots /\ tcb[t].live
      /\ \A u \in Slots :
           /\ tcb'[u].live = tcb[u].live /\ tcb'[u].id = tcb[u].id /\ tcb'[u].parent = tcb[u].parent
           /\ tcb'[u].cur = tcb[u].cur /\ tcb'[u].wait4 = tcb[u].wait4 /\ tcb'[u].st = tcb[u].st
      /\ Runnable' = Runnable \ {t} /\ Queued' = Queued \ {t}
      /\ \/ tcb[t].id = 1 /\ k'.fn = "switch_to"
         \/ tcb[t].id # 1 /\ k'.fn = "notify" /\ k'.t = t
  BY DoExitEffect
<1>2. t \in Runnable \/ t \notin Queued
  BY <1>1 DEF FamilyInv, ExitingInv
<1>3. Runnable # {}
  BY <1>1 DEF ShellInv, ShellControl
<1>n. \A c \in Queued : tcb[c].id # 1 => tcb[c].parent \in Queued /\ tcb[c].parent # t
  BY <1>1 DEF FamilyInv, NoOrphans
<1>r. \A c \in Slots : tcb[c].live /\ tcb[c].parent = wait4input /\ wait4input # None => c \notin Queued
  BY DEF FamilyInv, ReaderInv, Quiet
<1>w. \A p \in Sleeping : tcb[p].mask =>
        LET c == tcb[p].wait4 IN
        /\ c # None /\ tcb[c].live /\ tcb[c].parent = p
        /\ c \in Queued \/ c = t
  BY DEF FamilyInv, WaiterHasChild
<1> HIDE DEF t
<1>4. CASE t \notin Queued
  <2>1. Runnable' = Runnable
    BY <1>1, <1>4 DEF Queued
  <2> QED
    BY <1>1, <1>3, <2>1 DEF ShellControl
<1>5. CASE t \in Runnable /\ tcb[t].id = 1
  <2> DEFINE Q == Queued \ {t}
  <2>1. \A c \in Q : tcb[c].id # 1 => tcb[c].parent \in Q
    BY <1>n
  <2>2. \A c \in Q : tcb[c].id # 1
    <3>1. Queued \subseteq Slots /\ \A c \in Queued : tcb[c].live
      BY QueuedAreSlots DEF IndInv, Queued, QueuesMatchStates
    <3> QED
      BY <1>1, <1>5, <3>1 DEF IndInv, UniqueIds
  <2>3. Q \in SUBSET Queued
    OBVIOUS
  <2> HIDE DEF Q
  <2>4. Q = {}
    BY <2>1, <2>2, <2>3, InitAmongThem DEF ShellInv
  <2>5. Queued' = {}
    BY <1>1, <2>4 DEF Q
  <2> QED
    BY <1>1, <1>5, <2>5 DEF ShellControl
<1>6. CASE t \in Runnable /\ tcb[t].id # 1
  <2> DEFINE p == tcb[t].parent
  <2>1. p \in Queued /\ p # t /\ p \in Slots /\ p # None /\ t \in Queued
    <3>1. Queued \subseteq Slots
      BY QueuedAreSlots DEF IndInv, Queued
    <3>2. t \in Queued
      BY <1>6 DEF Queued
    <3> QED
      BY <1>6, <1>n, <3>1, <3>2, TasksAssumption
  <2>a. tcb[t].parent = p
    OBVIOUS
  <2> HIDE DEF p
  <2>2. CASE p \in Runnable
    <3>1. p \in Runnable'
      BY <1>1, <2>1, <2>2
    <3> QED
      BY <1>1, <1>6, <3>1 DEF ShellControl
  <2>3. CASE p \in Sleeping
    <3>1. tcb[p].mask
      <4> SUFFICES ASSUME ~tcb[p].mask PROVE FALSE
        OBVIOUS
      <4>1. wait4input = p
        BY <2>3 DEF FamilyInv, ReaderIsKnown
      <4> QED
        BY <1>1, <1>r, <2>1, <2>a, <4>1
    <3> DEFINE c == tcb[p].wait4
    <3>2. c # None /\ tcb[c].live /\ tcb[c].parent = p /\ c \in Queued
      BY <1>w, <2>1, <2>3, <3>1
    <3>3. c \in Slots /\ tcb[c].id # 1
      <4>1. c \in Slots
        BY <3>2, QueuedAreSlots DEF IndInv, Queued
      <4> QED
        BY <2>1, <3>2, <4>1 DEF FamilyInv, RootInv
    <3>4. c = t
      BY <1>6, <2>1, <2>a, <3>2, <3>3 DEF ShellInv, OneChild
    <3>5. tcb'[k'.t].parent = p /\ tcb'[p].wait4 = t /\ k'.t = t /\ t # None
      BY <1>1, <1>6, <2>1, <2>a, <3>4, TasksAssumption
    <3>6. Awaited(k.t)'
      BY <3>5 DEF Awaited
    <3> QED
      BY <1>1, <1>6, <3>6 DEF ShellControl
  <2> QED
    BY <2>1, <2>2, <2>3 DEF Queued
<1> QED
  BY <1>2, <1>4, <1>5, <1>6

(* The still steps that lead on to exit or destroy find somebody runnable. *)
LEMMA StillShell ==
    ASSUME IndInv, FamilyInv, ShellInv, StillNext
    PROVE  ShellControl'
<1>1. Runnable' = Runnable /\ Queued' = Queued /\ k'.fn \notin {"notify", "reaped"}
  BY StillSteps, StillQueues DEF Still
<1>2. CASE SegFault \/ \E code \in Codes : sys_exit(code)
  <2>1. InUserMode /\ k'.fn = "exit"
    BY <1>2 DEF SegFault, sys_exit, Call
  <2>2. Runnable # {}
    BY <2>1, RunningTask
  <2> QED
    BY <1>1, <2>1, <2>2 DEF ShellControl
<1>3. CASE TimerSwitch \/ idle_loop \/ dev_stdin_recall_panic \/ do_exit_panic \/ notify_parent_panic
  <2>1. k' = Switch \/ k' = Panic
    BY <1>3 DEF TimerSwitch, idle_loop, dev_stdin_recall_panic, do_exit_panic, notify_parent_panic
  <2>2. k'.fn \in {"switch", "panic"}
    BY <2>1 DEF Switch, Panic, Call
  <2> QED
    BY <2>2 DEF ShellControl
<1>4. ASSUME NEW pid \in Tids, waitpid_ESRCH(pid) PROVE ShellControl'
  <2>1. k' = k /\ k.fn = "user"
    BY <1>4 DEF waitpid_ESRCH, InUserMode
  <2> QED
    BY <2>1 DEF ShellControl
<1>5. CASE task_switch \/ task_switch_to
  <2>1. (\E n : k' = Call("resume", None, n, 0)) \/ k' = Idle \/ k' = Panic
    BY <1>5 DEF task_switch, task_switch_to
  <2>2. k'.fn \in {"resume", "idle", "panic"}
    BY <2>1 DEF Idle, Panic, Call
  <2> QED
    BY <2>2 DEF ShellControl
<1>6. CASE notify_nobody
  <2>1. k.fn = "notify" /\ ~Awaited(k.t) /\ k'.fn = "destroy"
    BY <1>6 DEF notify_nobody, Call
  <2> QED
    BY <1>1, <2>1 DEF ShellInv, ShellControl
<1>7. CASE task_destroy_children
  <2>1. k.fn = "destroy" /\ k'.fn = "exit"
    BY <1>7 DEF task_destroy_children, Call
  <2> QED
    BY <1>1, <2>1 DEF ShellInv, ShellControl
<1>8. CASE resume \/ sig_handler
  <2>1. k.fn = "resume" /\ (k' = User \/ \E t : k' = Call("destroy", t, k.n, 0))
    BY <1>8 DEF resume, sig_handler
  <2>2. k'.fn \in {"user", "destroy"}
    BY <2>1 DEF User, Call
  <2>3. Runnable # {}
    BY <2>1 DEF IndInv, EntryConditions, ControlInv
  <2> QED
    BY <1>1, <2>2, <2>3 DEF ShellControl
<1> QED
  BY <1>2, <1>3, <1>4, <1>5, <1>6, <1>7, <1>8 DEF StillNext

(* init alone. *)
LEMMA InitShell == Init => ShellInv
<1> SUFFICES ASSUME Init PROVE ShellInv
  OBVIOUS
<1>1. PICK s \in Slots :
        /\ tcb = [t \in Slots |-> IF t = s THEN NewTask(1, None, FALSE) ELSE NoTask]
        /\ os_q = <<s>> /\ sleep_q = <<>>
  BY DEF Init
<1>2. \A t \in Slots : tcb[t].live => tcb[t].id = 1
  BY <1>1 DEF NewTask, NoTask
<1>3. k.fn = "switch"
  BY DEF Init, Switch, Call
<1>4. \A c \in Queued : c = s
  BY <1>1 DEF Queued, Runnable, Sleeping, ToSet
<1> QED
  BY <1>2, <1>3, <1>4 DEF ShellInv, Lineage, OneChild, ShellControl

(* Every step of a shell session keeps ShellInv. *)
LEMMA NextShell == Shell /\ IndInv /\ FamilyInv /\ ShellInv /\ IndInv' /\ [Next]_vars => ShellInv'
<1> SUFFICES ASSUME Shell, IndInv, FamilyInv, ShellInv, IndInv', [Next]_vars PROVE ShellInv'
  OBVIOUS
<1> DEFINE Kin == \A u \in Slots : tcb'[u].live =>
                     tcb[u].live /\ tcb'[u].id = tcb[u].id /\ tcb'[u].parent = tcb[u].parent
<1>k. ASSUME Kin, Queued' \subseteq Queued, ShellControl' PROVE ShellInv'
  BY <1>k, KinKept DEF ShellInv
<1>s. (\A u \in Slots : Same(u)) => Kin
  BY DEF Same
<1> HIDE DEF Kin
<1>1. ASSUME NEW s \in Slots, do_fork(s) PROVE ShellInv'
  BY <1>1, ForkShell
<1>2. CASE StillNext
  <2>1. Still
    BY <1>2, StillSteps
  <2>2. Queued' = Queued /\ Kin
    BY <2>1, <1>s, StillQueues DEF Still
  <2> QED
    BY <1>2, <1>k, <2>2, StillShell
<1>3. CASE stdin_read
  <2>1. (\A u \in Slots : Same(u)) /\ Queued' = Queued /\ k'.fn = "switch"
    BY <1>3, ReadEffect
  <2> QED
    BY <1>k, <1>s, <2>1 DEF ShellControl
<1>4. ASSUME NEW pid \in Tids, waitpid(pid) PROVE ShellInv'
  <2>1. /\ \A u \in Slots : tcb'[u].live = tcb[u].live /\ tcb'[u].id = tcb[u].id /\ tcb'[u].parent = tcb[u].parent
        /\ Queued' = Queued /\ k'.fn = "switch"
    BY <1>4, WaitEffect
  <2>2. Kin
    BY <2>1 DEF Kin
  <2> QED
    BY <1>k, <2>1, <2>2 DEF ShellControl
<1>5. CASE dev_stdin_recall
  <2>1. (\A u \in Slots : Same(u)) /\ Queued' = Queued /\ k' = k /\ k.fn \in {"user", "idle"}
    BY <1>5, RecallEffect
  <2> QED
    BY <1>k, <1>s, <2>1 DEF ShellControl
<1>6. CASE do_exit
  <2>1. /\ \A u \in Slots : tcb'[u].live = tcb[u].live /\ tcb'[u].id = tcb[u].id /\ tcb'[u].parent = tcb[u].parent
        /\ Queued' = Queued \ {k.t}
    BY <1>6, DoExitEffect
  <2>2. Kin
    BY <2>1 DEF Kin
  <2> QED
    BY <1>6, <1>k, <2>1, <2>2, DoExitShell
<1>7. CASE notify_parent
  <2>1. /\ \A u \in Slots : tcb'[u].live = tcb[u].live /\ tcb'[u].id = tcb[u].id /\ tcb'[u].parent = tcb[u].parent
        /\ Queued' = Queued /\ k'.fn = "switch_to" /\ tcb[k.t].parent \in Runnable'
    BY <1>7, NotifyEffect
  <2>2. Kin
    BY <2>1 DEF Kin
  <2> QED
    BY <1>k, <2>1, <2>2 DEF ShellControl
<1>8. CASE task_destroy
  <2>1. /\ \A u \in Slots : u # k.t => Same(u)
        /\ ~tcb'[k.t].live /\ k.fn = "destroy" /\ k'.fn \in {"switch_to", "reaped"}
        /\ Runnable' = Runnable /\ Queued' = Queued
    BY <1>8, DestroyEffect
  <2>2. Kin
    BY <2>1 DEF Kin, Same
  <2>3. Runnable # {}
    BY <2>1 DEF ShellInv, ShellControl
  <2> QED
    BY <1>k, <2>1, <2>2, <2>3 DEF ShellControl
<1>9. CASE sig_handled
  <2>1. /\ \A u \in Slots : tcb'[u].live = tcb[u].live /\ tcb'[u].id = tcb[u].id /\ tcb'[u].parent = tcb[u].parent
        /\ Queued' = Queued /\ k'.fn = "user"
    BY <1>9, HandledEffect
  <2>2. Kin
    BY <2>1 DEF Kin
  <2> QED
    BY <1>k, <2>1, <2>2 DEF ShellControl
<1>10. CASE UNCHANGED vars
  BY <1>10 DEF vars, ShellInv, Lineage, OneChild, ShellControl, Awaited, Runnable, Sleeping, Queued
<1> QED
  BY <1>1, <1>2, <1>3, <1>4, <1>5, <1>6, <1>7, <1>8, <1>9, <1>10
     DEF StillNext, Next, UserStep, KernelStep

(* Where do_exit panics if nobody is in the run queue, somebody is, unless no task
   is left: a shell session ends no task that leaves only sleepers behind, whenever
   the timer lets the child exit. *)
THEOREM ExitsSafe == ASSUME Shell PROVE Spec => []ExitFindsRunnable
<1>1. Init => IndInv /\ FamilyInv /\ ShellInv
  BY InitIndInv, InitFamily, InitShell
<1>2. (IndInv /\ FamilyInv /\ ShellInv) /\ [Next]_vars => (IndInv /\ FamilyInv /\ ShellInv)'
  BY NextIndInv, NextFamily, NextShell DEF Shell
<1>3. IndInv /\ FamilyInv /\ ShellInv => ExitFindsRunnable
  <2> SUFFICES ASSUME IndInv, ShellInv, k.fn = "switch_to", os_q = <<>> PROVE sleep_q = <<>>
    BY DEF ExitFindsRunnable
  <2>1. Runnable = {}
    BY DEF Runnable, ToSet
  <2>2. Sleeping = {}
    BY <2>1 DEF ShellInv, ShellControl, Queued
  <2>3. sleep_q \in Seq(Slots)
    BY DEF IndInv, TypeOK
  <2> QED
    BY <2>2, <2>3 DEF Sleeping, ToSet
<1> QED
  BY <1>1, <1>2, <1>3, PTL DEF Spec
=============================================================================
