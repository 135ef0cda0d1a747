------------------------------ MODULE MCTasks ------------------------------
(* Tasks with a few TCB addresses and task ids. *)
EXTENDS Tasks

CONSTANTS s1, s2, s3, s4

TwoSlots   == {s1, s2}
ThreeSlots == {s1, s2, s3}
FourSlots  == {s1, s2, s3, s4}

(* Where a TCB lies does not matter to the kernel. *)
SlotSymmetry == Permutations(Slots)

(* What decides the kernel's next steps.  Return values, exit statuses and
   total_tasks are written but never read, except to be handed on to the
   program; states that differ only in them behave alike. *)
KernelView ==
    <<[t \in Slots |-> [tcb[t] EXCEPT !.ret = 0, !.code = 0, !.pid = 0]],
      os_q, sleep_q, running_tasks, sleeping_tasks, actual_task, old_tid, wait4input,
      [k EXCEPT !.code = 0]>>

(* What a well-behaved program and user may do: nothing out of the shell's
   ways; families of tasks that look after their children; anything. *)
ShellHabits == {}
FamilyHabits == {"siblings"}
Anything == Freedoms
=============================================================================
