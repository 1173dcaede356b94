------------------------------- MODULE Kernel --------------------------------
(***************************************************************************)
(* What every component runs on: one processor, the timer interrupt and    *)
(* the idle task.                                                          *)
(*                                                                         *)
(* pc[t] is where task t stands when it has, or next gets, the processor.  *)
(* "user" is any point of a user program; the components add labels for    *)
(* points inside system calls.  System calls run with interrupts off (the  *)
(* ASSERTs on intr_off in device/ioqueue.c are reached from sys_read), so  *)
(* a label inside a system call is left only by a step of that task, and   *)
(* an interrupt arrives only at the labels of IntrOn.                      *)
(***************************************************************************)
EXTENDS Sched

VARIABLES ks, pc

\* The three points of the loop in idle(): about to call task_block(), back
\* from it (interrupts are on again but the processor is not halted yet), and
\* halted.
IdleLabels == {"loop", "woken", "hlt"}

Running(label) == ~ks.panic /\ pc[ks.running] = label

IntrOn == ~ks.panic /\ pc[ks.running] \in {"user"} \cup IdleLabels

\* The return from an interrupt ends a hlt.
IntrExit == [pc EXCEPT ![idle_task] = IF @ = "hlt" THEN "loop" ELSE @]

\* The timer interrupt, vector 0x20.
IntrTime ==
    /\ IntrOn
    /\ ks' = intr_time_handle(ks)
    /\ pc' = IntrExit

\* Mutant: the wrong status.
IdleBlock_hanging ==
    /\ Running("loop")
    /\ ks' = task_block(ks, "HANGING")
    /\ pc' = [pc EXCEPT ![idle_task] = "woken"]

\* idle(): task_block(TASK_BLOCKED).
IdleBlock ==
    /\ Running("loop")
    /\ ks' = task_block(ks, "BLOCKED")
    /\ pc' = [pc EXCEPT ![idle_task] = "woken"]

\* idle(): sti; hlt.
IdleHlt ==
    /\ Running("woken")
    /\ pc' = [pc EXCEPT ![idle_task] = "hlt"]
    /\ UNCHANGED ks

\* A point where the running task goes on to label l.
Goto(l) == pc' = [pc EXCEPT ![ks.running] = l]

KernelInit ==
    /\ ks = task_init
    /\ pc = [t \in Tasks |-> IF t = idle_task THEN "loop" ELSE "user"]
=============================================================================
