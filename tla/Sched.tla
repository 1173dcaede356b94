-------------------------------- MODULE Sched --------------------------------
(***************************************************************************)
(* The scheduler of task/task.c as functions on its state.                 *)
(*                                                                         *)
(* A scheduler state ks is a record of what the scheduler's globals and    *)
(* the scheduling fields of the task_structs hold:                         *)
(*   running  the task whose page tss.ist2 points to (running_task())      *)
(*   status   task_struct.status; "DIED" also stands for a task_struct     *)
(*            page that is not allocated                                   *)
(*   ready    ready_tasks_list, first element first                        *)
(*   ticks    task_struct.ticks, what is left of the time slice            *)
(*   panic    whether an ASSERT has failed: panic_spin never returns       *)
(* Every function of the C code that changes this state is an operator     *)
(* from states to states, so that a handler that calls several of them is  *)
(* their composition, in the order of the calls.                           *)
(***************************************************************************)
EXTENDS Naturals, Sequences

CONSTANTS
    Tasks,      \* the task_struct pages
    idle_task,  \* task.c: idle_task, pid 0
    init_proc,  \* task.c: init_proc, pid 1, the task that boots the kernel
    Prio        \* task_struct.prio, 30 for every task of the system

ASSUME SchedAssumption ==
    /\ idle_task \in Tasks
    /\ init_proc \in Tasks \ {idle_task}
    /\ Prio \in 0..255

Status == {"RUNNING", "READY", "BLOCKED", "HANGING", "WAITING", "DIED"}

SchedState ==
    [running : Tasks,
     status  : [Tasks -> Status],
     ready   : Seq(Tasks),
     ticks   : [Tasks -> 0..255],
     panic   : BOOLEAN]

\* debug.h: ASSERT. A false condition stops the machine for good.
ASSERT(ks, cond) == [ks EXCEPT !.panic = @ \/ ~cond]

-----------------------------------------------------------------------------
(* lib/list.c, for the lists threaded through general_tag *)

elem_find(list, t) == \E i \in DOMAIN list : list[i] = t

list_push(list, t) == <<t>> \o list

list_append(list, t) == Append(list, t)

\* Of an element that is in the list.
list_remove(list, t) ==
    LET i == CHOOSE i \in DOMAIN list : list[i] = t
    IN  SubSeq(list, 1, i - 1) \o SubSeq(list, i + 1, Len(list))

-----------------------------------------------------------------------------
(* task/task.c *)

\* Mutant: a task that is woken gets a new time slice.
task_unblock_renewed(ks, t) ==
    LET k == ASSERT(ks, /\ ks.status[t] \in {"BLOCKED", "HANGING", "WAITING"}
                        /\ ~elem_find(ks.ready, t))
    IN  [k EXCEPT !.ready = list_push(@, t), !.ticks[t] = Prio]

\* The task stays as it is but for its place in the ready list: its status
\* changes only when schedule() picks it.
task_unblock(ks, t) ==
    LET k == ASSERT(ks, /\ ks.status[t] \in {"BLOCKED", "HANGING", "WAITING"}
                        /\ ~elem_find(ks.ready, t))
    IN  [k EXCEPT !.ready = list_push(@, t)]

\* Mutants: the preempted task goes to the front of the list; it is not put into
\* the list.
preempt_front(ks) ==
    LET t == ks.running
        k == ASSERT(ks, ks.ticks[t] = 0 /\ ~elem_find(ks.ready, t))
    IN  [k EXCEPT !.status[t] = "READY",
                  !.ticks[t]  = Prio,
                  !.ready     = list_push(@, t)]

preempt_lost(ks) ==
    LET t == ks.running
        k == ASSERT(ks, ks.ticks[t] = 0 /\ ~elem_find(ks.ready, t))
    IN  [k EXCEPT !.status[t] = "READY", !.ticks[t] = Prio]

\* schedule(), first part: a task that is still RUNNING was preempted.
preempt(ks) ==
    LET t == ks.running
        k == ASSERT(ks, ks.ticks[t] = 0 /\ ~elem_find(ks.ready, t))
    IN  [k EXCEPT !.status[t] = "READY",
                  !.ticks[t]  = Prio,
                  !.ready     = list_append(@, t)]

\* schedule(), second part: the head of the ready list gets the processor.
switch_to_next(ks) ==
    LET next == Head(ks.ready)
    IN  [ks EXCEPT !.status[next] = "RUNNING",
                   !.running      = next,
                   !.ready        = Tail(@)]

schedule(ks) ==
    LET k1 == IF ks.status[ks.running] = "RUNNING" THEN preempt(ks) ELSE ks
        k2 == IF k1.ready = <<>> THEN task_unblock(k1, idle_task) ELSE k1
    IN  switch_to_next(k2)

task_block(ks, status) ==
    schedule([ASSERT(ks, status \in {"BLOCKED", "HANGING", "WAITING"})
                 EXCEPT !.status[ks.running] = status])

\* Mutant: the task that yields keeps its status.
task_yield_running(ks) ==
    LET t == ks.running
        k == ASSERT(ks, ~elem_find(ks.ready, t))
    IN  schedule([k EXCEPT !.ready = list_append(@, t)])

task_yield(ks) ==
    LET t == ks.running
        k == ASSERT(ks, ~elem_find(ks.ready, t))
    IN  schedule([k EXCEPT !.ready     = list_append(@, t),
                           !.status[t] = "READY"])

\* create_task() with what init_task() sets of the scheduler's state.
create_task(ks, t) ==
    LET k == ASSERT(ks, ~elem_find(ks.ready, t))
    IN  [k EXCEPT !.status[t] = "READY",
                  !.ticks[t]  = Prio,
                  !.ready     = list_append(@, t)]

\* What task_init() leaves behind: the boot task runs as pid 1, the idle task
\* was created and waits in the ready list for its first turn.
task_init ==
    [running |-> init_proc,
     status  |-> [t \in Tasks |-> CASE t = init_proc -> "RUNNING"
                                    [] t = idle_task -> "READY"
                                    [] OTHER         -> "DIED"],
     ready   |-> <<idle_task>>,
     ticks   |-> [t \in Tasks |-> Prio],
     panic   |-> FALSE]

-----------------------------------------------------------------------------
(* device/timer.c *)

intr_time_handle_early(ks) ==
    IF ks.ticks[ks.running] <= 1
    THEN schedule(ks)
    ELSE [ks EXCEPT !.ticks[ks.running] = @ - 1]

intr_time_handle(ks) ==
    IF ks.ticks[ks.running] = 0
    THEN schedule(ks)
    ELSE [ks EXCEPT !.ticks[ks.running] = @ - 1]

-----------------------------------------------------------------------------
(* What every scheduler state between two steps satisfies *)

UniqueRunning(k) == \A t \in Tasks : k.status[t] = "RUNNING" <=> t = k.running

NoDuplicates(list) ==
    \A i, j \in DOMAIN list : list[i] = list[j] => i = j

QueueSound(k) ==
    /\ \A t \in Tasks : k.status[t] = "READY" => elem_find(k.ready, t)
    /\ NoDuplicates(k.ready)
    /\ \A i \in DOMAIN k.ready :
          k.status[k.ready[i]] \in {"READY", "BLOCKED", "WAITING"}

IdleFallback(k) ==
    \/ k.running = idle_task
    \/ elem_find(k.ready, idle_task)
    \/ k.status[idle_task] = "BLOCKED"

SchedInv(k) ==
    /\ k \in SchedState
    /\ ~k.panic
    /\ UniqueRunning(k)
    /\ QueueSound(k)
    /\ IdleFallback(k)
=============================================================================
