-------------------------------- MODULE Task ---------------------------------
(***************************************************************************)
(* The scheduler under its most general client.  A task in a system call   *)
(* may make any sequence of the scheduler's calls that respects their      *)
(* contract, and device interrupts wake tasks at any moment at which       *)
(* interrupts are on.  The components that call the scheduler (task/sync.c,*)
(* userprog/wait_exit.c, device/ioqueue.c) are shown to be such clients.   *)
(***************************************************************************)
EXTENDS Kernel, FiniteSets

task_vars == <<ks, pc>>

\* The contract of task_unblock(): the task gave up the processor and nobody
\* has woken it since.
MayUnblock(t) ==
    /\ t \notin {idle_task, ks.running}
    /\ ks.status[t] \in {"BLOCKED", "WAITING"}
    /\ ~elem_find(ks.ready, t)

\* system-call.S: a user program enters the kernel, or the kernel returns.
EnterKernel == Running("user") /\ Goto("kernel") /\ UNCHANGED ks
LeaveKernel  == Running("kernel") /\ Goto("user") /\ UNCHANGED ks

\* sys_exit() asserts that pid 0 and pid 1 never hang.
Block(status) ==
    /\ Running("kernel")
    /\ status = "HANGING" => ks.running # init_proc
    /\ ks' = task_block(ks, status)
    /\ UNCHANGED pc

Unblock(t) ==
    /\ Running("kernel")
    /\ MayUnblock(t)
    /\ ks' = task_unblock(ks, t)
    /\ UNCHANGED pc

YieldCpu ==
    /\ Running("kernel")
    /\ ks' = task_yield(ks)
    /\ UNCHANGED pc

\* create_task() in a page that is free; the new task starts in user mode.
Create(t) ==
    /\ Running("kernel")
    /\ ks.status[t] = "DIED"
    /\ ks' = create_task(ks, t)
    /\ pc' = [pc EXCEPT ![t] = "user"]

\* sys_wait() frees the page of a child that exited.
Reap(t) ==
    /\ Running("kernel")
    /\ ks.status[t] = "HANGING"
    /\ ks' = [ks EXCEPT !.status[t] = "DIED"]
    /\ UNCHANGED pc

\* The interrupt handler of a device, which may wake the task that waits for it.
IntrAny ==
    /\ IntrOn
    /\ \/ UNCHANGED ks
       \/ \E t \in Tasks : MayUnblock(t) /\ ks' = task_unblock(ks, t)
    /\ pc' = IntrExit

TaskInit == KernelInit

TaskNext ==
    \/ IntrTime \/ IntrAny
    \/ IdleBlock \/ IdleHlt
    \/ EnterKernel \/ LeaveKernel
    \/ \E status \in {"BLOCKED", "HANGING", "WAITING"} : Block(status)
    \/ YieldCpu
    \/ \E t \in Tasks : Unblock(t) \/ Create(t) \/ Reap(t)

TaskSpec == TaskInit /\ [][TaskNext]_task_vars

-----------------------------------------------------------------------------
(* Properties *)

TaskTypeOK ==
    /\ ks \in SchedState
    /\ pc \in [Tasks -> {"user", "kernel"} \cup IdleLabels]

\* No ASSERT of the scheduler fails: a preempted task has used up its slice,
\* nobody enters the ready list twice, and the idle task is blocked whenever
\* schedule() must fall back on it (task.c:40,43,128,260,269,272,281); and every
\* variable keeps its type.
AssertsHold == TaskTypeOK /\ ~ks.panic

\* The ready list never loses or duplicates a task: READY tasks are in it, no
\* task is in it twice, and neither the running task nor one that has exited
\* is in it (schedule(), task_yield(), task_unblock(), sys_wait()).  Exactly the
\* task that tss.ist2 points to has status RUNNING.
QueueOK == QueueSound(ks) /\ UniqueRunning(ks)

\* schedule() always finds a task to run: when the ready list is empty the
\* idle task is the running task or is blocked and can be woken.
IdleAvailable == IdleFallback(ks)

\* The timer ticks that can still pass before a queued task c gets its turn:
\* those of the tasks that are not queued behind c, as pairs of a task and what
\* its ticks field can still be when the interrupt comes.
Behind(k, c) ==
    {t \in Tasks : \E i, j \in DOMAIN k.ready :
                     i < j /\ k.ready[i] = c /\ k.ready[j] = t}

Slots(k, c) ==
    UNION {{t} \X (0..k.ticks[t]) :
              t \in {t \in Tasks \ (Behind(k, c) \cup {c}) : k.status[t] # "DIED"}}

Delay(c) == Cardinality(Slots(ks, c))

\* Waking a task puts it in front of the ready list, yet a queued task is not
\* starved: while it waits no step lengthens its delay and every tick shortens
\* it, because a time slice is renewed only by a task that goes to the end of
\* the list (task.c:41-44, 281-283, timer.c:32-36).
BoundedBypass ==
    [][\A c \in Tasks : elem_find(ks.ready, c) /\ elem_find(ks'.ready, c) =>
          /\ Delay(c)' <= Delay(c)
          /\ IntrTime => Delay(c)' < Delay(c)]_task_vars
=============================================================================
