-------------------------------- MODULE Sync ---------------------------------
(***************************************************************************)
(* The semaphores of task/sync.c, used as the kernel uses them: as locks   *)
(* that are held across points where the holder gives up the processor.    *)
(*                                                                         *)
(* A system call takes any number of locks, in the order of their numbers  *)
(* (sys_read(): file_table_lock, then the inode_lock of the file, then the *)
(* lock of the ide channel), may block for a device or yield while it      *)
(* holds them, and releases them before it returns.  A system call makes   *)
(* at most MaxOps such calls, whatever their order.                        *)
(***************************************************************************)
EXTENDS Kernel, Sema

CONSTANTS
    Locks,  \* the semaphores that are initialised to 1 and used as locks
    MaxOps  \* bound on the calls of one system call that can block

ASSUME SyncAssumption == Locks \subseteq Nat /\ Locks # {} /\ MaxOps \in Nat

VARIABLES
    sema,  \* sema[l]: the semaphore, its value and its list of waiters
    held,  \* held[t]: the locks that task t has taken and not released
    want,  \* want[t]: the semaphore that t's call of sema_down() is about
    ops    \* ops[t]: the blocking calls that t's system call still makes

vars == <<ks, pc, sema, held, want, ops>>

\* The bound MaxOps: a system call makes so many calls that can block.
UseOp ==
    /\ ops[ks.running] > 0
    /\ ops' = [ops EXCEPT ![ks.running] = @ - 1]

\* A system call starts, and returns once it has released its locks.
SystemCall ==
    /\ Running("user")
    /\ Goto("kernel")
    /\ ops' = [ops EXCEPT ![ks.running] = MaxOps]
    /\ UNCHANGED <<ks, sema, held, want>>

SystemRet ==
    /\ Running("kernel")
    /\ held[ks.running] = {}
    /\ Goto("user")
    /\ UNCHANGED <<ks, sema, held, want, ops>>

\* sys_clone(): the new task starts in user mode and holds nothing.
Clone(t) ==
    /\ Running("kernel")
    /\ ks.status[t] = "DIED"
    /\ ks' = create_task(ks, t)
    /\ pc' = [pc EXCEPT ![t] = "user"]
    /\ UNCHANGED <<sema, held, want, ops>>

\* Mutant: the locks are taken in any order.
CallDown_unordered(l) ==
    /\ Running("kernel")
    /\ UseOp
    /\ l \notin held[ks.running]
    /\ want' = [want EXCEPT ![ks.running] = l]
    /\ Goto("down")
    /\ UNCHANGED <<ks, sema, held>>

\* A system call reaches sema_down(l).
CallDown(l) ==
    /\ Running("kernel")
    /\ UseOp
    /\ \A m \in held[ks.running] : m < l
    /\ want' = [want EXCEPT ![ks.running] = l]
    /\ Goto("down")
    /\ UNCHANGED <<ks, sema, held>>

\* sema_down(): the value is 0 and the task waits, still at the loop, or it takes
\* the lock.
SemaDownWait ==
    LET t == ks.running
        l == want[t]
    IN  /\ Running("down")
        /\ sema[l].value = 0
        /\ sema' = [sema EXCEPT ![l] = sema_wait(@, t)]
        /\ ks' = sema_wait_sched(ks, sema[l])
        /\ UNCHANGED <<pc, held, want, ops>>

SemaDownTake ==
    LET t == ks.running
        l == want[t]
    IN  /\ Running("down")
        /\ sema[l].value # 0
        /\ sema' = [sema EXCEPT ![l] = sema_take(@)]
        /\ ks' = sema_take_sched(ks, sema[l])
        /\ held' = [held EXCEPT ![t] = @ \cup {l}]
        /\ Goto("kernel")
        /\ UNCHANGED <<want, ops>>

\* sema_up() by the holder.
SemaUp(l) ==
    /\ Running("kernel")
    /\ l \in held[ks.running]
    /\ ks' = sema_up_sched(ks, sema[l])
    /\ sema' = [sema EXCEPT ![l] = sema_up(@)]
    /\ held' = [held EXCEPT ![ks.running] = @ \ {l}]
    /\ UNCHANGED <<pc, want, ops>>

\* The task waits for a device, whatever locks it holds: ide_read() and ide_write()
\* in sema_down(&disk_done).  The interrupt of the command cannot come before the
\* task sleeps, because the driver runs with interrupts off.
IoWait ==
    /\ Running("kernel")
    /\ UseOp
    /\ Goto("io")
    /\ ks' = task_block(ks, "BLOCKED")
    /\ UNCHANGED <<sema, held, want>>

IoDone ==
    /\ Running("io")
    /\ Goto("kernel")
    /\ UNCHANGED <<ks, sema, held, want, ops>>

\* Mutant: a second interrupt finds the task already woken.
IntrDevice_twice(t) ==
    /\ IntrOn
    /\ pc[t] = "io"
    /\ ks' = task_unblock(ks, t)
    /\ pc' = IntrExit
    /\ UNCHANGED <<sema, held, want, ops>>

\* The interrupt of a device wakes the task that waits for it: intr_hd_handle()
\* with expecting_intr set.
IntrDevice(t) ==
    /\ IntrOn
    /\ pc[t] = "io"
    /\ ~elem_find(ks.ready, t)
    /\ ks' = task_unblock(ks, t)
    /\ pc' = IntrExit
    /\ UNCHANGED <<sema, held, want, ops>>

\* busy_wait() of the ide driver and sched_yield() give up the processor.
Yield ==
    /\ Running("kernel")
    /\ UseOp
    /\ ks' = task_yield(ks)
    /\ UNCHANGED <<pc, sema, held, want>>

Timer     == IntrTime /\ UNCHANGED <<sema, held, want, ops>>
IdleSteps == (IdleBlock \/ IdleHlt) /\ UNCHANGED <<sema, held, want, ops>>

Init ==
    /\ KernelInit
    /\ sema = [l \in Locks |-> sema_init(1)]
    /\ held = [t \in Tasks |-> {}]
    /\ want = [t \in Tasks |-> CHOOSE l \in Locks : TRUE]
    /\ ops = [t \in Tasks |-> 0]

KernelStep ==
    \/ SemaDownWait \/ SemaDownTake \/ IoDone \/ SystemRet
    \/ \E l \in Locks : CallDown(l) \/ SemaUp(l)
    \/ IoWait \/ Yield
    \/ \E t \in Tasks : Clone(t)

Next ==
    \/ Timer \/ IdleSteps \/ SystemCall \/ KernelStep
    \/ \E t \in Tasks : IntrDevice(t)

Spec == Init /\ [][Next]_vars

\* The processor executes whatever task has it; the interrupt controller keeps
\* a timer or device interrupt pending until interrupts are on, and a device
\* finishes what it was asked for.  Nothing makes a user program call the
\* kernel.
Fairness ==
    /\ WF_vars(KernelStep) /\ WF_vars(IdleSteps) /\ SF_vars(Timer)
    /\ \A t \in Tasks : SF_vars(IntrDevice(t))

FairSpec == Spec /\ Fairness

-----------------------------------------------------------------------------
(* Properties *)

TypeOK ==
    /\ ks \in SchedState
    /\ pc \in [Tasks -> {"user", "kernel", "down", "io"} \cup IdleLabels]
    /\ sema \in [Locks -> SemaState]
    /\ held \in [Tasks -> SUBSET Locks]
    /\ want \in [Tasks -> Locks]
    /\ ops \in [Tasks -> 0..MaxOps]

\* No ASSERT of sync.c or task.c fails: a value is never above 1 or below 0, a
\* waiter is never queued twice, and whoever is woken was blocked; and every
\* variable keeps its type.
NoPanic == TypeOK /\ ~ks.panic

\* A lock is held by one task at a time, also while its holder is blocked for
\* a device, has yielded or waits for the next lock; it is free when no task
\* holds it.
MutualExclusion ==
    \A l \in Locks :
        /\ \A t, u \in Tasks : l \in held[t] \cap held[u] => t = u
        /\ sema[l].value = 1 <=> \A t \in Tasks : l \notin held[t]

\* general_tag links a task into one list at most: the ready list or the
\* waiters of one semaphore.  A second insertion would corrupt both lists.
TagInOneList ==
    \A l \in Locks :
        /\ NoDuplicates(sema[l].waiters)
        /\ \A t \in Tasks : elem_find(sema[l].waiters, t) =>
              /\ ~elem_find(ks.ready, t) /\ t # ks.running
              /\ \A m \in Locks \ {l} : ~elem_find(sema[m].waiters, t)

\* No wakeup is lost: a task in sema_down() that is not on the processor is
\* queued somewhere, and if a lock is free while tasks wait for it then a task
\* that was woken for it is on its way to test the value again.
NoLostWakeup ==
    /\ \A t \in Tasks :
          pc[t] = "down" /\ t # ks.running /\ ~elem_find(ks.ready, t)
            => elem_find(sema[want[t]].waiters, t)
    /\ \A l \in Locks :
          sema[l].value = 1 /\ sema[l].waiters # <<>> =>
            \E t \in Tasks : /\ pc[t] = "down" /\ want[t] = l
                             /\ t = ks.running \/ elem_find(ks.ready, t)

\* The lock that comes last in the order is released again whenever it is
\* taken: no tasks wait for each other in a circle and nobody sleeps through a
\* release.  An outer lock has no such guarantee: sema_up() leaves the value
\* for anyone to take, so its holder may lose the race for an inner lock every
\* time.
LockReleased ==
    \A l \in {m \in Locks : \A n \in Locks : n <= m} :
        sema[l].value = 0 ~> sema[l].value = 1

\* A task in the ready list gets the processor, although woken tasks are put
\* in front of it.
ReadyRuns ==
    \A t \in Tasks : elem_find(ks.ready, t) ~> ks.running = t

\* The semaphores are a client of the scheduler that respects its contract:
\* every step is one of Task's steps.
Scheduler ==
    INSTANCE Task WITH pc <- [t \in Tasks |->
        IF pc[t] \in {"down", "io"} THEN "kernel" ELSE pc[t]]

RefinesTask == Scheduler!TaskSpec
=============================================================================
