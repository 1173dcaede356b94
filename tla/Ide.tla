--------------------------------- MODULE Ide ---------------------------------
(***************************************************************************)
(* The disk driver of device/ide.c: ide_read(), ide_write() and the        *)
(* interrupt handler of one channel with one disk, between tasks that are  *)
(* scheduled by Sched.                                                     *)
(*                                                                         *)
(* Labels: "lock" and "done" are the loops of sema_down() of the channel   *)
(* and of disk_done, "poll" is the head of the loop in busy_wait(),        *)
(* "sleep" the loop of ticks_to_sleep().  A disk that is busy for longer   *)
(* than busy_wait() waits fails the ASSERT around the call; the task then  *)
(* stays at "panic_spin", with interrupts off.  The other ASSERTs are in   *)
(* ks.panic, which must never be set.                                      *)
(*                                                                         *)
(* Requests of less than 256 sectors take one turn of the loop over the    *)
(* sectors; the kernel asks for 40 at most.                                *)
(*                                                                         *)
(* The disk is modelled as the driver uses it: a command makes it busy     *)
(* (BSY) until it has data, or takes them (DRQ).  It raises an interrupt   *)
(* when it has data and again while the sectors behind the first one are   *)
(* read, and when it has written.  An interrupt that has not been          *)
(* delivered is withdrawn when the status is read or a command is sent.    *)
(*                                                                         *)
(* Every program but the idle task may also sleep for something else, as   *)
(* init and the shell do in wait(), and nothing makes it wake up.          *)
(***************************************************************************)
EXTENDS Kernel, Sema

CONSTANTS
    Users,        \* the tasks that use the disk
    Sectors,      \* the lba arguments
    MidWriteIrq,  \* whether the disk interrupts while it still takes data
    TimeLimit     \* what busy_wait() starts with: 30000; "-= 10 > 0" subtracts 1

ASSUME IdeAssumption ==
    /\ Users \subseteq Tasks \ {idle_task} /\ MidWriteIrq \in BOOLEAN
    /\ TimeLimit \in Nat \ {0, 1}

VARIABLES
    lock, disk_done, expecting_intr,  \* struct ide_channel
    disk,   \* the disk: what it is doing, and the command and lba in its registers
    irq,    \* an interrupt of the disk is pending
    req,    \* req[t]: the command and lba of t's call
    ticked, \* the tasks in mtime_sleep() for which a tick has passed
    time_limit \* time_limit[t]: that of t's busy_wait(); outside of it TimeLimit

vars == <<ks, pc, lock, disk_done, expecting_intr, disk, irq, req, ticked, time_limit>>

Commands == {"CMD_READ_SECTOR", "CMD_WRITE_SECTOR"}
Request  == [cmd : Commands, lba : Sectors]

IsRead(t) == req[t].cmd = "CMD_READ_SECTOR"

BIT_STAT_BSY == disk.state \in {"seeking", "writing"}
BIT_STAT_DRQ == disk.state = "data"

-----------------------------------------------------------------------------
(* ide_read() and ide_write() *)

CallIde(r) ==
    /\ Running("user")
    /\ ks.running \in Users
    /\ req' = [req EXCEPT ![ks.running] = r]
    /\ Goto("lock")
    /\ UNCHANGED <<ks, lock, disk_done, expecting_intr, disk, irq, ticked, time_limit>>

LockWait ==
    /\ Running("lock")
    /\ lock.value = 0
    /\ lock' = sema_wait(lock, ks.running)
    /\ ks' = sema_wait_sched(ks, lock)
    /\ UNCHANGED <<pc, disk_done, expecting_intr, disk, irq, req, ticked, time_limit>>

\* Mutant: expecting_intr is not set.
cmd_out_silent(r) ==
    /\ UNCHANGED expecting_intr
    /\ \E s \in {"seeking"} \cup (IF r.cmd = "CMD_WRITE_SECTOR" THEN {"data"} ELSE {}) :
          disk' = [state |-> s, cmd |-> r.cmd, lba |-> r.lba]
    /\ irq' = FALSE

\* select_sector() and cmd_out().  A disk may take the data of a write at once.
cmd_out(r) ==
    /\ expecting_intr' = TRUE
    /\ \E s \in {"seeking"} \cup (IF r.cmd = "CMD_WRITE_SECTOR" THEN {"data"} ELSE {}) :
          disk' = [state |-> s, cmd |-> r.cmd, lba |-> r.lba]
    /\ irq' = FALSE

Locked ==
    /\ Running("lock")
    /\ lock.value # 0
    /\ lock' = sema_take(lock)
    /\ ks' = sema_take_sched(ks, lock)
    /\ cmd_out(req[ks.running])
    /\ Goto(IF IsRead(ks.running) THEN "done" ELSE "poll")
    /\ UNCHANGED <<disk_done, req, ticked, time_limit>>

DoneWait ==
    /\ Running("done")
    /\ disk_done.value = 0
    /\ disk_done' = sema_wait(disk_done, ks.running)
    /\ ks' = sema_wait_sched(ks, disk_done)
    /\ UNCHANGED <<pc, lock, expecting_intr, disk, irq, req, ticked, time_limit>>

DoneRead ==
    /\ Running("done") /\ IsRead(ks.running)
    /\ disk_done.value # 0
    /\ disk_done' = sema_take(disk_done)
    /\ ks' = sema_take_sched(ks, disk_done)
    /\ Goto("poll")
    /\ UNCHANGED <<lock, expecting_intr, disk, irq, req, ticked, time_limit>>

\* ide_write() ends here.
DoneWrite ==
    /\ Running("done") /\ ~IsRead(ks.running)
    /\ disk_done.value # 0
    /\ disk_done' = sema_take(disk_done)
    /\ lock' = sema_up(lock)
    /\ ks' = sema_up_sched(sema_take_sched(ks, disk_done), lock)
    /\ Goto("user")
    /\ UNCHANGED <<expecting_intr, disk, irq, req, ticked, time_limit>>

-----------------------------------------------------------------------------
(* busy_wait() and what follows it *)

\* The loop has another round: what is subtracted from time_limit leaves something.
InTime == time_limit[ks.running] > 1

\* The disk is busy: mtime_sleep(10), which is one tick.
PollBusy ==
    /\ Running("poll") /\ InTime
    /\ BIT_STAT_BSY
    /\ irq' = FALSE
    /\ ticked' = ticked \ {ks.running}
    /\ time_limit' = [time_limit EXCEPT ![ks.running] = @ - 1]
    /\ Goto("sleep")
    /\ UNCHANGED <<ks, lock, disk_done, expecting_intr, disk, req>>

\* busy_wait() returns false and the ASSERT fails: panic_spin() never returns.
PollTimeout ==
    /\ Running("poll") /\ ~InTime
    /\ Goto("panic_spin")
    /\ UNCHANGED <<ks, lock, disk_done, expecting_intr, disk, irq, req, ticked, time_limit>>

PanicSpin == Running("panic_spin") /\ UNCHANGED vars

Sleep ==
    /\ Running("sleep")
    /\ ks.running \notin ticked
    /\ ks' = task_yield(ks)
    /\ UNCHANGED <<pc, lock, disk_done, expecting_intr, disk, irq, req, ticked, time_limit>>

Slept ==
    /\ Running("sleep")
    /\ ks.running \in ticked
    /\ ticked' = ticked \ {ks.running}
    /\ Goto("poll")
    /\ UNCHANGED <<ks, lock, disk_done, expecting_intr, disk, irq, req, time_limit>>

\* read_from_sector(); ide_read() ends here.
PollRead ==
    /\ Running("poll") /\ InTime /\ IsRead(ks.running)
    /\ ~BIT_STAT_BSY
    /\ disk' = [disk EXCEPT !.state = "idle"]
    /\ irq' \in BOOLEAN
    /\ lock' = sema_up(lock)
    /\ ks' = sema_up_sched(ASSERT(ks, BIT_STAT_DRQ), lock)
    /\ Goto("user")
    /\ time_limit' = [time_limit EXCEPT ![ks.running] = TimeLimit]
    /\ UNCHANGED <<disk_done, expecting_intr, req, ticked>>

\* Mutant: ide_write() does not wait for the interrupt.
PollWrite_hasty ==
    /\ Running("poll") /\ InTime /\ ~IsRead(ks.running)
    /\ ~BIT_STAT_BSY
    /\ disk' = [disk EXCEPT !.state = "writing"]
    /\ irq' = FALSE
    /\ lock' = sema_up(lock)
    /\ ks' = sema_up_sched(ASSERT(ks, BIT_STAT_DRQ), lock)
    /\ Goto("user")
    /\ time_limit' = [time_limit EXCEPT ![ks.running] = TimeLimit]
    /\ UNCHANGED <<disk_done, expecting_intr, req, ticked>>

\* write2sector().
PollWrite ==
    /\ Running("poll") /\ InTime /\ ~IsRead(ks.running)
    /\ ~BIT_STAT_BSY
    /\ disk' = [disk EXCEPT !.state = "writing"]
    /\ irq' \in {FALSE, MidWriteIrq}
    /\ ks' = ASSERT(ks, BIT_STAT_DRQ)
    /\ Goto("done")
    /\ time_limit' = [time_limit EXCEPT ![ks.running] = TimeLimit]
    /\ UNCHANGED <<lock, disk_done, expecting_intr, req, ticked>>

-----------------------------------------------------------------------------
(* The disk and its interrupt *)

DiskReady ==
    /\ disk.state = "seeking"
    /\ disk' = [disk EXCEPT !.state = "data"]
    /\ irq' = (irq \/ disk.cmd = "CMD_READ_SECTOR")
    /\ UNCHANGED <<ks, pc, lock, disk_done, expecting_intr, req, ticked, time_limit>>

DiskWritten ==
    /\ disk.state = "writing"
    /\ disk' = [disk EXCEPT !.state = "idle"]
    /\ irq' = TRUE
    /\ UNCHANGED <<ks, pc, lock, disk_done, expecting_intr, req, ticked, time_limit>>

intr_hd_handle ==
    /\ IntrOn /\ irq
    /\ irq' = FALSE
    /\ expecting_intr' = FALSE
    /\ IF expecting_intr
       THEN disk_done' = sema_up(disk_done) /\ ks' = sema_up_sched(ks, disk_done)
       ELSE UNCHANGED <<disk_done, ks>>
    /\ pc' = IntrExit
    /\ UNCHANGED <<lock, disk, req, ticked, time_limit>>

-----------------------------------------------------------------------------
ide == <<lock, disk_done, expecting_intr, disk, irq, req>>

\* The tick that ticks_to_sleep() waits for.
Timer ==
    /\ IntrTime
    /\ ticked' = {t \in Users : pc[t] = "sleep"}
    /\ UNCHANGED <<ide, time_limit>>

Clone(t) ==
    /\ Running("user")
    /\ ks.status[t] = "DIED"
    /\ ks' = create_task(ks, t)
    /\ UNCHANGED <<pc, ide, ticked, time_limit>>

IdleSteps == (IdleBlock \/ IdleHlt) /\ UNCHANGED <<ide, ticked, time_limit>>

\* A program sleeps for something else than the disk: sys_wait().
Wait ==
    /\ Running("user")
    /\ ks' = task_block(ks, "WAITING")
    /\ UNCHANGED <<pc, ide, ticked, time_limit>>

\* What it waits for happens, as an interrupt or in a step of another program:
\* sys_exit() of a child.
Wake(t) ==
    /\ IntrOn
    /\ ks.status[t] = "WAITING" /\ ~elem_find(ks.ready, t)
    /\ ks' = task_unblock(ks, t)
    /\ pc' = IntrExit
    /\ UNCHANGED <<ide, ticked, time_limit>>

\* What ide_init() leaves behind, after it has identified the disk.
Init ==
    /\ KernelInit
    /\ lock = sema_init(1)
    /\ disk_done = sema_init(0)
    /\ expecting_intr = FALSE
    /\ \E r \in Request :
          /\ disk = [state |-> "idle", cmd |-> r.cmd, lba |-> r.lba]
          /\ req = [t \in Users |-> r]
    /\ irq = FALSE
    /\ ticked = {}
    /\ time_limit = [t \in Users |-> TimeLimit]

KernelStep ==
    \/ LockWait \/ Locked \/ DoneWait \/ DoneRead \/ DoneWrite
    \/ PollBusy \/ PollTimeout \/ PanicSpin \/ Sleep \/ Slept \/ PollRead \/ PollWrite

Next ==
    \/ KernelStep \/ Timer \/ IdleSteps
    \/ DiskReady \/ DiskWritten \/ intr_hd_handle
    \/ \E r \in Request : CallIde(r)
    \/ Wait
    \/ \E t \in Tasks : Clone(t) \/ Wake(t)

Spec == Init /\ [][Next]_vars

\* The disk ends what it has begun, and its interrupt is delivered.
Fairness ==
    /\ WF_vars(KernelStep) /\ WF_vars(IdleSteps) /\ SF_vars(Timer)
    /\ WF_vars(DiskReady \/ DiskWritten) /\ SF_vars(intr_hd_handle)

FairSpec == Spec /\ Fairness

-----------------------------------------------------------------------------
(* Properties *)

TypeOK ==
    /\ ks \in SchedState
    /\ pc \in [Tasks -> {"user", "lock", "done", "poll", "sleep", "panic_spin"}
                        \cup IdleLabels]
    /\ lock \in SemaState /\ disk_done \in SemaState
    /\ expecting_intr \in BOOLEAN /\ irq \in BOOLEAN
    /\ disk.state \in {"idle", "seeking", "data", "writing"}
    /\ req \in [Users -> Request] /\ ticked \subseteq Users
    /\ time_limit \in [Users -> 1..TimeLimit]

\* The tasks that have sent a command and not finished it.
Owners == {t \in Users : pc[t] \in {"done", "poll", "sleep", "panic_spin"}}

\* A command gets its own interrupt: when disk_done is up, the disk has done what
\* the task that holds the channel asked for, not what was asked before.  And
\* the channel is released only when the disk is idle, so that nobody sends a
\* command to a busy disk or changes the registers of somebody else's.  But for a
\* disk that is busy longer than busy_wait() waits no ASSERT fails: the handler
\* never counts disk_done up twice, also when the disk interrupts more than once
\* for a command, and a disk that is not busy is ready for data (sync.c:28,
\* ide.c:115,134).
OwnInterrupt ==
    /\ TypeOK /\ ~ks.panic
    /\ disk_done.value = 1 =>
          disk.state = IF disk.cmd = "CMD_READ_SECTOR" THEN "data" ELSE "idle"
    /\ lock.value = 1 => disk.state = "idle" /\ Owners = {}
    /\ \A t \in Owners : Owners = {t} /\ disk.cmd = req[t].cmd /\ disk.lba = req[t].lba

\* t waits for a tick in ticks_to_sleep() with interrupts off, and there is no other
\* task that it could give the processor to and that would turn them on.
Alone(t) == ks.running = t /\ pc[t] = "sleep" /\ t \notin ticked /\ ks.ready = <<>>

\* A command that is sent is finished, whatever interrupts, comes late or sleeps,
\* with two exceptions: the disk is busy for longer than busy_wait() waits, and the
\* machine stops at the ASSERT; or the task that polls the disk is alone (timer.c:52).
CommandEnds ==
    \A t \in Users : t \in Owners ~> pc[t] \in {"user", "panic_spin"} \/ Alone(t)

\* What syscall.h:30 says of write(): it returns.  A command ends, or the ASSERT
\* fails.  It does not hold (MCIdeAlone.cfg): when all the other programs sleep the
\* task that polls a busy disk yields to itself for ever.
CommandReturns == \A t \in Users : t \in Owners ~> pc[t] \in {"user", "panic_spin"}
=============================================================================
