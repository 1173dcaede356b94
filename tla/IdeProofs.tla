------------------------------ MODULE IdeProofs ------------------------------
(***************************************************************************)
(* Ide: whoever holds the channel gets the interrupt of its own command,   *)
(* for any number of tasks and sectors, with a disk that interrupts once   *)
(* for a write.                                                            *)
(***************************************************************************)
EXTENDS Ide, SchedProofs

USE SchedAssumption

\* The disk takes all the sectors of a write before it interrupts.
OneWriteIrq == MidWriteIrq = FALSE

-----------------------------------------------------------------------------
(* The inductive invariant *)

PcOK ==
    /\ pc \in [Tasks -> {"user", "lock", "done", "poll", "sleep", "panic_spin"}
                        \cup IdleLabels]
    /\ \A t \in Tasks : pc[t] \in IdleLabels <=> t = idle_task
    /\ \A t \in Tasks : pc[t] \in {"lock", "done", "poll", "sleep", "panic_spin"} => t \in Users

DevOK ==
    /\ lock \in SemaState /\ disk_done \in SemaState
    /\ expecting_intr \in BOOLEAN /\ irq \in BOOLEAN
    /\ disk \in [state : {"idle", "seeking", "data", "writing"},
                 cmd : Commands, lba : Sectors]
    /\ req \in [Users -> Request] /\ ticked \subseteq Users

\* Who is in the list of a semaphore sleeps in sema_down() of that semaphore.
WaitersOK ==
    /\ Asleep(ks, lock.waiters) /\ Asleep(ks, disk_done.waiters)
    /\ \A t \in Tasks : elem_find(lock.waiters, t) => pc[t] = "lock"
    /\ \A t \in Tasks : elem_find(disk_done.waiters, t) => pc[t] = "done"

\* One task at a time uses the channel, and its command is in the registers.
OwnerOK ==
    /\ lock.value = 1 => Owners = {}
    /\ \A t, u \in Owners : t = u
    /\ \A t \in Owners : disk.cmd = req[t].cmd /\ disk.lba = req[t].lba

\* What the driver expects, what the disk does, and whether disk_done is up.
Phase(e, s, v) == expecting_intr = e /\ disk.state = s /\ disk_done.value = v

FreeOK == Owners = {} => Phase(FALSE, "idle", 0)

\* ide_read(): the command, the data and their interrupt, disk_done.
ReadOK ==
    \A t \in Owners : IsRead(t) =>
        /\ pc[t] # "sleep"
        /\ pc[t] \in {"poll", "panic_spin"} => Phase(FALSE, "data", 0)
        /\ pc[t] = "done" => \/ Phase(TRUE, "seeking", 0) /\ irq = FALSE
                             \/ Phase(TRUE, "data", 0) /\ irq = TRUE
                             \/ Phase(FALSE, "data", 1)

\* ide_write(): the command, the data, the interrupt, disk_done.
WriteOK ==
    \A t \in Owners : ~IsRead(t) =>
        /\ pc[t] \in {"poll", "sleep", "panic_spin"} =>
              irq = FALSE /\ (Phase(TRUE, "seeking", 0) \/ Phase(TRUE, "data", 0))
        /\ pc[t] = "done" => \/ Phase(TRUE, "writing", 0) /\ irq = FALSE
                             \/ Phase(TRUE, "idle", 0) /\ irq = TRUE
                             \/ Phase(FALSE, "idle", 1)

Inv ==
    /\ SchedInv(ks)
    /\ PcOK /\ DevOK /\ WaitersOK /\ OwnerOK /\ FreeOK /\ ReadOK /\ WriteOK

LEMMA InitInv == Init => Inv
<1> SUFFICES ASSUME Init PROVE Inv
  OBVIOUS
<1>1. SchedInv(ks)
  BY TaskInitFacts DEF Init, KernelInit
<1>2. PcOK /\ Owners = {}
  BY IdeAssumption DEF Init, KernelInit, PcOK, IdleLabels, Owners
<1>3. /\ lock \in SemaState /\ disk_done \in SemaState
      /\ lock.waiters = <<>> /\ disk_done.waiters = <<>> /\ disk_done.value = 0
  BY DEF Init, sema_init, SemaState
<1>4. PICK r \in Request : /\ disk = [state |-> "idle", cmd |-> r.cmd, lba |-> r.lba]
                           /\ req = [t \in Users |-> r]
  BY DEF Init
<1>5. DevOK
  <2>1. expecting_intr = FALSE /\ irq = FALSE /\ ticked = {}
    BY DEF Init
  <2>2. r.cmd \in Commands /\ r.lba \in Sectors
    BY DEF Request
  <2> QED BY <1>3, <1>4, <2>1, <2>2 DEF DevOK
<1>6. WaitersOK
  BY <1>3 DEF WaitersOK, Asleep, NoDuplicates, elem_find
<1>7. OwnerOK /\ ReadOK /\ WriteOK
  BY <1>2 DEF OwnerOK, ReadOK, WriteOK
<1>8. FreeOK
  BY <1>3, <1>4 DEF FreeOK, Phase, Init
<1> QED BY <1>1, <1>2, <1>5, <1>6, <1>7, <1>8 DEF Inv

-----------------------------------------------------------------------------
(* Lemmas *)

\* What the proofs of the steps need of the current state.
LEMMA Now ==
    ASSUME Inv
    PROVE  /\ ks \in SchedState /\ SchedInv(ks)
           /\ ks.running \in Tasks /\ ks.status[ks.running] = "RUNNING"
           /\ PcOK /\ DevOK /\ WaitersOK /\ OwnerOK /\ FreeOK /\ ReadOK /\ WriteOK
           /\ Users \subseteq Tasks \ {idle_task}
BY StateFields, RunningNotQueued, IdeAssumption DEF Inv, SchedInv

\* Only the disk, its interrupt and the owner of the channel matter to a command.
LEMMA CommandKept ==
    ASSUME ReadOK, WriteOK, UNCHANGED <<expecting_intr, disk, irq>>,
           disk_done'.value = disk_done.value, Owners' = Owners,
           \A t \in Owners : pc'[t] = pc[t] /\ req'[t] = req[t]
    PROVE  ReadOK' /\ WriteOK'
<1>1. \A e, s, v : Phase(e, s, v)' <=> Phase(e, s, v)
  BY DEF Phase
<1>2. \A t \in Owners : IsRead(t)' <=> IsRead(t)
  BY DEF IsRead
<1>3. ReadOK'
  BY <1>1, <1>2 DEF ReadOK
<1>4. WriteOK'
  BY <1>1, <1>2 DEF WriteOK
<1> QED BY <1>3, <1>4

\* A task that runs is in no list.
LEMMA RunningAwake ==
    ASSUME Inv
    PROVE  /\ ~elem_find(lock.waiters, ks.running)
           /\ ~elem_find(disk_done.waiters, ks.running)
BY Now DEF WaitersOK, Asleep

\* The fields of the disk.
LEMMA DiskFields ==
    ASSUME Inv
    PROVE  /\ \A s : LET n == [disk EXCEPT !.state = s]
                     IN  n.state = s /\ n.cmd = disk.cmd /\ n.lba = disk.lba
           /\ \A s \in {"idle", "seeking", "data", "writing"} :
                 [disk EXCEPT !.state = s] \in
                     [state : {"idle", "seeking", "data", "writing"},
                      cmd : Commands, lba : Sectors]
           /\ disk.state \in {"idle", "seeking", "data", "writing"}
BY Now DEF DevOK

\* Steps that leave the driver and the disk alone.
LEMMA QuietInv ==
    ASSUME Inv, SchedInv(ks'), PcOK', UNCHANGED ide, ticked' \subseteq Users,
           \A list : Asleep(ks, list) => Asleep(ks', list),
           \A t \in Tasks \ {idle_task} : pc'[t] = pc[t]
    PROVE  Inv'
<1>1. UNCHANGED <<lock, disk_done, expecting_intr, disk, irq, req>>
  BY DEF ide
<1>2. DevOK'
  BY <1>1, Now DEF DevOK
<1>3. WaitersOK'
  <2>1. Asleep(ks', lock.waiters) /\ Asleep(ks', disk_done.waiters)
    BY Now DEF WaitersOK
  <2>2. \A t \in Tasks : elem_find(lock.waiters, t) \/ elem_find(disk_done.waiters, t)
           => t # idle_task
    BY Now DEF WaitersOK, Asleep
  <2> QED BY <1>1, <2>1, <2>2, Now DEF WaitersOK
<1>4. Owners' = Owners /\ \A t \in Owners : pc'[t] = pc[t]
  BY Now DEF Owners
<1>5. OwnerOK' /\ FreeOK'
  BY <1>1, <1>4, Now DEF OwnerOK, FreeOK, Phase
<1>6. ReadOK' /\ WriteOK'
  BY <1>1, <1>4, Now, CommandKept
<1> QED BY <1>2, <1>3, <1>5, <1>6 DEF Inv

\* A step of a task moves only that task.
LEMMA Moved ==
    ASSUME Inv, NEW l \in {"user", "lock", "done", "poll", "sleep", "panic_spin"}, Goto(l),
           ks.running \in Users
    PROVE  /\ PcOK' /\ pc'[ks.running] = l
           /\ \A t \in Tasks \ {ks.running} : pc'[t] = pc[t]
           /\ \A t : t \in Owners' <=>
                 IF t = ks.running THEN l \in {"done", "poll", "sleep", "panic_spin"} ELSE t \in Owners
<1>1. /\ ks.running \in Tasks \ {idle_task} /\ pc' = [pc EXCEPT ![ks.running] = l]
  BY Now DEF Goto
<1>2. PcOK'
  BY <1>1, Now DEF PcOK, IdleLabels
<1>3. /\ pc'[ks.running] = l /\ \A t \in Tasks \ {ks.running} : pc'[t] = pc[t]
  BY <1>1, Now DEF PcOK
<1>4. \A t : t \in Owners' <=>
         IF t = ks.running THEN l \in {"done", "poll", "sleep", "panic_spin"} ELSE t \in Owners
  BY <1>1, <1>3, Now DEF Owners
<1> QED BY <1>2, <1>3, <1>4

\* Who is inside the driver uses the disk.
LEMMA Inside ==
    ASSUME Inv, NEW l \in {"lock", "done", "poll", "sleep", "panic_spin"}, Running(l)
    PROVE  /\ ks.running \in Users /\ ks.running # idle_task /\ pc[ks.running] = l
           /\ l # "lock" => Owners = {ks.running}
<1>1. ks.running \in Users /\ ks.running # idle_task /\ pc[ks.running] = l
  BY Now DEF Running, PcOK
<1>2. l # "lock" => ks.running \in Owners
  BY <1>1 DEF Owners
<1> QED BY <1>1, <1>2, Now DEF OwnerOK

-----------------------------------------------------------------------------
(* The steps of the scheduler *)

LEMMA TimerInv == ASSUME Inv, Timer PROVE Inv'
<1>1. /\ ks' = intr_time_handle(ks) /\ pc' = IntrExit /\ UNCHANGED ide
      /\ ticked' \subseteq Users
  BY DEF Timer, IntrTime
<1>2. SchedInv(ks') /\ \A list : Asleep(ks, list) => Asleep(ks', list)
  BY <1>1, Now, TimeFacts, AsleepTime
<1>3. PcOK' /\ \A t \in Tasks \ {idle_task} : pc'[t] = pc[t]
  BY <1>1, Now DEF IntrExit, PcOK, IdleLabels
<1> QED BY <1>1, <1>2, <1>3, QuietInv

LEMMA IdleStepsInv == ASSUME Inv, IdleSteps PROVE Inv'
<1>1. UNCHANGED <<ide, ticked>> /\ PcOK' /\ \A t \in Tasks \ {idle_task} : pc'[t] = pc[t]
  BY Now DEF IdleSteps, IdleBlock, IdleHlt, PcOK, IdleLabels
<1>2. SchedInv(ks') /\ \A list : Asleep(ks, list) => Asleep(ks', list)
  <2>1. CASE IdleHlt
    BY <2>1, Now DEF IdleHlt
  <2>2. CASE IdleBlock
    <3>1. SchedInv(ks') /\ Blocked(ks, ks', "BLOCKED")
      BY <2>2, Now, BlockFacts DEF IdleBlock
    <3> QED BY <3>1, Now, AsleepBlocked
  <2> QED BY <2>1, <2>2 DEF IdleSteps
<1>3. ticked' \subseteq Users
  BY <1>1, Now DEF DevOK
<1> QED BY <1>1, <1>2, <1>3, QuietInv

LEMMA CloneInv == ASSUME Inv, NEW t \in Tasks, Clone(t) PROVE Inv'
<1>1. ks.status[t] = "DIED" /\ ks' = create_task(ks, t) /\ UNCHANGED <<pc, ide, ticked>>
  BY DEF Clone
<1>2. SchedInv(ks') /\ \A list : Asleep(ks, list) => Asleep(ks', list)
  BY <1>1, Now, CreateFacts, AsleepCreate
<1>3. PcOK' /\ ticked' \subseteq Users
  BY <1>1, Now DEF PcOK, DevOK
<1> QED BY <1>1, <1>2, <1>3, QuietInv

LEMMA SleepInv == ASSUME Inv, Sleep PROVE Inv'
<1>1. ks' = task_yield(ks) /\ UNCHANGED <<pc, ide, ticked>>
  BY DEF Sleep, ide
<1>2. SchedInv(ks') /\ \A list : Asleep(ks, list) => Asleep(ks', list)
  BY <1>1, Now, YieldFacts, AsleepRequeued
<1>3. PcOK' /\ ticked' \subseteq Users
  BY <1>1, Now DEF PcOK, DevOK
<1> QED BY <1>1, <1>2, <1>3, QuietInv

\* A program that sleeps is in no list of the driver.
LEMMA WaitInv == ASSUME Inv, Wait PROVE Inv'
<1>1. ks' = task_block(ks, "WAITING") /\ UNCHANGED <<pc, ide, ticked>>
  BY DEF Wait
<1>2. ks.running # idle_task
  BY Now DEF Wait, Running, PcOK, IdleLabels
<1>3. SchedInv(ks') /\ Blocked(ks, ks', "WAITING")
  BY <1>1, <1>2, Now, BlockFacts
<1>4. \A list : Asleep(ks, list) => Asleep(ks', list)
  BY <1>3, Now, AsleepBlocked
<1>5. PcOK' /\ ticked' \subseteq Users
  BY <1>1, Now DEF PcOK, DevOK
<1> QED BY <1>1, <1>3, <1>4, <1>5, QuietInv

LEMMA WakeInv == ASSUME Inv, NEW t \in Tasks, Wake(t) PROVE Inv'
<1>1. /\ ks.status[t] = "WAITING" /\ ~elem_find(ks.ready, t)
      /\ ks' = task_unblock(ks, t) /\ pc' = IntrExit /\ UNCHANGED <<ide, ticked>>
  BY DEF Wake
<1>2. /\ SchedInv(ks') /\ ks'.running = ks.running /\ ks'.status = ks.status
      /\ \A u : elem_find(ks'.ready, u) <=> elem_find(ks.ready, u) \/ u = t
  BY <1>1, Now, UnblockInv
<1>3. \A list : Asleep(ks, list) => Asleep(ks', list)
  BY <1>1, <1>2 DEF Asleep
<1>4. PcOK' /\ \A u \in Tasks \ {idle_task} : pc'[u] = pc[u]
  BY <1>1, Now DEF IntrExit, PcOK, IdleLabels
<1>5. ticked' \subseteq Users
  BY <1>1, Now DEF DevOK
<1> QED BY <1>1, <1>2, <1>3, <1>4, <1>5, QuietInv

-----------------------------------------------------------------------------
(* The steps of the driver *)

LEMMA CallIdeInv == ASSUME Inv, NEW r \in Request, CallIde(r) PROVE Inv'
<1> DEFINE t0 == ks.running
<1>1. /\ pc[t0] = "user" /\ t0 \in Users /\ Goto("lock")
      /\ req' = [req EXCEPT ![t0] = r]
      /\ UNCHANGED <<ks, lock, disk_done, expecting_intr, disk, irq, ticked>>
  BY DEF CallIde, Running
<1>2. /\ PcOK' /\ pc'[t0] = "lock"
      /\ \A t \in Tasks \ {t0} : pc'[t] = pc[t]
      /\ \A t : t \in Owners' <=> IF t = t0 THEN FALSE ELSE t \in Owners
  BY <1>1, Moved
<1>3. t0 \notin Owners /\ Owners \subseteq Tasks \ {t0}
  BY <1>1, Now DEF Owners
<1>4. Owners' = Owners /\ \A t \in Owners : pc'[t] = pc[t] /\ req'[t] = req[t]
  BY <1>1, <1>2, <1>3, Now DEF DevOK, Owners
<1>5. DevOK'
  BY <1>1, Now DEF DevOK
<1>6. WaitersOK'
  BY <1>1, <1>2, RunningAwake, Now DEF WaitersOK
<1> HIDE DEF t0
<1>7. OwnerOK' /\ FreeOK'
  BY <1>1, <1>4, Now, ZenonT(60) DEF OwnerOK, FreeOK, Phase
<1>8. ReadOK' /\ WriteOK'
  BY <1>1, <1>4, Now, CommandKept
<1> QED BY <1>1, <1>2, <1>5, <1>6, <1>7, <1>8, Now DEF Inv

LEMMA LockWaitInv == ASSUME Inv, LockWait PROVE Inv'
<1>1. /\ Running("lock") /\ lock.value = 0
      /\ lock' = sema_wait(lock, ks.running) /\ ks' = sema_wait_sched(ks, lock)
      /\ UNCHANGED <<pc, disk_done, expecting_intr, disk, irq, req, ticked>>
  BY DEF LockWait
<1>2. ks.running # idle_task /\ pc[ks.running] = "lock"
  BY <1>1, Inside
<1>3. lock \in SemaState /\ Asleep(ks, lock.waiters) /\ Asleep(ks, disk_done.waiters)
  BY Now DEF DevOK, WaitersOK
<1>4. /\ SchedInv(ks') /\ lock' \in SemaState /\ lock'.value = 0
      /\ Asleep(ks', lock'.waiters) /\ Asleep(ks', disk_done.waiters)
      /\ \A u : elem_find(lock'.waiters, u) <=> elem_find(lock.waiters, u) \/ u = ks.running
  BY <1>1, <1>2, <1>3, Now, AsleepWait
<1>5. PcOK' /\ DevOK'
  BY <1>1, <1>4, Now DEF PcOK, DevOK
<1>6. WaitersOK'
  BY <1>1, <1>2, <1>4, Now DEF WaitersOK
<1>7. Owners' = Owners
  BY <1>1 DEF Owners
<1>8. OwnerOK' /\ FreeOK'
  BY <1>1, <1>4, <1>7, Now DEF OwnerOK, FreeOK, Phase
<1>9. ReadOK' /\ WriteOK'
  BY <1>1, <1>7, Now, CommandKept
<1> QED BY <1>4, <1>5, <1>6, <1>8, <1>9 DEF Inv

\* The channel is free, so the disk is idle: the command of the task is the only
\* one, and what may be left of an earlier interrupt is withdrawn.
LEMMA LockedInv == ASSUME Inv, Locked PROVE Inv'
<1> DEFINE r == ks.running
<1>1. /\ Running("lock") /\ lock.value # 0
      /\ lock' = sema_take(lock) /\ ks' = sema_take_sched(ks, lock)
      /\ expecting_intr' = TRUE /\ irq' = FALSE /\ UNCHANGED <<disk_done, req, ticked>>
      /\ Goto(IF IsRead(r) THEN "done" ELSE "poll")
  BY DEF Locked, cmd_out
<1>2. PICK s \in {"seeking", "data"} :
         /\ disk' = [state |-> s, cmd |-> req[r].cmd, lba |-> req[r].lba]
         /\ s = "data" => req[r].cmd = "CMD_WRITE_SECTOR"
  BY DEF Locked, cmd_out
<1>3. r \in Users /\ r # idle_task /\ pc[r] = "lock"
  BY <1>1, Inside
<1>4. ks' = ks /\ lock' \in SemaState /\ lock'.value = 0 /\ lock'.waiters = lock.waiters
  BY <1>1, Now, SemaTakeFacts DEF DevOK
<1>5. Owners = {} /\ disk_done.value = 0
  <2>1. lock.value = 1
    BY <1>1, Now DEF DevOK, SemaState
  <2>2. Owners = {}
    BY <2>1, Now DEF OwnerOK
  <2> QED BY <2>2, Now DEF FreeOK, Phase
<1>6. /\ PcOK' /\ pc'[r] = IF IsRead(r) THEN "done" ELSE "poll"
      /\ \A t \in Tasks \ {r} : pc'[t] = pc[t]
      /\ \A t : t \in Owners' <=> t = r
  BY <1>1, <1>3, <1>5, Moved
<1>7. req[r].cmd \in Commands /\ req[r].lba \in Sectors /\ req' = req
  BY <1>1, <1>3, Now DEF DevOK, Request
<1>8. disk'.state = s /\ disk'.cmd = req[r].cmd /\ disk'.lba = req[r].lba
  BY <1>2
<1>9. DevOK'
  BY <1>1, <1>2, <1>4, <1>7, Now DEF DevOK
<1>10. WaitersOK'
  BY <1>1, <1>4, <1>6, RunningAwake, Now DEF WaitersOK
<1> HIDE DEF r
<1>11. OwnerOK' /\ FreeOK'
  <2>1. lock'.value # 1 /\ Owners' # {}
    BY <1>4, <1>6
  <2>2. \A t \in Owners' : t = r /\ disk'.cmd = req'[t].cmd /\ disk'.lba = req'[t].lba
    BY <1>6, <1>7, <1>8
  <2> QED BY <2>1, <2>2 DEF OwnerOK, FreeOK
<1>12. expecting_intr' = TRUE /\ irq' = FALSE /\ disk_done'.value = 0
  BY <1>1, <1>5
<1>13. ReadOK'
  <2>1. IsRead(r) => pc'[r] = "done" /\ s = "seeking"
    BY <1>2, <1>6, <1>7 DEF IsRead
  <2> QED BY <1>6, <1>7, <1>8, <1>12, <2>1 DEF ReadOK, Phase, IsRead
<1>14. WriteOK'
  <2>1. ~IsRead(r) => pc'[r] = "poll"
    BY <1>6
  <2> QED BY <1>6, <1>7, <1>8, <1>12, <2>1 DEF WriteOK, Phase, IsRead
<1> QED BY <1>4, <1>6, <1>9, <1>10, <1>11, <1>13, <1>14, Now DEF Inv

LEMMA DoneWaitInv == ASSUME Inv, DoneWait PROVE Inv'
<1>1. /\ Running("done") /\ disk_done.value = 0
      /\ disk_done' = sema_wait(disk_done, ks.running) /\ ks' = sema_wait_sched(ks, disk_done)
      /\ UNCHANGED <<pc, lock, expecting_intr, disk, irq, req, ticked>>
  BY DEF DoneWait
<1>2. ks.running # idle_task /\ pc[ks.running] = "done"
  BY <1>1, Inside
<1>3. disk_done \in SemaState /\ Asleep(ks, lock.waiters) /\ Asleep(ks, disk_done.waiters)
  BY Now DEF DevOK, WaitersOK
<1>4. /\ SchedInv(ks') /\ disk_done' \in SemaState /\ disk_done'.value = disk_done.value
      /\ Asleep(ks', disk_done'.waiters) /\ Asleep(ks', lock.waiters)
      /\ \A u : elem_find(disk_done'.waiters, u) <=>
                  elem_find(disk_done.waiters, u) \/ u = ks.running
  BY <1>1, <1>2, <1>3, Now, AsleepWait
<1>5. PcOK' /\ DevOK'
  BY <1>1, <1>4, Now DEF PcOK, DevOK
<1>6. WaitersOK'
  BY <1>1, <1>2, <1>4, Now DEF WaitersOK
<1>7. Owners' = Owners
  BY <1>1 DEF Owners
<1>8. OwnerOK' /\ FreeOK'
  BY <1>1, <1>4, <1>7, Now DEF OwnerOK, FreeOK, Phase
<1>9. ReadOK' /\ WriteOK'
  <2>1. disk_done'.value = disk_done.value
    BY <1>4
  <2> QED BY <1>1, <1>7, <2>1, Now, CommandKept
<1> QED BY <1>4, <1>5, <1>6, <1>8, <1>9 DEF Inv

\* disk_done is up, so the data of the task's own command are there.
LEMMA DoneReadInv == ASSUME Inv, DoneRead PROVE Inv'
<1> DEFINE r == ks.running
<1>1. /\ Running("done") /\ IsRead(r) /\ disk_done.value # 0
      /\ disk_done' = sema_take(disk_done) /\ ks' = sema_take_sched(ks, disk_done)
      /\ Goto("poll") /\ UNCHANGED <<lock, expecting_intr, disk, irq, req, ticked>>
  BY DEF DoneRead
<1>2. r \in Users /\ r # idle_task /\ pc[r] = "done" /\ Owners = {r}
  BY <1>1, Inside
<1>3. /\ ks' = ks /\ disk_done' \in SemaState /\ disk_done'.value = 0
      /\ disk_done'.waiters = disk_done.waiters
  BY <1>1, Now, SemaTakeFacts DEF DevOK
<1>4. expecting_intr = FALSE /\ disk.state = "data"
  BY <1>1, <1>2, Now DEF ReadOK, Phase
<1>5. /\ PcOK' /\ pc'[r] = "poll" /\ \A t \in Tasks \ {r} : pc'[t] = pc[t]
      /\ \A t : t \in Owners' <=> t = r
  BY <1>1, <1>2, Moved
<1>6. DevOK'
  BY <1>1, <1>3, Now DEF DevOK
<1>7. WaitersOK'
  BY <1>1, <1>3, <1>5, RunningAwake, Now DEF WaitersOK
<1> HIDE DEF r
<1>8. UNCHANGED <<lock, expecting_intr, disk, req>>
  BY <1>1
<1>9. OwnerOK' /\ FreeOK'
  <2>1. Owners' = Owners /\ Owners' # {}
    BY <1>2, <1>5
  <2> QED BY <1>8, <2>1, Now DEF OwnerOK, FreeOK
<1>10. ReadOK'
  BY <1>3, <1>4, <1>5, <1>8 DEF ReadOK, Phase
<1>11. WriteOK'
  BY <1>1, <1>5, <1>8 DEF WriteOK, IsRead
<1> QED BY <1>3, <1>5, <1>6, <1>7, <1>9, <1>10, <1>11, Now DEF Inv

\* disk_done is up, so the task's own command is finished and the channel is
\* released with the disk idle.
LEMMA DoneWriteInv == ASSUME Inv, DoneWrite PROVE Inv'
<1> DEFINE r == ks.running
<1>1. /\ Running("done") /\ ~IsRead(r) /\ disk_done.value # 0
      /\ disk_done' = sema_take(disk_done) /\ lock' = sema_up(lock)
      /\ ks' = sema_up_sched(sema_take_sched(ks, disk_done), lock)
      /\ Goto("user") /\ UNCHANGED <<expecting_intr, disk, irq, req, ticked>>
  BY DEF DoneWrite
<1>2. r \in Users /\ r # idle_task /\ pc[r] = "done" /\ Owners = {r}
  BY <1>1, Inside
<1>3. /\ sema_take_sched(ks, disk_done) = ks /\ disk_done' \in SemaState
      /\ disk_done'.value = 0 /\ disk_done'.waiters = disk_done.waiters
  BY <1>1, Now, SemaTakeFacts DEF DevOK
<1>4. expecting_intr = FALSE /\ disk.state = "idle"
  BY <1>1, <1>2, Now DEF WriteOK, Phase
<1>5. /\ PcOK' /\ pc'[r] = "user" /\ \A t \in Tasks \ {r} : pc'[t] = pc[t]
      /\ Owners' = {}
  BY <1>1, <1>2, Moved
<1>6. lock \in SemaState /\ lock.value = 0
  <2>1. lock.value # 1
    BY <1>2, Now DEF OwnerOK
  <2> QED BY <2>1, Now DEF DevOK, SemaState
<1>7. ks' = sema_up_sched(ks, lock) /\ lock' = sema_up(lock)
  BY <1>1, <1>3
<1>8. /\ Asleep(ks, lock.waiters) /\ Asleep(ks, disk_done.waiters)
      /\ \A u : elem_find(disk_done.waiters, u) => ~elem_find(lock.waiters, u)
  <2>1. \A u : elem_find(disk_done.waiters, u) => u \in Tasks
    BY Now DEF DevOK, SemaState, elem_find
  <2> QED BY <2>1, Now DEF WaitersOK
<1>9. /\ SchedInv(ks') /\ lock' \in SemaState
      /\ Asleep(ks', lock'.waiters) /\ Asleep(ks', disk_done.waiters)
      /\ \A u : elem_find(lock'.waiters, u) => elem_find(lock.waiters, u)
  BY <1>6, <1>7, <1>8, Now, AsleepUp
<1>10. DevOK'
  BY <1>1, <1>3, <1>9, Now DEF DevOK
<1>11. WaitersOK'
  BY <1>3, <1>5, <1>9, RunningAwake, Now DEF WaitersOK
<1> HIDE DEF r
<1>12. OwnerOK' /\ ReadOK' /\ WriteOK'
  BY <1>5 DEF OwnerOK, ReadOK, WriteOK
<1>13. FreeOK'
  BY <1>1, <1>3, <1>4 DEF FreeOK, Phase
<1> QED BY <1>5, <1>9, <1>10, <1>11, <1>12, <1>13 DEF Inv

\* The limit of busy_wait() is reached: the machine stops in the middle of a command.
LEMMA TimeoutInv == ASSUME Inv, PollTimeout PROVE Inv'
<1> DEFINE r == ks.running
<1>1. /\ UNCHANGED <<ks, lock, disk_done, expecting_intr, disk, irq, req, ticked>>
      /\ Running("poll") /\ Goto("panic_spin")
  BY DEF PollTimeout
<1>2. r \in Users /\ Owners = {r} /\ pc[r] = "poll"
  BY <1>1, Inside
<1>3. /\ PcOK' /\ pc'[r] = "panic_spin" /\ \A t \in Tasks \ {r} : pc'[t] = pc[t]
      /\ \A t : t \in Owners' <=> t = r
  BY <1>1, <1>2, Moved
<1>4. DevOK'
  BY <1>1, Now DEF DevOK
<1>5. WaitersOK'
  BY <1>1, <1>3, RunningAwake, Now DEF WaitersOK
<1> HIDE DEF r
<1>6. UNCHANGED <<ks, lock, disk_done, expecting_intr, disk, irq, req>>
  BY <1>1
<1>7. Owners' = Owners /\ Owners' # {}
  BY <1>2, <1>3
<1>8. OwnerOK' /\ FreeOK'
  BY <1>6, <1>7, Now DEF OwnerOK, FreeOK
<1>9. \A e, s, v : Phase(e, s, v)' <=> Phase(e, s, v)
  BY <1>6 DEF Phase
<1>10. \A t \in Owners : IsRead(t)' <=> IsRead(t)
  BY <1>6 DEF IsRead
<1>11. ReadOK'
  <2>1. \A t \in Owners : IsRead(t) => Phase(FALSE, "data", 0)
    BY <1>2, Now DEF ReadOK
  <2>2. \A t \in Owners : pc'[t] = "panic_spin"
    BY <1>2, <1>3
  <2> QED BY <1>7, <1>9, <1>10, <2>1, <2>2 DEF ReadOK
<1>12. WriteOK'
  <2>1. \A t \in Owners : ~IsRead(t) =>
           irq = FALSE /\ (Phase(TRUE, "seeking", 0) \/ Phase(TRUE, "data", 0))
    BY <1>2, Now DEF WriteOK
  <2>2. \A t \in Owners : pc'[t] = "panic_spin"
    BY <1>2, <1>3
  <2> QED BY <1>6, <1>7, <1>9, <1>10, <2>1, <2>2 DEF WriteOK
<1> QED BY <1>3, <1>4, <1>5, <1>6, <1>8, <1>11, <1>12, Now DEF Inv

\* The loop of busy_wait(), which only a writer goes round.
LEMMA PollInv == ASSUME Inv, PollBusy \/ Slept PROVE Inv'
<1> DEFINE r == ks.running
<1>1. /\ UNCHANGED <<ks, lock, disk_done, expecting_intr, disk, req>>
      /\ irq' = FALSE \/ irq' = irq
      /\ ticked' = ticked \ {r}
  BY DEF PollBusy, Slept
<1>2. /\ r \in Users /\ Owners = {r} /\ pc[r] \in {"poll", "sleep"}
      /\ \E l \in {"poll", "sleep"} : Goto(l)
  BY Inside DEF PollBusy, Slept
<1>3. ~IsRead(r)
  BY <1>2, Now DEF PollBusy, Slept, Running, BIT_STAT_BSY, ReadOK, Phase
<1>4. /\ PcOK' /\ pc'[r] \in {"poll", "sleep"} /\ \A t \in Tasks \ {r} : pc'[t] = pc[t]
      /\ \A t : t \in Owners' <=> t = r
  BY <1>2, Moved
<1>5. irq = FALSE /\ irq' = FALSE
  BY <1>1, <1>2, <1>3, Now DEF WriteOK
<1>6. DevOK'
  BY <1>1, <1>5, Now DEF DevOK
<1>7. WaitersOK'
  BY <1>1, <1>4, RunningAwake, Now DEF WaitersOK
<1> HIDE DEF r
<1>8. UNCHANGED <<ks, lock, disk_done, expecting_intr, disk, req>>
  BY <1>1
<1>9. OwnerOK' /\ FreeOK'
  <2>1. Owners' = Owners /\ Owners' # {}
    BY <1>2, <1>4
  <2> QED BY <1>8, <2>1, Now DEF OwnerOK, FreeOK
<1>10. ReadOK'
  BY <1>3, <1>4, <1>8 DEF ReadOK, IsRead
<1>11. WriteOK'
  <2>1. Phase(TRUE, "seeking", 0) \/ Phase(TRUE, "data", 0)
    BY <1>2, <1>3, Now DEF WriteOK
  <2> QED BY <1>4, <1>5, <1>8, <2>1 DEF WriteOK, Phase
<1> QED BY <1>4, <1>6, <1>7, <1>8, <1>9, <1>10, <1>11, Now DEF Inv

\* The data are there; the channel is released with the disk idle, and what the
\* disk may still interrupt for finds expecting_intr down.
LEMMA PollReadInv == ASSUME Inv, PollRead PROVE Inv'
<1> DEFINE r == ks.running
<1>1. /\ Running("poll") /\ IsRead(r)
      /\ disk' = [disk EXCEPT !.state = "idle"] /\ irq' \in BOOLEAN
      /\ lock' = sema_up(lock) /\ ks' = sema_up_sched(ASSERT(ks, BIT_STAT_DRQ), lock)
      /\ Goto("user") /\ UNCHANGED <<disk_done, expecting_intr, req, ticked>>
  BY DEF PollRead
<1>2. r \in Users /\ r # idle_task /\ pc[r] = "poll" /\ Owners = {r}
  BY <1>1, Inside
<1>3. expecting_intr = FALSE /\ disk.state = "data" /\ disk_done.value = 0
  BY <1>1, <1>2, Now DEF ReadOK, Phase
<1>4. ASSERT(ks, BIT_STAT_DRQ) = ks
  <2>1. BIT_STAT_DRQ = TRUE
    BY <1>3 DEF BIT_STAT_DRQ
  <2>2. ASSERT(ks, TRUE) = ks
    BY Now, AssertTrue
  <2> QED BY <2>1, <2>2
<1>5. /\ PcOK' /\ pc'[r] = "user" /\ \A t \in Tasks \ {r} : pc'[t] = pc[t]
      /\ Owners' = {}
  BY <1>1, <1>2, Moved
<1>6. lock \in SemaState /\ lock.value = 0
  <2>1. lock.value # 1
    BY <1>2, Now DEF OwnerOK
  <2> QED BY <2>1, Now DEF DevOK, SemaState
<1>7. ks' = sema_up_sched(ks, lock) /\ lock' = sema_up(lock)
  BY <1>1, <1>4
<1>8. /\ Asleep(ks, lock.waiters) /\ Asleep(ks, disk_done.waiters)
      /\ \A u : elem_find(disk_done.waiters, u) => ~elem_find(lock.waiters, u)
  <2>1. \A u : elem_find(disk_done.waiters, u) => u \in Tasks
    BY Now DEF DevOK, SemaState, elem_find
  <2> QED BY <2>1, Now DEF WaitersOK
<1>9. /\ SchedInv(ks') /\ lock' \in SemaState
      /\ Asleep(ks', lock'.waiters) /\ Asleep(ks', disk_done.waiters)
      /\ \A u : elem_find(lock'.waiters, u) => elem_find(lock.waiters, u)
  BY <1>6, <1>7, <1>8, Now, AsleepUp
<1>10. DevOK' /\ disk'.state = "idle"
  BY <1>1, <1>9, DiskFields, Now DEF DevOK
<1>11. WaitersOK'
  BY <1>1, <1>5, <1>9, RunningAwake, Now DEF WaitersOK
<1> HIDE DEF r
<1>12. OwnerOK' /\ ReadOK' /\ WriteOK'
  BY <1>5 DEF OwnerOK, ReadOK, WriteOK
<1>13. FreeOK'
  BY <1>1, <1>3, <1>10 DEF FreeOK, Phase
<1> QED BY <1>5, <1>9, <1>10, <1>11, <1>12, <1>13 DEF Inv

\* The disk takes the data; its interrupt is still to come.
LEMMA PollWriteInv == ASSUME OneWriteIrq, Inv, PollWrite PROVE Inv'
<1> DEFINE r == ks.running
<1>1. /\ Running("poll") /\ ~IsRead(r) /\ ~BIT_STAT_BSY
      /\ disk' = [disk EXCEPT !.state = "writing"] /\ irq' = FALSE
      /\ ks' = ASSERT(ks, BIT_STAT_DRQ)
      /\ Goto("done") /\ UNCHANGED <<lock, disk_done, expecting_intr, req, ticked>>
  BY DEF PollWrite, OneWriteIrq
<1>2. r \in Users /\ r # idle_task /\ pc[r] = "poll" /\ Owners = {r}
  BY <1>1, Inside
<1>3. expecting_intr = TRUE /\ disk.state = "data" /\ disk_done.value = 0
  BY <1>1, <1>2, Now DEF WriteOK, Phase, BIT_STAT_BSY
<1>4. ks' = ks
  <2>1. BIT_STAT_DRQ = TRUE
    BY <1>3 DEF BIT_STAT_DRQ
  <2>2. ASSERT(ks, TRUE) = ks
    BY Now, AssertTrue
  <2> QED BY <1>1, <2>1, <2>2
<1>5. /\ PcOK' /\ pc'[r] = "done" /\ \A t \in Tasks \ {r} : pc'[t] = pc[t]
      /\ \A t : t \in Owners' <=> t = r
  BY <1>1, <1>2, Moved
<1>6. DevOK' /\ disk'.state = "writing" /\ disk'.cmd = disk.cmd /\ disk'.lba = disk.lba
  BY <1>1, DiskFields, Now DEF DevOK
<1>7. WaitersOK'
  BY <1>1, <1>4, <1>5, RunningAwake, Now DEF WaitersOK
<1> HIDE DEF r
<1>8. UNCHANGED <<lock, disk_done, expecting_intr, req>> /\ irq' = FALSE
  BY <1>1
<1>9. OwnerOK' /\ FreeOK'
  <2>1. Owners' = Owners /\ Owners' # {}
    BY <1>2, <1>5
  <2> QED BY <1>6, <1>8, <2>1, Now DEF OwnerOK, FreeOK
<1>10. ReadOK'
  BY <1>1, <1>5, <1>8 DEF ReadOK, IsRead
<1>11. WriteOK'
  BY <1>3, <1>5, <1>6, <1>8 DEF WriteOK, Phase
<1> QED BY <1>4, <1>5, <1>6, <1>7, <1>9, <1>10, <1>11, Now DEF Inv

-----------------------------------------------------------------------------
(* The steps of the disk *)

LEMMA DiskInv == ASSUME Inv, DiskReady \/ DiskWritten PROVE Inv'
<1>1. /\ UNCHANGED <<ks, pc, lock, disk_done, expecting_intr, req, ticked>>
      /\ \/ /\ disk.state = "seeking" /\ disk' = [disk EXCEPT !.state = "data"]
            /\ irq' = (irq \/ disk.cmd = "CMD_READ_SECTOR")
         \/ /\ disk.state = "writing" /\ disk' = [disk EXCEPT !.state = "idle"]
            /\ irq' = TRUE
  BY DEF DiskReady, DiskWritten
<1>2. /\ DevOK' /\ disk'.cmd = disk.cmd /\ disk'.lba = disk.lba
      /\ \/ disk.state = "seeking" /\ disk'.state = "data"
         \/ disk.state = "writing" /\ disk'.state = "idle" /\ irq' = TRUE
  BY <1>1, DiskFields, Now DEF DevOK
<1>3. /\ UNCHANGED <<ks, pc, lock, disk_done, expecting_intr, req>>
      /\ PcOK' /\ WaitersOK' /\ Owners' = Owners
  BY <1>1, Now DEF PcOK, WaitersOK, Owners
<1>4. Owners # {}
  BY <1>2, Now DEF FreeOK, Phase
<1>5. OwnerOK' /\ FreeOK'
  BY <1>2, <1>3, <1>4, Now DEF OwnerOK, FreeOK
<1>6. ReadOK'
  <2> SUFFICES ASSUME NEW t \in Owners, IsRead(t)
               PROVE  /\ pc[t] # "sleep"
                      /\ pc[t] \in {"poll", "panic_spin"} => Phase(FALSE, "data", 0)'
                      /\ pc[t] = "done" => \/ Phase(TRUE, "seeking", 0)' /\ irq' = FALSE
                                           \/ Phase(TRUE, "data", 0)' /\ irq' = TRUE
                                           \/ Phase(FALSE, "data", 1)'
    BY <1>3 DEF ReadOK, IsRead
  <2>1. disk.cmd = "CMD_READ_SECTOR"
    BY Now DEF OwnerOK, IsRead
  <2>2. /\ pc[t] = "done" /\ Phase(TRUE, "seeking", 0) /\ irq = FALSE
    BY <1>2, Now DEF ReadOK, Phase, Owners
  <2>3. disk'.state = "data" /\ irq' = TRUE
    BY <1>1, <1>2, <2>1, <2>2 DEF Phase
  <2> QED BY <1>3, <2>2, <2>3 DEF Phase
<1>7. WriteOK'
  <2> SUFFICES ASSUME NEW t \in Owners, ~IsRead(t)
               PROVE  /\ pc[t] \in {"poll", "sleep", "panic_spin"} =>
                            /\ irq' = FALSE
                            /\ Phase(TRUE, "seeking", 0)' \/ Phase(TRUE, "data", 0)'
                      /\ pc[t] = "done" => \/ Phase(TRUE, "writing", 0)' /\ irq' = FALSE
                                           \/ Phase(TRUE, "idle", 0)' /\ irq' = TRUE
                                           \/ Phase(FALSE, "idle", 1)'
    BY <1>3 DEF WriteOK, IsRead
  <2>1. disk.cmd # "CMD_READ_SECTOR"
    BY Now DEF OwnerOK, IsRead
  <2>2. CASE pc[t] \in {"poll", "sleep", "panic_spin"}
    <3>1. irq = FALSE /\ Phase(TRUE, "seeking", 0)
      BY <1>2, <2>2, Now DEF WriteOK, Phase
    <3>2. irq' = FALSE /\ disk'.state = "data"
      BY <1>1, <1>2, <2>1, <3>1 DEF Phase
    <3> QED BY <1>3, <2>2, <3>1, <3>2 DEF Phase
  <2>3. CASE pc[t] = "done"
    <3>1. Phase(TRUE, "writing", 0)
      BY <1>2, <2>3, Now DEF WriteOK, Phase
    <3>2. irq' = TRUE /\ disk'.state = "idle"
      BY <1>2, <3>1 DEF Phase
    <3> QED BY <1>3, <2>3, <3>1, <3>2 DEF Phase
  <2> QED BY <2>2, <2>3
<1> QED BY <1>2, <1>3, <1>5, <1>6, <1>7, Now DEF Inv

\* The handler counts disk_done up only for the command of the task that waits.
LEMMA IntrHdInv == ASSUME Inv, intr_hd_handle PROVE Inv'
<1>1. /\ irq = TRUE /\ irq' = FALSE /\ expecting_intr' = FALSE /\ pc' = IntrExit
      /\ UNCHANGED <<lock, disk, req, ticked>>
      /\ IF expecting_intr
         THEN disk_done' = sema_up(disk_done) /\ ks' = sema_up_sched(ks, disk_done)
         ELSE UNCHANGED <<disk_done, ks>>
  BY Now DEF intr_hd_handle, DevOK
<1>2. PcOK' /\ \A t \in Tasks \ {idle_task} : pc'[t] = pc[t]
  BY <1>1, Now DEF IntrExit, PcOK, IdleLabels
<1>3. Owners' = Owners /\ \A t \in Owners : pc'[t] = pc[t]
  BY <1>2, Now DEF Owners
<1>4. \A t \in Tasks : elem_find(lock.waiters, t) \/ elem_find(disk_done.waiters, t)
         => t # idle_task
  BY Now DEF WaitersOK, Asleep
<1>5. UNCHANGED <<lock, disk, req>> /\ irq' = FALSE /\ expecting_intr' = FALSE
  BY <1>1
<1>6. OwnerOK'
  BY <1>3, <1>5, Now DEF OwnerOK
<1>7. CASE expecting_intr = FALSE
  <2>1. UNCHANGED <<disk_done, ks>>
    BY <1>1, <1>7
  <2>2. DevOK' /\ WaitersOK'
    BY <1>1, <1>2, <1>4, <2>1, Now DEF DevOK, WaitersOK
  <2>3. FreeOK'
    BY <1>3, <1>5, <2>1, Now DEF FreeOK, Phase
  <2>a. \A e, z, v : Phase(e, z, v)' <=> Phase(e, z, v)
    BY <1>5, <1>7, <2>1 DEF Phase
  <2>b. \A t \in Owners : IsRead(t)' <=> IsRead(t)
    BY <1>5 DEF IsRead
  <2>4. ReadOK'
    <3>1. \A t \in Owners : IsRead(t) =>
             /\ pc[t] # "sleep"
             /\ pc[t] \in {"poll", "panic_spin"} => Phase(FALSE, "data", 0)
             /\ pc[t] = "done" => Phase(FALSE, "data", 1)
      BY <1>7, Now DEF ReadOK, Phase
    <3> QED BY <1>3, <2>a, <2>b, <3>1 DEF ReadOK
  <2>5. WriteOK'
    <3>1. \A t \in Owners : ~IsRead(t) =>
             /\ pc[t] \notin {"poll", "sleep", "panic_spin"}
             /\ pc[t] = "done" => Phase(FALSE, "idle", 1)
      BY <1>7, Now DEF WriteOK, Phase
    <3> QED BY <1>3, <2>a, <2>b, <3>1 DEF WriteOK
  <2> QED BY <1>2, <1>6, <2>1, <2>2, <2>3, <2>4, <2>5, Now DEF Inv
<1>8. CASE expecting_intr = TRUE
  <2>1. disk_done' = sema_up(disk_done) /\ ks' = sema_up_sched(ks, disk_done)
    BY <1>1, <1>8
  <2>2. Owners # {}
    BY <1>8, Now DEF FreeOK, Phase
  <2>3. \A t \in Owners :
          /\ pc[t] = "done" /\ disk_done.value = 0
          /\ disk.state = IF IsRead(t) THEN "data" ELSE "idle"
    BY <1>1, <1>8, Now DEF ReadOK, WriteOK, Phase, Owners
  <2>4. disk_done \in SemaState /\ disk_done.value = 0
    BY <2>2, <2>3, Now DEF DevOK
  <2>5. /\ Asleep(ks, lock.waiters) /\ Asleep(ks, disk_done.waiters)
        /\ \A u : elem_find(lock.waiters, u) => ~elem_find(disk_done.waiters, u)
    <3>1. \A u : elem_find(lock.waiters, u) => u \in Tasks
      BY Now DEF DevOK, SemaState, elem_find
    <3> QED BY <3>1, Now DEF WaitersOK
  <2>6. /\ SchedInv(ks') /\ disk_done' \in SemaState /\ disk_done'.value = 1
        /\ Asleep(ks', disk_done'.waiters) /\ Asleep(ks', lock.waiters)
        /\ \A u : elem_find(disk_done'.waiters, u) => elem_find(disk_done.waiters, u)
    BY <2>1, <2>4, <2>5, Now, AsleepUp
  <2>7. DevOK'
    BY <1>1, <2>6, Now DEF DevOK
  <2>8. WaitersOK'
    BY <1>1, <1>2, <1>4, <2>6, Now DEF WaitersOK
  <2>9. FreeOK'
    BY <1>3, <2>2 DEF FreeOK
  <2>10. ReadOK'
    BY <1>3, <1>5, <2>3, <2>6 DEF ReadOK, Phase, IsRead
  <2>11. WriteOK'
    BY <1>3, <1>5, <2>3, <2>6 DEF WriteOK, Phase, IsRead
  <2> QED BY <1>2, <1>6, <2>6, <2>7, <2>8, <2>9, <2>10, <2>11 DEF Inv
<1> QED BY <1>7, <1>8, Now DEF DevOK

-----------------------------------------------------------------------------
(* The theorem *)

LEMMA Still == ASSUME Inv, UNCHANGED vars PROVE Inv'
<1>1. UNCHANGED <<ks, pc, ide, ticked>>
  BY DEF vars, ide
<1>2. PcOK' /\ ticked' \subseteq Users
  BY <1>1, Now DEF PcOK, DevOK
<1> QED BY <1>1, <1>2, Now, QuietInv

\* The rounds that are left are counted within their type.
TimeOK == time_limit \in [Users -> 1..TimeLimit]

LEMMA TimeInv == TimeOK /\ Inv /\ [Next]_vars => TimeOK'
<1> SUFFICES ASSUME TimeOK, Inv, [Next]_vars PROVE TimeOK'
  OBVIOUS
<1>1. TimeLimit \in Nat /\ TimeLimit > 1
  BY IdeAssumption
<1>2. \/ UNCHANGED time_limit
      \/ \E v \in 1..TimeLimit : time_limit' = [time_limit EXCEPT ![ks.running] = v]
  <2>1. CASE PollBusy
    <3>1. ks.running \in Users /\ time_limit[ks.running] > 1
      BY <2>1, Inside DEF PollBusy, InTime
    <3>2. time_limit[ks.running] - 1 \in 1..TimeLimit
      BY <1>1, <3>1 DEF TimeOK
    <3> QED BY <2>1, <3>2 DEF PollBusy
  <2>2. CASE PollRead \/ PollWrite
    <3>1. TimeLimit \in 1..TimeLimit
      BY <1>1
    <3>2. time_limit' = [time_limit EXCEPT ![ks.running] = TimeLimit]
      BY <2>2 DEF PollRead, PollWrite
    <3> QED BY <3>1, <3>2
  <2>3. CASE LockWait \/ Locked \/ DoneWait \/ DoneRead \/ DoneWrite \/ PollTimeout
             \/ PanicSpin \/ Sleep \/ Slept
    BY <2>3 DEF LockWait, Locked, DoneWait, DoneRead, DoneWrite, PollTimeout, PanicSpin,
                Sleep, Slept, vars
  <2>4. CASE Timer \/ IdleSteps \/ DiskReady \/ DiskWritten \/ intr_hd_handle
    BY <2>4 DEF Timer, IdleSteps, DiskReady, DiskWritten, intr_hd_handle
  <2>5. CASE \/ \E r \in Request : CallIde(r)
             \/ Wait \/ \E t \in Tasks : Clone(t) \/ Wake(t)
    BY <2>5 DEF CallIde, Wait, Clone, Wake
  <2>6. CASE UNCHANGED vars
    BY <2>6 DEF vars
  <2> QED BY <2>1, <2>2, <2>3, <2>4, <2>5, <2>6 DEF Next, KernelStep
<1> QED BY <1>2 DEF TimeOK

LEMMA NextInv == ASSUME OneWriteIrq, Inv, [Next]_vars PROVE Inv'
<1>1. CASE KernelStep
  BY <1>1, LockWaitInv, LockedInv, DoneWaitInv, DoneReadInv, DoneWriteInv, PollInv,
     SleepInv, PollReadInv, PollWriteInv, TimeoutInv, Still DEF KernelStep, PanicSpin
<1>2. CASE Timer \/ IdleSteps
  BY <1>2, TimerInv, IdleStepsInv
<1>3. CASE DiskReady \/ DiskWritten \/ intr_hd_handle
  BY <1>3, DiskInv, IntrHdInv
<1>4. CASE \E r \in Request : CallIde(r)
  BY <1>4, CallIdeInv
<1>5. CASE Wait \/ \E t \in Tasks : Clone(t) \/ Wake(t)
  BY <1>5, CloneInv, WaitInv, WakeInv
<1>6. CASE UNCHANGED vars
  BY <1>6, Still
<1> QED BY <1>1, <1>2, <1>3, <1>4, <1>5, <1>6 DEF Next

\* Inv is an invariant of the driver and its disk, for any time limit.
THEOREM IdeInvariant == ASSUME OneWriteIrq PROVE Spec => [](Inv /\ TimeOK)
<1>1. Init => Inv /\ TimeOK
  BY InitInv, IdeAssumption DEF Init, TimeOK
<1>2. Inv /\ TimeOK /\ [Next]_vars => (Inv /\ TimeOK)'
  BY NextInv, TimeInv
<1> QED BY <1>1, <1>2, PTL DEF Spec

\* disk_done is up only when the disk has done what the holder of the channel
\* asked for, the channel is free only when the disk is idle, and no ASSERT of
\* ide_read(), ide_write() or the handler fails, whatever is late, but the one around
\* busy_wait() when the disk is busy for too long.
THEOREM IdeOwnInterrupt == ASSUME OneWriteIrq PROVE Spec => []OwnInterrupt
<1>1. ASSUME Inv, TimeOK PROVE OwnInterrupt
  <2>1. TypeOK /\ ~ks.panic
    BY <1>1, Now DEF TypeOK, PcOK, DevOK, SchedInv, TimeOK
  <2>2. \A t \in Owners : Owners = {t} /\ disk.cmd = req[t].cmd /\ disk.lba = req[t].lba
    BY <1>1, Now DEF OwnerOK
  <2>3. lock.value = 1 => disk.state = "idle" /\ Owners = {}
    BY <1>1, Now DEF OwnerOK, FreeOK, Phase
  <2>4. ASSUME disk_done.value = 1
        PROVE  disk.state = IF disk.cmd = "CMD_READ_SECTOR" THEN "data" ELSE "idle"
    <3>1. PICK t \in Owners : TRUE
      BY <1>1, <2>4, Now DEF FreeOK, Phase
    <3>2. disk.cmd = "CMD_READ_SECTOR" <=> IsRead(t)
      BY <2>2 DEF IsRead
    <3>3. pc[t] \in {"done", "poll", "sleep", "panic_spin"}
      BY DEF Owners
    <3>4. CASE IsRead(t)
      <4>1. disk.state = "data"
        <5>1. disk_done.value # 0 /\ t \in Owners /\ ReadOK
          BY <1>1, <2>4, <3>1, Now
        <5> QED BY <3>3, <3>4, <5>1 DEF ReadOK, Phase
      <4> QED BY <3>2, <3>4, <4>1
    <3>5. CASE ~IsRead(t)
      <4>1. disk.state = "idle"
        <5>1. disk_done.value # 0 /\ t \in Owners /\ WriteOK
          BY <1>1, <2>4, <3>1, Now
        <5> QED BY <3>3, <3>5, <5>1 DEF WriteOK, Phase
      <4> QED BY <3>2, <3>5, <4>1
    <3> QED BY <3>4, <3>5
  <2> QED BY <2>1, <2>2, <2>3, <2>4 DEF OwnInterrupt
<1> QED BY <1>1, IdeInvariant, PTL
=============================================================================
