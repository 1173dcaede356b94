----------------------------- MODULE SyncProofs ------------------------------
(***************************************************************************)
(* Sync: the semaphores exclude each other's holders, lose no wakeup and   *)
(* break no ASSERT, for any set of tasks, any number of locks, any time    *)
(* slice and any number of blocking calls in a system call.                *)
(***************************************************************************)
EXTENDS Sync, SchedProofs

-----------------------------------------------------------------------------
(* The inductive invariant *)

PcOK ==
    /\ pc \in [Tasks -> {"user", "kernel", "down", "io"} \cup IdleLabels]
    /\ \A t \in Tasks : pc[t] \in IdleLabels <=> t = idle_task

LocksOK ==
    /\ sema \in [Locks -> SemaState]
    /\ held \in [Tasks -> SUBSET Locks]
    /\ want \in [Tasks -> Locks]
    /\ ops \in [Tasks -> 0..MaxOps]

\* Nobody hangs or waits for a child here, and whoever is inside a blocking call
\* exists.
StatusOK ==
    \A t \in Tasks : /\ ks.status[t] \in {"RUNNING", "READY", "BLOCKED", "DIED"}
                     /\ pc[t] \in {"down", "io"} => ks.status[t] # "DIED"

\* Who is in the list of a semaphore sleeps in sema_down() of that semaphore.
WaitersAsleep ==
    \A l \in Locks :
        /\ NoDuplicates(sema[l].waiters)
        /\ \A t \in Tasks : elem_find(sema[l].waiters, t) =>
              /\ pc[t] = "down" /\ want[t] = l
              /\ ks.status[t] = "BLOCKED" /\ ~elem_find(ks.ready, t)

Inv ==
    /\ SchedInv(ks)
    /\ PcOK /\ LocksOK /\ StatusOK
    /\ MutualExclusion /\ WaitersAsleep /\ NoLostWakeup

LEMMA InitInv == Init => Inv
<1> SUFFICES ASSUME Init PROVE Inv
  OBVIOUS
<1>1. SchedInv(ks)
  BY TaskInitFacts DEF Init, KernelInit
<1>2. PcOK
  BY DEF Init, KernelInit, PcOK, IdleLabels
<1>3. LocksOK
  <2>1. (CHOOSE l \in Locks : TRUE) \in Locks
    BY SyncAssumption
  <2>2. sema_init(1) \in SemaState
    BY DEF sema_init, SemaState
  <2> QED BY <2>1, <2>2, SyncAssumption DEF Init, LocksOK
<1>4. StatusOK
  BY DEF Init, KernelInit, StatusOK, task_init, IdleLabels
<1>5. \A l \in Locks : sema[l].value = 1 /\ sema[l].waiters = <<>>
  BY DEF Init, sema_init
<1>6. MutualExclusion
  BY <1>5 DEF Init, MutualExclusion
<1>7. WaitersAsleep
  BY <1>5 DEF WaitersAsleep, elem_find, NoDuplicates
<1>8. NoLostWakeup
  BY <1>5 DEF NoLostWakeup, Init, KernelInit
<1> QED BY <1>1, <1>2, <1>3, <1>4, <1>6, <1>7, <1>8 DEF Inv

-----------------------------------------------------------------------------
\* The part of the invariant that relates the scheduler and the semaphores is
\* kept by a step that changes only the scheduler's state, with the running task
\* outside sema_down().
LEMMA KeptInv ==
    ASSUME Inv, SchedInv(ks'), PcOK',
           Kept(ks, ks', {t \in Tasks : pc[t] = "down"}),
           pc[ks.running] # "down",
           \A t \in Tasks : pc'[t] = "down" <=> pc[t] = "down",
           \A t \in Tasks \ {ks.running} : pc'[t] = "io" => pc[t] = "io",
           pc'[ks.running] = "io" => ks'.status[ks.running] # "DIED",
           sema' = sema, held' = held, want' = want, ops' \in [Tasks -> 0..MaxOps]
    PROVE  Inv'
<1>0. /\ ks.running \in Tasks /\ ks.status \in [Tasks -> Status]
      /\ ks'.running \in Tasks /\ ks'.status \in [Tasks -> Status]
      /\ SchedInv(ks) /\ PcOK /\ LocksOK /\ StatusOK
      /\ MutualExclusion /\ WaitersAsleep /\ NoLostWakeup
      /\ ks.status[ks.running] = "RUNNING" /\ ~elem_find(ks.ready, ks.running)
  BY StateFields, RunningNotQueued DEF Inv, SchedInv
<1>1. LocksOK'
  BY <1>0 DEF LocksOK
<1>2. StatusOK'
  BY <1>0, SchedAssumption DEF StatusOK, Kept, PcOK, IdleLabels
<1>3. MutualExclusion'
  BY <1>0 DEF MutualExclusion
<1>a. \A t \in Tasks : pc[t] = "down" => t \notin {idle_task, ks.running}
  BY <1>0 DEF PcOK, IdleLabels
<1>4. WaitersAsleep'
  BY <1>0, <1>a DEF WaitersAsleep, Kept
<1>5. NoLostWakeup'
  <2>1. ASSUME NEW t \in Tasks, pc'[t] = "down", t # ks'.running,
               ~elem_find(ks'.ready, t)
        PROVE  elem_find(sema'[want'[t]].waiters, t)
    BY <1>0, <1>a, <2>1 DEF NoLostWakeup, Kept
  <2>2. ASSUME NEW l \in Locks, sema'[l].value = 1, sema'[l].waiters # <<>>
        PROVE  \E t \in Tasks : /\ pc'[t] = "down" /\ want'[t] = l
                                /\ t = ks'.running \/ elem_find(ks'.ready, t)
    <3>1. PICK t \in Tasks : /\ pc[t] = "down" /\ want[t] = l
                             /\ t = ks.running \/ elem_find(ks.ready, t)
      BY <1>0, <2>2 DEF NoLostWakeup
    <3> QED BY <1>0, <1>a, <3>1 DEF Kept
  <2> QED BY <2>1, <2>2 DEF NoLostWakeup
<1> QED BY <1>1, <1>2, <1>3, <1>4, <1>5 DEF Inv

-----------------------------------------------------------------------------
(* The steps in which nobody is inside sema_down() *)

\* What the proofs of the steps need of the current state.
LEMMA Now ==
    ASSUME Inv
    PROVE  /\ ks.running \in Tasks /\ ks.status \in [Tasks -> Status]
           /\ ks \in SchedState /\ SchedInv(ks) /\ PcOK /\ LocksOK /\ StatusOK
           /\ MutualExclusion /\ WaitersAsleep /\ NoLostWakeup
           /\ ks.status[ks.running] = "RUNNING" /\ ~elem_find(ks.ready, ks.running)
           /\ pc[idle_task] # "down"
BY SchedAssumption, StateFields, RunningNotQueued DEF Inv, SchedInv, PcOK, IdleLabels

LEMMA KeptStutter ==
    ASSUME Inv, ks' = ks, pc[ks.running] # "down"
    PROVE  SchedInv(ks') /\ Kept(ks, ks', {t \in Tasks : pc[t] = "down"})
BY Now DEF Kept

LEMMA UseOpType == ASSUME Inv, UseOp PROVE ops' \in [Tasks -> 0..MaxOps]
BY Now, SyncAssumption DEF LocksOK, UseOp

LEMMA TimerInv == ASSUME Inv, Timer PROVE Inv'
<1>1. ks' = intr_time_handle(ks) /\ pc' = IntrExit /\ pc[ks.running] # "down"
      /\ UNCHANGED <<sema, held, want, ops>>
  BY DEF Timer, IntrTime, IntrOn, IdleLabels
<1>2. SchedInv(ks')
  BY <1>1, Now, TimeFacts
<1>3. \/ Requeued(ks, ks')
      \/ ks'.running = ks.running /\ ks'.status = ks.status /\ ks'.ready = ks.ready
  BY <1>1, Now, TimeFacts
<1>4. Kept(ks, ks', {t \in Tasks : pc[t] = "down"})
  BY <1>1, <1>2, <1>3, Now, KeptRequeued DEF Kept
<1>5. /\ PcOK' /\ \A t \in Tasks \ {idle_task} : pc'[t] = pc[t]
      /\ pc'[idle_task] \in IdleLabels
  BY <1>1, Now, SchedAssumption DEF IntrExit, PcOK, IdleLabels
<1>6. pc[ks.running] # "io" /\ ops' \in [Tasks -> 0..MaxOps]
  BY <1>1, Now DEF Timer, IntrTime, IntrOn, IdleLabels, LocksOK
<1>7. pc'[ks.running] # "io"
  BY <1>5, <1>6, Now DEF IdleLabels
<1>8. \A t \in Tasks : pc'[t] = "down" <=> pc[t] = "down"
  BY <1>5, Now DEF IdleLabels
<1>9. \A t \in Tasks \ {ks.running} : pc'[t] = "io" => pc[t] = "io"
  BY <1>5, Now DEF IdleLabels
<1> QED BY <1>1, <1>2, <1>4, <1>5, <1>6, <1>7, <1>8, <1>9, KeptInv

LEMMA IdleStepsInv == ASSUME Inv, IdleSteps PROVE Inv'
<1>1. ks.running = idle_task
  BY Now DEF IdleSteps, IdleBlock, IdleHlt, Running, PcOK, IdleLabels
<1>2. PcOK' /\ \A t \in Tasks \ {idle_task} : pc'[t] = pc[t]
  BY Now DEF IdleSteps, IdleBlock, IdleHlt, PcOK, IdleLabels
<1>3. pc'[idle_task] \in IdleLabels
  BY <1>2, SchedAssumption DEF PcOK
<1>4. SchedInv(ks') /\ Kept(ks, ks', {t \in Tasks : pc[t] = "down"})
  <2>1. CASE IdleHlt
    BY <1>1, <2>1, Now, KeptStutter DEF IdleHlt
  <2>2. CASE IdleBlock
    <3>1. SchedInv(ks') /\ Blocked(ks, ks', "BLOCKED")
      BY <2>2, Now, BlockFacts DEF IdleBlock
    <3> QED BY <1>1, <3>1, Now, KeptBlocked DEF Kept
  <2> QED BY <2>1, <2>2 DEF IdleSteps
<1>5. UNCHANGED <<sema, held, want, ops>> /\ ops' \in [Tasks -> 0..MaxOps]
  BY Now DEF IdleSteps, LocksOK
<1> QED BY <1>1, <1>2, <1>3, <1>4, <1>5, Now, KeptInv DEF IdleLabels

LEMMA CallRetInv == ASSUME Inv, SystemCall \/ SystemRet \/ IoDone PROVE Inv'
<1>1. /\ ks' = ks /\ UNCHANGED <<sema, held, want>>
      /\ pc[ks.running] \in {"user", "kernel", "io"}
      /\ \/ pc' = [pc EXCEPT ![ks.running] = "user"]
         \/ pc' = [pc EXCEPT ![ks.running] = "kernel"]
  BY DEF SystemCall, SystemRet, IoDone, Running, Goto
<1>2. ops' \in [Tasks -> 0..MaxOps]
  BY Now, SyncAssumption DEF SystemCall, SystemRet, IoDone, LocksOK
<1>3. PcOK'
  BY <1>1, Now DEF PcOK, IdleLabels
<1>4. /\ pc'[ks.running] \in {"user", "kernel"}
      /\ \A t \in Tasks \ {ks.running} : pc'[t] = pc[t]
  BY <1>1, Now DEF PcOK
<1> QED BY <1>1, <1>2, <1>3, <1>4, Now, KeptStutter, KeptInv

LEMMA IoWaitInv == ASSUME Inv, IoWait PROVE Inv'
<1>1. /\ pc[ks.running] = "kernel" /\ pc' = [pc EXCEPT ![ks.running] = "io"]
      /\ ks' = task_block(ks, "BLOCKED") /\ UNCHANGED <<sema, held, want>>
      /\ ops' \in [Tasks -> 0..MaxOps]
  BY UseOpType DEF IoWait, Running, Goto
<1>2. ks.running # idle_task
  BY <1>1, Now DEF PcOK, IdleLabels
<1>3. SchedInv(ks') /\ Blocked(ks, ks', "BLOCKED")
  BY <1>1, Now, BlockFacts
<1>4. /\ Kept(ks, ks', {t \in Tasks : pc[t] = "down"})
      /\ ks'.status[ks.running] = "BLOCKED"
  BY <1>1, <1>2, <1>3, Now, KeptBlocked DEF Kept
<1>5. PcOK'
  BY <1>1, Now DEF PcOK, IdleLabels
<1>6. /\ pc'[ks.running] = "io" /\ \A t \in Tasks \ {ks.running} : pc'[t] = pc[t]
  BY <1>1, Now DEF PcOK
<1> QED BY <1>1, <1>3, <1>4, <1>5, <1>6, KeptInv

LEMMA YieldInv == ASSUME Inv, Yield PROVE Inv'
<1>1. /\ pc[ks.running] = "kernel" /\ ks' = task_yield(ks)
      /\ UNCHANGED <<pc, sema, held, want>> /\ ops' \in [Tasks -> 0..MaxOps]
  BY UseOpType DEF Yield, Running
<1>2. SchedInv(ks') /\ Requeued(ks, ks')
  BY <1>1, Now, YieldFacts
<1>3. Kept(ks, ks', {t \in Tasks : pc[t] = "down"})
  BY <1>1, <1>2, Now, KeptRequeued DEF Kept
<1>4. PcOK'
  BY <1>1, Now DEF PcOK
<1> QED BY <1>1, <1>2, <1>3, <1>4, KeptInv

LEMMA CloneInv == ASSUME Inv, NEW c \in Tasks, Clone(c) PROVE Inv'
<1>1. /\ pc[ks.running] = "kernel" /\ ks.status[c] = "DIED"
      /\ ks' = create_task(ks, c) /\ pc' = [pc EXCEPT ![c] = "user"]
      /\ UNCHANGED <<sema, held, want, ops>> /\ ops' \in [Tasks -> 0..MaxOps]
  BY Now DEF Clone, Running, LocksOK
<1>2. /\ SchedInv(ks') /\ ks'.running = ks.running
      /\ ks'.status = [ks.status EXCEPT ![c] = "READY"]
      /\ \A u : elem_find(ks'.ready, u) <=> elem_find(ks.ready, u) \/ u = c
  BY <1>1, Now, CreateFacts
<1>3. /\ pc[c] \notin {"down", "io"} /\ c # ks.running
  BY <1>1, Now DEF StatusOK
<1>4. c # idle_task
  BY <1>1, Now DEF SchedInv, IdleFallback, UniqueRunning, QueueSound, elem_find
<1>5. PcOK'
  BY <1>1, <1>4, Now DEF PcOK, IdleLabels
<1>6. Kept(ks, ks', {t \in Tasks : pc[t] = "down"})
  BY <1>1, <1>2, <1>3, Now DEF Kept
<1>7. pc'[c] = "user" /\ \A t \in Tasks \ {c} : pc'[t] = pc[t]
  BY <1>1, Now DEF PcOK
<1> QED BY <1>1, <1>2, <1>3, <1>4, <1>5, <1>6, <1>7, Now, KeptInv

LEMMA IntrDeviceInv == ASSUME Inv, NEW c \in Tasks, IntrDevice(c) PROVE Inv'
<1>1. /\ pc[ks.running] \notin {"down", "io"} /\ pc[c] = "io" /\ ~elem_find(ks.ready, c)
      /\ ks' = task_unblock(ks, c) /\ pc' = IntrExit
      /\ UNCHANGED <<sema, held, want, ops>> /\ ops' \in [Tasks -> 0..MaxOps]
  BY Now DEF IntrDevice, IntrOn, IdleLabels, LocksOK
<1>2. ks.status[c] = "BLOCKED"
  BY <1>1, Now DEF StatusOK, SchedInv, UniqueRunning, QueueSound
<1>3. /\ SchedInv(ks') /\ ks'.running = ks.running /\ ks'.status = ks.status
      /\ \A u : elem_find(ks'.ready, u) <=> elem_find(ks.ready, u) \/ u = c
  BY <1>1, <1>2, Now, UnblockInv
<1>4. Kept(ks, ks', {t \in Tasks : pc[t] = "down"})
  BY <1>1, <1>3, Now DEF Kept
<1>5. /\ PcOK' /\ \A t \in Tasks \ {idle_task} : pc'[t] = pc[t]
      /\ pc'[idle_task] \in IdleLabels
  BY <1>1, Now, SchedAssumption DEF IntrExit, PcOK, IdleLabels
<1>6. \A t \in Tasks : pc'[t] = "down" <=> pc[t] = "down"
  BY <1>5, Now DEF IdleLabels
<1>9. \A t \in Tasks \ {ks.running} : pc'[t] = "io" => pc[t] = "io"
  BY <1>5, Now DEF IdleLabels
<1>7. pc'[ks.running] # "io"
  BY <1>1, <1>5, Now DEF IdleLabels
<1> QED BY <1>1, <1>3, <1>4, <1>5, <1>6, <1>7, <1>9, KeptInv

-----------------------------------------------------------------------------
(* The steps of sema_down() and sema_up() *)

LEMMA CallDownInv == ASSUME Inv, NEW l \in Locks, CallDown(l) PROVE Inv'
<1> DEFINE r == ks.running
<1>1. /\ pc[r] = "kernel" /\ ks' = ks /\ UNCHANGED <<sema, held>>
      /\ want' = [want EXCEPT ![r] = l] /\ pc' = [pc EXCEPT ![r] = "down"]
      /\ ops' \in [Tasks -> 0..MaxOps]
  BY UseOpType DEF CallDown, Running, Goto
<1>2. SchedInv(ks')
  BY <1>1, Now
<1>3. PcOK' /\ LocksOK'
  BY <1>1, Now DEF PcOK, LocksOK, IdleLabels
<1>4. /\ r \in Tasks /\ ks.status[r] = "RUNNING" /\ pc'[r] = "down"
      /\ \A t \in Tasks \ {r} : pc'[t] = pc[t] /\ want'[t] = want[t]
  BY <1>1, Now DEF PcOK, LocksOK
<1> HIDE DEF r
<1>5. StatusOK'
  BY <1>1, <1>4, Now DEF StatusOK
<1>6. MutualExclusion'
  BY <1>1, Now DEF MutualExclusion
<1>7. WaitersAsleep'
  BY <1>1, <1>4, Now DEF WaitersAsleep
<1>8. NoLostWakeup'
  <2>1. ASSUME NEW t \in Tasks, pc'[t] = "down", t # ks'.running,
               ~elem_find(ks'.ready, t)
        PROVE  elem_find(sema'[want'[t]].waiters, t)
    BY <1>1, <1>4, <2>1, Now DEF NoLostWakeup, r
  <2>2. ASSUME NEW m \in Locks, sema'[m].value = 1, sema'[m].waiters # <<>>
        PROVE  \E t \in Tasks : /\ pc'[t] = "down" /\ want'[t] = m
                                /\ t = ks'.running \/ elem_find(ks'.ready, t)
    BY <1>1, <1>4, <2>2, Now DEF NoLostWakeup
  <2> QED BY <2>1, <2>2 DEF NoLostWakeup
<1> QED BY <1>2, <1>3, <1>5, <1>6, <1>7, <1>8 DEF Inv

LEMMA SemaDownWaitInv == ASSUME Inv, SemaDownWait PROVE Inv'
<1> DEFINE r == ks.running
           w == want[r]
<1>1. /\ pc[r] = "down" /\ UNCHANGED <<pc, held, want, ops>>
      /\ r \in Tasks /\ r # idle_task /\ w \in Locks
  BY Now DEF SemaDownWait, Running, PcOK, LocksOK, IdleLabels
<1>2. /\ sema[w].value = 0 /\ sema' = [sema EXCEPT ![w] = sema_wait(@, r)]
      /\ ks' = sema_wait_sched(ks, sema[w])
  BY DEF SemaDownWait
<1>3. \A m \in Locks : sema[m] \in SemaState /\ sema[m].waiters \in Seq(Tasks)
  BY Now DEF LocksOK, SemaState
<1>4. ~elem_find(sema[w].waiters, r)
  BY <1>1, Now DEF WaitersAsleep
<1>5. ks' = task_block(ks, "BLOCKED")
  <2>1. ASSERT(ks, ~elem_find(sema[w].waiters, ks.running)) = ks
    BY <1>4, Now, AssertTrue DEF elem_find
  <2> QED BY <1>2, <2>1 DEF sema_wait_sched
<1>6. SchedInv(ks') /\ Blocked(ks, ks', "BLOCKED")
  BY <1>5, Now, BlockFacts
<1>7. /\ Kept(ks, ks', Tasks \ {idle_task, r})
      /\ r # ks'.running /\ ~elem_find(ks'.ready, r) /\ ks'.status[r] = "BLOCKED"
  BY <1>1, <1>6, Now, KeptBlocked
<1>8. /\ sema'[w].value = 0 /\ sema'[w].waiters = list_append(sema[w].waiters, r)
      /\ sema'[w] \in SemaState /\ \A m \in Locks \ {w} : sema'[m] = sema[m]
      /\ sema' \in [Locks -> SemaState]
  BY <1>1, <1>2, <1>3, Now, AppendSeq DEF sema_wait, SemaState, LocksOK
<1>9. PcOK' /\ LocksOK'
  BY <1>1, <1>8, Now DEF PcOK, LocksOK
<1>a. \A t \in Tasks : pc[t] = "down" => t # idle_task
  BY Now
<1>b. /\ NoDuplicates(sema'[w].waiters)
      /\ \A u : elem_find(sema'[w].waiters, u) <=> elem_find(sema[w].waiters, u) \/ u = r
  BY <1>1, <1>3, <1>4, <1>8, Now, AppendElems, AppendNoDuplicates DEF WaitersAsleep
<1> HIDE DEF r
<1>10. StatusOK'
  BY <1>1, <1>7, Now DEF StatusOK, Kept
<1>11. MutualExclusion'
  BY <1>1, <1>2, <1>8, Now DEF MutualExclusion
<1>12. WaitersAsleep'
  <2>1. ASSUME NEW m \in Locks, NEW t \in Tasks, elem_find(sema[m].waiters, t)
        PROVE  /\ pc'[t] = "down" /\ want'[t] = m
               /\ ks'.status[t] = "BLOCKED" /\ ~elem_find(ks'.ready, t)
    <3>1. /\ pc[t] = "down" /\ want[t] = m /\ ks.status[t] = "BLOCKED"
          /\ ~elem_find(ks.ready, t) /\ t # idle_task /\ t # r
      BY <2>1, <1>a, Now DEF WaitersAsleep, r
    <3> QED BY <1>1, <1>7, <3>1 DEF Kept
  <2>2. \A m \in Locks : NoDuplicates(sema'[m].waiters)
    BY <1>8, <1>b, Now DEF WaitersAsleep
  <2>3. ASSUME NEW m \in Locks, NEW t \in Tasks, elem_find(sema'[m].waiters, t)
        PROVE  /\ pc'[t] = "down" /\ want'[t] = m
               /\ ks'.status[t] = "BLOCKED" /\ ~elem_find(ks'.ready, t)
    <3>1. CASE elem_find(sema[m].waiters, t)
      BY <2>1, <3>1
    <3>2. CASE m = w /\ t = r
      BY <1>1, <1>7, <3>2
    <3> QED BY <1>8, <1>b, <2>3, <3>1, <3>2
  <2> QED BY <2>2, <2>3 DEF WaitersAsleep
<1>13. NoLostWakeup'
  <2>1. ASSUME NEW t \in Tasks, pc'[t] = "down", t # ks'.running,
               ~elem_find(ks'.ready, t)
        PROVE  elem_find(sema'[want'[t]].waiters, t)
    <3>1. CASE t = r
      BY <1>1, <1>b, <3>1
    <3>2. CASE t # r
      <4>1. elem_find(sema[want[t]].waiters, t) /\ want[t] \in Locks
        BY <1>1, <1>7, <1>a, <2>1, <3>2, Now DEF NoLostWakeup, Kept, LocksOK, r
      <4> QED BY <1>1, <1>8, <1>b, <4>1
    <3> QED BY <3>1, <3>2
  <2>2. ASSUME NEW m \in Locks, sema'[m].value = 1, sema'[m].waiters # <<>>
        PROVE  \E t \in Tasks : /\ pc'[t] = "down" /\ want'[t] = m
                                /\ t = ks'.running \/ elem_find(ks'.ready, t)
    <3>1. m # w /\ sema[m].value = 1 /\ sema[m].waiters # <<>>
      BY <1>8, <2>2
    <3>2. PICK t \in Tasks : /\ pc[t] = "down" /\ want[t] = m
                             /\ t = ks.running \/ elem_find(ks.ready, t)
      BY <3>1, Now DEF NoLostWakeup
    <3>3. t # r
      BY <3>1, <3>2
    <3> QED BY <1>1, <1>7, <1>a, <3>2, <3>3 DEF Kept, r
  <2> QED BY <2>1, <2>2 DEF NoLostWakeup
<1> QED BY <1>6, <1>9, <1>10, <1>11, <1>12, <1>13 DEF Inv

LEMMA SemaDownTakeInv == ASSUME Inv, SemaDownTake PROVE Inv'
<1> DEFINE r == ks.running
           w == want[r]
<1>1. /\ pc[r] = "down" /\ UNCHANGED <<want, ops>>
      /\ r \in Tasks /\ r # idle_task /\ w \in Locks
      /\ held' = [held EXCEPT ![r] = @ \cup {w}]
      /\ pc' = [pc EXCEPT ![r] = "kernel"]
  BY Now DEF SemaDownTake, Running, Goto, PcOK, LocksOK, IdleLabels
<1>2. /\ sema[w].value # 0 /\ sema' = [sema EXCEPT ![w] = sema_take(@)]
      /\ ks' = sema_take_sched(ks, sema[w])
  BY DEF SemaDownTake
<1>3. sema[w] \in SemaState /\ sema[w].value = 1
  BY <1>1, <1>2, Now DEF LocksOK, SemaState
<1>4. ks' = ks
  <2>1. (sema[w].value - 1 = 0) = TRUE
    BY <1>3
  <2>2. ASSERT(ks, TRUE) = ks
    BY Now, AssertTrue
  <2> QED BY <1>2, <2>1, <2>2 DEF sema_take_sched
<1>a. /\ sema_take(sema[w]).value = 0 /\ sema_take(sema[w]).waiters = sema[w].waiters
      /\ sema_take(sema[w]) \in SemaState
  <2>1. 1 - 1 = 0
    OBVIOUS
  <2> QED BY <1>3, <2>1 DEF sema_take, SemaState
<1>5. /\ sema'[w].value = 0 /\ sema'[w].waiters = sema[w].waiters
      /\ \A m \in Locks \ {w} : sema'[m] = sema[m]
      /\ sema' \in [Locks -> SemaState]
  BY <1>1, <1>2, <1>a, Now DEF LocksOK
<1>6. PcOK' /\ LocksOK'
  BY <1>1, <1>5, Now DEF PcOK, LocksOK, IdleLabels
<1>7. /\ held'[r] = held[r] \cup {w} /\ pc'[r] = "kernel" /\ ks.status[r] = "RUNNING"
      /\ \A t \in Tasks \ {r} : held'[t] = held[t] /\ pc'[t] = pc[t]
  BY <1>1, Now DEF LocksOK, PcOK
<1>8. \A t \in Tasks : w \notin held[t]
  BY <1>1, <1>3, Now DEF MutualExclusion
<1> HIDE DEF r
<1>9. StatusOK'
  BY <1>1, <1>4, <1>7, Now DEF StatusOK
<1>10. MutualExclusion'
  BY <1>1, <1>5, <1>7, <1>8, Now DEF MutualExclusion
<1>11. WaitersAsleep'
  BY <1>1, <1>4, <1>5, <1>7, Now DEF WaitersAsleep
<1>12. NoLostWakeup'
  <2>1. ASSUME NEW t \in Tasks, pc'[t] = "down", t # ks'.running,
               ~elem_find(ks'.ready, t)
        PROVE  elem_find(sema'[want'[t]].waiters, t)
    <3>1. elem_find(sema[want[t]].waiters, t) /\ want[t] \in Locks
      BY <1>4, <1>7, <2>1, Now DEF NoLostWakeup, LocksOK, r
    <3> QED BY <1>1, <1>5, <3>1
  <2>2. ASSUME NEW m \in Locks, sema'[m].value = 1, sema'[m].waiters # <<>>
        PROVE  \E t \in Tasks : /\ pc'[t] = "down" /\ want'[t] = m
                                /\ t = ks'.running \/ elem_find(ks'.ready, t)
    <3>1. m # w /\ sema[m].value = 1 /\ sema[m].waiters # <<>>
      BY <1>5, <2>2
    <3>2. PICK t \in Tasks : /\ pc[t] = "down" /\ want[t] = m
                             /\ t = ks.running \/ elem_find(ks.ready, t)
      BY <3>1, Now DEF NoLostWakeup
    <3>3. t # r
      BY <3>1, <3>2
    <3> QED BY <1>1, <1>4, <1>7, <3>2, <3>3
  <2> QED BY <2>1, <2>2 DEF NoLostWakeup
<1> QED BY <1>4, <1>6, <1>9, <1>10, <1>11, <1>12, Now DEF Inv

LEMMA SemaUpInv == ASSUME Inv, NEW l \in Locks, SemaUp(l) PROVE Inv'
<1> DEFINE r == ks.running
           s == sema[l]
           h == Head(s.waiters)
<1>1. /\ pc[r] = "kernel" /\ l \in held[r] /\ UNCHANGED <<pc, want, ops>>
      /\ r \in Tasks /\ r # idle_task
      /\ held' = [held EXCEPT ![r] = @ \ {l}]
      /\ sema' = [sema EXCEPT ![l] = sema_up(@)]
      /\ ks' = sema_up_sched(ks, s)
  BY Now DEF SemaUp, Running, PcOK, IdleLabels
<1>2. /\ s \in SemaState /\ s.value = 0 /\ NoDuplicates(s.waiters)
      /\ \A t \in Tasks \ {r} : l \notin held[t]
  <2>1. s \in SemaState /\ s.value \in 0..1
    BY Now DEF LocksOK, SemaState
  <2>2. s.value # 1 /\ \A t \in Tasks \ {r} : l \notin held[t]
    BY <1>1, Now DEF MutualExclusion
  <2>3. NoDuplicates(s.waiters)
    BY Now DEF WaitersAsleep
  <2> QED BY <2>1, <2>2, <2>3
<1>3. ASSERT(ks, s.value = 0) = ks
  <2>1. (s.value = 0) = TRUE
    BY <1>2
  <2>2. ASSERT(ks, TRUE) = ks
    BY Now, AssertTrue
  <2> QED BY <2>1, <2>2
<1>4. ks' = IF s.waiters = <<>> THEN ks ELSE task_unblock(ks, h)
  BY <1>1, <1>3 DEF sema_up_sched
<1>5. s.waiters # <<>> =>
        /\ h \in Tasks /\ pc[h] = "down" /\ want[h] = l
        /\ ks.status[h] = "BLOCKED" /\ ~elem_find(ks.ready, h)
  BY <1>2, SemaUpFacts, Now DEF WaitersAsleep
<1>6. /\ SchedInv(ks') /\ ks'.running = ks.running /\ ks'.status = ks.status
      /\ \A u : elem_find(ks'.ready, u) <=>
                  elem_find(ks.ready, u) \/ (s.waiters # <<>> /\ u = h)
  <2>1. CASE s.waiters = <<>>
    BY <1>4, <2>1, Now
  <2>2. CASE s.waiters # <<>>
    <3>1. ks' = task_unblock(ks, h)
      BY <1>4, <2>2
    <3>2. h \in Tasks /\ ks.status[h] = "BLOCKED" /\ ~elem_find(ks.ready, h) /\ SchedInv(ks)
      BY <1>5, <2>2, Now
    <3>3. LET n == task_unblock(ks, h)
          IN  /\ SchedInv(n) /\ n.running = ks.running /\ n.status = ks.status
              /\ \A u : elem_find(n.ready, u) <=> elem_find(ks.ready, u) \/ u = h
      BY <3>2, UnblockInv
    <3> QED BY <2>2, <3>1, <3>3
  <2> QED BY <2>1, <2>2
<1>7. /\ sema'[l] = sema_up(s) /\ \A m \in Locks \ {l} : sema'[m] = sema[m]
      /\ sema' \in [Locks -> SemaState]
  BY <1>1, <1>2, SemaUpFacts, Now DEF LocksOK
<1>8. /\ held'[r] = held[r] \ {l} /\ \A t \in Tasks \ {r} : held'[t] = held[t]
      /\ held' \in [Tasks -> SUBSET Locks]
  BY <1>1, Now DEF LocksOK
<1>9. PcOK' /\ LocksOK'
  BY <1>1, <1>7, <1>8, Now DEF PcOK, LocksOK
<1>10. /\ sema'[l].value = 1 /\ NoDuplicates(sema'[l].waiters)
       /\ \A u : elem_find(sema'[l].waiters, u) <=>
                   elem_find(s.waiters, u) /\ (s.waiters # <<>> => u # h)
       /\ sema'[l].waiters # <<>> => s.waiters # <<>>
  BY <1>2, <1>7, SemaUpFacts, ZenonT(60)
<1> HIDE DEF r, h
<1>11. StatusOK'
  BY <1>1, <1>6, Now DEF StatusOK
<1>12. MutualExclusion'
  <2>1. ASSUME NEW m \in Locks
        PROVE  /\ \A t, u \in Tasks : m \in held'[t] \cap held'[u] => t = u
               /\ sema'[m].value = 1 <=> \A t \in Tasks : m \notin held'[t]
    <3>1. CASE m = l
      BY <1>1, <1>2, <1>8, <1>10, <3>1
    <3>2. CASE m # l
      <4>1. \A t \in Tasks : m \in held'[t] <=> m \in held[t]
        BY <1>1, <1>8, <3>2
      <4> QED BY <1>7, <3>2, <4>1, Now DEF MutualExclusion
    <3> QED BY <3>1, <3>2
  <2> QED BY <2>1 DEF MutualExclusion
<1>13. WaitersAsleep'
  <2>1. ASSUME NEW m \in Locks, NEW t \in Tasks, elem_find(sema'[m].waiters, t)
        PROVE  elem_find(sema[m].waiters, t) /\ (s.waiters # <<>> => t # h)
    <3>1. CASE m = l
      BY <1>10, <2>1, <3>1
    <3>2. CASE m # l
      BY <1>5, <1>7, <2>1, <3>2, Now DEF WaitersAsleep
    <3> QED BY <3>1, <3>2
  <2>2. \A m \in Locks : NoDuplicates(sema'[m].waiters)
    BY <1>7, <1>10, Now DEF WaitersAsleep
  <2>3. ASSUME NEW m \in Locks, NEW t \in Tasks, elem_find(sema'[m].waiters, t)
        PROVE  /\ pc'[t] = "down" /\ want'[t] = m
               /\ ks'.status[t] = "BLOCKED" /\ ~elem_find(ks'.ready, t)
    BY <1>1, <1>6, <2>1, <2>3, Now DEF WaitersAsleep
  <2> QED BY <2>2, <2>3 DEF WaitersAsleep
<1>14. NoLostWakeup'
  <2>1. ASSUME NEW t \in Tasks, pc'[t] = "down", t # ks'.running,
               ~elem_find(ks'.ready, t)
        PROVE  elem_find(sema'[want'[t]].waiters, t)
    <3>1. /\ elem_find(sema[want[t]].waiters, t) /\ want[t] \in Locks
          /\ s.waiters # <<>> => t # h
      BY <1>1, <1>6, <2>1, Now DEF NoLostWakeup, LocksOK
    <3> QED BY <1>1, <1>7, <1>10, <3>1
  <2>2. ASSUME NEW m \in Locks, sema'[m].value = 1, sema'[m].waiters # <<>>
        PROVE  \E t \in Tasks : /\ pc'[t] = "down" /\ want'[t] = m
                                /\ t = ks'.running \/ elem_find(ks'.ready, t)
    <3>1. CASE m = l
      BY <1>1, <1>5, <1>6, <1>10, <2>2, <3>1
    <3>2. CASE m # l
      <4>1. PICK t \in Tasks : /\ pc[t] = "down" /\ want[t] = m
                               /\ t = ks.running \/ elem_find(ks.ready, t)
        BY <1>7, <2>2, <3>2, Now DEF NoLostWakeup
      <4> QED BY <1>1, <1>6, <4>1
    <3> QED BY <3>1, <3>2
  <2> QED BY <2>1, <2>2 DEF NoLostWakeup
<1> QED BY <1>6, <1>9, <1>11, <1>12, <1>13, <1>14 DEF Inv

-----------------------------------------------------------------------------
LEMMA NextInv == Inv /\ [Next]_vars => Inv'
<1> SUFFICES ASSUME Inv, [Next]_vars PROVE Inv'
  OBVIOUS
<1>1. CASE UNCHANGED vars
  BY <1>1 DEF vars, Inv, PcOK, LocksOK, StatusOK, MutualExclusion, WaitersAsleep,
              NoLostWakeup
<1>2. CASE KernelStep
  BY <1>2, SemaDownWaitInv, SemaDownTakeInv, CallRetInv, CallDownInv, SemaUpInv,
     IoWaitInv, YieldInv, CloneInv DEF KernelStep
<1>3. CASE Timer \/ IdleSteps \/ SystemCall \/ \E t \in Tasks : IntrDevice(t)
  BY <1>3, TimerInv, IdleStepsInv, CallRetInv, IntrDeviceInv
<1> QED BY <1>1, <1>2, <1>3 DEF Next

\* The inductive invariant holds in every reachable state.
THEOREM SyncInvariant == Spec => []Inv
<1>1. Inv /\ [Next]_vars => Inv'
  BY NextInv
<1> QED BY InitInv, <1>1, PTL DEF Spec

\* No ASSERT of task/sync.c or task/task.c fails in any use of the locks, and
\* every variable keeps its type: the value of a semaphore is 0 or 1.
THEOREM SyncNoPanic == Spec => []NoPanic
<1>1. Inv => NoPanic
  BY DEF Inv, SchedInv, PcOK, LocksOK, TypeOK, NoPanic
<1> QED BY SyncInvariant, <1>1, PTL

\* A lock has one holder at most, and it is free exactly when it has none.
THEOREM SyncMutualExclusion == Spec => []MutualExclusion
<1>1. Inv => MutualExclusion
  BY DEF Inv
<1> QED BY SyncInvariant, <1>1, PTL

\* A task is linked by its general_tag into one list at most.
THEOREM SyncTagInOneList == Spec => []TagInOneList
<1>1. Inv => TagInOneList
  BY Now DEF Inv, WaitersAsleep, TagInOneList
<1> QED BY SyncInvariant, <1>1, PTL

\* sema_up() loses no wakeup.
THEOREM SyncNoLostWakeup == Spec => []NoLostWakeup
<1>1. Inv => NoLostWakeup
  BY DEF Inv
<1> QED BY SyncInvariant, <1>1, PTL

-----------------------------------------------------------------------------
(* Sync implements Task: whatever the semaphores do to the scheduler is    *)
(* something that Task's most general client does.  sema_down(), the wait  *)
(* for a device and the system call around them are one "kernel" to Task.  *)

\* The refinement mapping of Sync!Scheduler.
mpc == [t \in Tasks |-> IF pc[t] \in {"down", "io"} THEN "kernel" ELSE pc[t]]

\* Task's scheduler is Sync's.
LEMMA SameOps ==
    /\ Scheduler!task_init = task_init
    /\ \A list, t : Scheduler!elem_find(list, t) <=> elem_find(list, t)
    /\ \A k, t : Scheduler!task_unblock(k, t) = task_unblock(k, t)
    /\ \A k, t : Scheduler!create_task(k, t) = create_task(k, t)
    /\ \A k : Scheduler!intr_time_handle(k) = intr_time_handle(k)
    /\ \A k : Scheduler!task_yield(k) = task_yield(k)
    /\ \A k, s : Scheduler!task_block(k, s) = task_block(k, s)
<1>1. Scheduler!task_init = task_init
  BY Zenon DEF task_init, Scheduler!task_init
<1>2. \A list, t : Scheduler!elem_find(list, t) <=> elem_find(list, t)
  BY Zenon DEF elem_find, Scheduler!elem_find
<1>3. \A k, t : Scheduler!task_unblock(k, t) = task_unblock(k, t)
  BY Zenon DEF task_unblock, ASSERT, elem_find, list_push,
               Scheduler!task_unblock, Scheduler!ASSERT, Scheduler!elem_find,
               Scheduler!list_push
<1>4. \A k, t : Scheduler!create_task(k, t) = create_task(k, t)
  BY Zenon DEF create_task, ASSERT, elem_find, list_append,
               Scheduler!create_task, Scheduler!ASSERT, Scheduler!elem_find,
               Scheduler!list_append
<1>5. \A k : Scheduler!schedule(k) = schedule(k)
  <2>1. \A k : Scheduler!preempt(k) = preempt(k)
    BY Zenon DEF preempt, ASSERT, elem_find, list_append,
                 Scheduler!preempt, Scheduler!ASSERT, Scheduler!elem_find,
                 Scheduler!list_append
  <2>2. \A k : Scheduler!switch_to_next(k) = switch_to_next(k)
    BY Zenon DEF switch_to_next, Scheduler!switch_to_next
  <2> TAKE k
  <2> DEFINE k1 == IF k.status[k.running] = "RUNNING" THEN preempt(k) ELSE k
             k2 == IF k1.ready = <<>> THEN task_unblock(k1, idle_task) ELSE k1
             j1 == IF k.status[k.running] = "RUNNING" THEN Scheduler!preempt(k) ELSE k
             j2 == IF j1.ready = <<>> THEN Scheduler!task_unblock(j1, idle_task) ELSE j1
  <2>3. /\ schedule(k) = switch_to_next(k2)
        /\ Scheduler!schedule(k) = Scheduler!switch_to_next(j2)
    BY Zenon DEF schedule, Scheduler!schedule
  <2>4. j1 = k1
    BY <2>1, Zenon
  <2> HIDE DEF j1, k1
  <2>5. j2 = k2
    BY <1>3, <2>4, Zenon
  <2> HIDE DEF j2, k2
  <2> QED BY <2>2, <2>3, <2>5, Zenon
<1>6. \A k : Scheduler!intr_time_handle(k) = intr_time_handle(k)
  BY <1>5, Zenon DEF intr_time_handle, Scheduler!intr_time_handle
<1>7. \A k : Scheduler!task_yield(k) = task_yield(k)
  BY <1>5, Zenon DEF task_yield, ASSERT, elem_find, list_append,
               Scheduler!task_yield, Scheduler!ASSERT, Scheduler!elem_find,
               Scheduler!list_append
<1>8. \A k, s : Scheduler!task_block(k, s) = task_block(k, s)
  BY <1>5, Zenon DEF task_block, ASSERT,
               Scheduler!task_block, Scheduler!ASSERT
<1> QED BY <1>1, <1>2, <1>3, <1>4, <1>6, <1>7, <1>8

LEMMA RefinesInit == Init => Scheduler!TaskInit
<1> SUFFICES ASSUME Init PROVE Scheduler!TaskInit
  OBVIOUS
<1>1. mpc = [t \in Tasks |-> IF t = idle_task THEN "loop" ELSE "user"]
  BY DEF Init, KernelInit, mpc
<1> QED BY <1>1, SameOps DEF Init, KernelInit, Scheduler!TaskInit, Scheduler!KernelInit, mpc

-----------------------------------------------------------------------------
(* Every step is a step of Task or leaves Task's variables as they are *)

LEMMA MappedPc ==
    ASSUME Inv
    PROVE  /\ mpc \in [Tasks -> {"user", "kernel"} \cup IdleLabels]
           /\ \A t \in Tasks : pc[t] \in {"user", "kernel"} \cup IdleLabels =>
                mpc[t] = pc[t]
           /\ \A t \in Tasks : pc[t] \in {"down", "io"} => mpc[t] = "kernel"
BY Now DEF PcOK, mpc, IdleLabels

LEMMA TimerStep == ASSUME Inv, Timer PROVE Scheduler!IntrTime
<1>1. /\ ~ks.panic /\ pc[ks.running] \in {"user"} \cup IdleLabels
      /\ ks' = intr_time_handle(ks) /\ pc' = IntrExit
  BY DEF Timer, IntrTime, IntrOn
<1>2. mpc[ks.running] \in {"user"} \cup IdleLabels
  BY <1>1, Now, MappedPc
<1>3. mpc' = [mpc EXCEPT ![idle_task] = IF @ = "hlt" THEN "loop" ELSE @]
  BY <1>1, Now, MappedPc, SchedAssumption DEF IntrExit, mpc, PcOK, IdleLabels
<1> QED BY <1>1, <1>2, <1>3, SameOps
        DEF Scheduler!IntrTime, Scheduler!IntrOn, Scheduler!IntrExit,
            Scheduler!IdleLabels, IdleLabels, mpc

LEMMA IdleStep == ASSUME Inv, IdleSteps PROVE Scheduler!IdleBlock \/ Scheduler!IdleHlt
<1>1. CASE IdleBlock
  <2>1. /\ ~ks.panic /\ pc[ks.running] = "loop" /\ ks' = task_block(ks, "BLOCKED")
        /\ pc' = [pc EXCEPT ![idle_task] = "woken"]
    BY <1>1 DEF IdleBlock, Running
  <2>2. mpc[ks.running] = "loop"
    BY <2>1, Now, MappedPc DEF IdleLabels
  <2>3. mpc' = [mpc EXCEPT ![idle_task] = "woken"]
    BY <2>1, Now, SchedAssumption DEF mpc, PcOK
  <2> QED BY <2>1, <2>2, <2>3, SameOps DEF Scheduler!IdleBlock, Scheduler!Running, mpc
<1>2. CASE IdleHlt
  <2>1. /\ ~ks.panic /\ pc[ks.running] = "woken" /\ ks' = ks
        /\ pc' = [pc EXCEPT ![idle_task] = "hlt"]
    BY <1>2 DEF IdleHlt, Running
  <2>2. mpc[ks.running] = "woken"
    BY <2>1, Now, MappedPc DEF IdleLabels
  <2>3. mpc' = [mpc EXCEPT ![idle_task] = "hlt"]
    BY <2>1, Now, SchedAssumption DEF mpc, PcOK
  <2> QED BY <2>1, <2>2, <2>3 DEF Scheduler!IdleHlt, Scheduler!Running, mpc
<1> QED BY <1>1, <1>2 DEF IdleSteps

LEMMA CallRetStep ==
    ASSUME Inv, SystemCall \/ SystemRet
    PROVE  Scheduler!EnterKernel \/ Scheduler!LeaveKernel
<1>1. CASE SystemCall
  <2>1. /\ ~ks.panic /\ pc[ks.running] = "user" /\ ks' = ks
        /\ pc' = [pc EXCEPT ![ks.running] = "kernel"]
    BY <1>1 DEF SystemCall, Running, Goto
  <2>2. mpc[ks.running] = "user" /\ mpc' = [mpc EXCEPT ![ks.running] = "kernel"]
    BY <2>1, Now, MappedPc DEF mpc, PcOK
  <2> QED BY <2>1, <2>2
          DEF Scheduler!EnterKernel, Scheduler!Running, Scheduler!Goto, mpc
<1>2. CASE SystemRet
  <2>1. /\ ~ks.panic /\ pc[ks.running] = "kernel" /\ ks' = ks
        /\ pc' = [pc EXCEPT ![ks.running] = "user"]
    BY <1>2 DEF SystemRet, Running, Goto
  <2>2. mpc[ks.running] = "kernel" /\ mpc' = [mpc EXCEPT ![ks.running] = "user"]
    BY <2>1, Now, MappedPc DEF mpc, PcOK
  <2> QED BY <2>1, <2>2
          DEF Scheduler!LeaveKernel, Scheduler!Running, Scheduler!Goto, mpc
<1> QED BY <1>1, <1>2

LEMMA BlockStep == ASSUME Inv, IoWait \/ SemaDownWait PROVE Scheduler!Block("BLOCKED")
<1>1. ~ks.panic /\ mpc[ks.running] = "kernel"
  BY Now, MappedPc DEF IoWait, SemaDownWait, Running
<1>2. mpc' = mpc
  BY Now DEF IoWait, SemaDownWait, Running, Goto, mpc, PcOK
<1>3. ks' = task_block(ks, "BLOCKED")
  <2>1. CASE IoWait
    BY <2>1 DEF IoWait
  <2>2. CASE SemaDownWait
    <3> DEFINE s == sema[want[ks.running]]
    <3>1. ~elem_find(s.waiters, ks.running)
      BY <2>2, Now DEF WaitersAsleep, LocksOK
    <3>2. ASSERT(ks, ~elem_find(s.waiters, ks.running)) = ks
      BY <3>1, Now, AssertTrue DEF elem_find
    <3>3. ks' = sema_wait_sched(ks, s)
      BY <2>2 DEF SemaDownWait
    <3> QED BY <3>2, <3>3 DEF sema_wait_sched
  <2> QED BY <2>1, <2>2
<1> QED BY <1>1, <1>2, <1>3, SameOps DEF Scheduler!Block, Scheduler!Running, mpc

LEMMA YieldStep == ASSUME Inv, Yield PROVE Scheduler!YieldCpu
<1>1. /\ ~ks.panic /\ mpc[ks.running] = "kernel" /\ mpc' = mpc
      /\ ks' = task_yield(ks)
  BY Now, MappedPc DEF Yield, Running, mpc
<1> QED BY <1>1, SameOps DEF Scheduler!YieldCpu, Scheduler!Running, mpc

LEMMA CloneStep == ASSUME Inv, NEW c \in Tasks, Clone(c) PROVE Scheduler!Create(c)
<1>1. /\ ~ks.panic /\ mpc[ks.running] = "kernel" /\ ks.status[c] = "DIED"
      /\ ks' = create_task(ks, c) /\ pc' = [pc EXCEPT ![c] = "user"]
  BY Now, MappedPc DEF Clone, Running
<1>2. mpc' = [mpc EXCEPT ![c] = "user"]
  BY <1>1, Now DEF mpc, PcOK
<1> QED BY <1>1, <1>2, SameOps DEF Scheduler!Create, Scheduler!Running, mpc

LEMMA SemaUpStep ==
    ASSUME Inv, NEW l \in Locks, SemaUp(l)
    PROVE  \/ \E t \in Tasks : Scheduler!Unblock(t)
           \/ ks' = ks /\ mpc' = mpc
<1> DEFINE s == sema[l]
           h == Head(s.waiters)
<1>1. /\ ~ks.panic /\ mpc[ks.running] = "kernel" /\ mpc' = mpc
      /\ ks' = sema_up_sched(ks, s) /\ l \in held[ks.running]
  BY Now, MappedPc DEF SemaUp, Running, mpc
<1>2. s \in SemaState /\ s.value = 0 /\ NoDuplicates(s.waiters)
  <2>1. s \in SemaState /\ s.value \in 0..1 /\ NoDuplicates(s.waiters)
    BY Now DEF LocksOK, SemaState, WaitersAsleep
  <2>2. s.value # 1
    BY <1>1, Now DEF MutualExclusion
  <2> QED BY <2>1, <2>2
<1>3. ks' = IF s.waiters = <<>> THEN ks ELSE task_unblock(ks, h)
  <2>1. (s.value = 0) = TRUE
    BY <1>2
  <2>2. ASSERT(ks, TRUE) = ks
    BY Now, AssertTrue
  <2> QED BY <1>1, <2>1, <2>2 DEF sema_up_sched
<1>4. CASE s.waiters # <<>>
  <2>1. /\ h \in Tasks /\ pc[h] = "down" /\ ks.status[h] = "BLOCKED"
        /\ ~elem_find(ks.ready, h)
    BY <1>2, <1>4, SemaUpFacts, Now DEF WaitersAsleep
  <2>2. h \notin {idle_task, ks.running}
    BY <2>1, Now
  <2>3. ks' = task_unblock(ks, h)
    BY <1>3, <1>4
  <2> HIDE DEF h
  <2> QED BY <1>1, <2>1, <2>2, <2>3, SameOps
          DEF Scheduler!Unblock, Scheduler!MayUnblock, Scheduler!Running, mpc
<1> QED BY <1>1, <1>3, <1>4

LEMMA IntrDeviceStep ==
    ASSUME Inv, NEW c \in Tasks, IntrDevice(c) PROVE Scheduler!IntrAny
<1>1. /\ ~ks.panic /\ pc[ks.running] \in {"user"} \cup IdleLabels
      /\ ks' = task_unblock(ks, c) /\ pc' = IntrExit
      /\ pc[c] = "io" /\ ~elem_find(ks.ready, c)
  BY DEF IntrDevice, IntrOn
<1>2. mpc[ks.running] \in {"user"} \cup IdleLabels
  BY <1>1, Now, MappedPc
<1>3. mpc' = [mpc EXCEPT ![idle_task] = IF @ = "hlt" THEN "loop" ELSE @]
  BY <1>1, Now, MappedPc, SchedAssumption DEF IntrExit, mpc, PcOK, IdleLabels
<1>4. c \notin {idle_task, ks.running} /\ ks.status[c] = "BLOCKED"
  BY <1>1, Now DEF StatusOK, SchedInv, UniqueRunning, QueueSound, PcOK, IdleLabels
<1> QED BY <1>1, <1>2, <1>3, <1>4, SameOps
        DEF Scheduler!IntrAny, Scheduler!MayUnblock, Scheduler!IntrOn,
            Scheduler!IntrExit, Scheduler!IdleLabels, IdleLabels, mpc

\* The steps that Task does not see.
LEMMA HiddenStep ==
    ASSUME Inv, SemaDownTake \/ IoDone \/ \E l \in Locks : CallDown(l)
    PROVE  ks' = ks /\ mpc' = mpc
<1>1. CASE SemaDownTake
  <2> DEFINE s == sema[want[ks.running]]
  <2>1. s.value = 1 /\ ks' = sema_take_sched(ks, s)
    BY <1>1, Now DEF SemaDownTake, LocksOK, SemaState
  <2>2. (s.value - 1 = 0) = TRUE
    BY <2>1
  <2>3. ks' = ks
    BY <2>1, <2>2, Now, AssertTrue DEF sema_take_sched
  <2>4. mpc' = mpc
    BY <1>1, Now DEF SemaDownTake, Running, Goto, mpc, PcOK
  <2> QED BY <2>3, <2>4
<1>2. CASE IoDone \/ \E l \in Locks : CallDown(l)
  BY <1>2, Now DEF IoDone, CallDown, Running, Goto, mpc, PcOK
<1> QED BY <1>1, <1>2

LEMMA RefinesNext == Inv /\ [Next]_vars => [Scheduler!TaskNext]_Scheduler!task_vars
<1> SUFFICES ASSUME Inv, [Next]_vars
             PROVE  Scheduler!TaskNext \/ (ks' = ks /\ mpc' = mpc)
  BY DEF Scheduler!task_vars, mpc
<1>1. CASE UNCHANGED vars
  BY <1>1 DEF vars, mpc
<1>2. CASE KernelStep
  BY <1>2, CallRetStep, BlockStep, YieldStep, CloneStep, SemaUpStep, HiddenStep
     DEF KernelStep, Scheduler!TaskNext
<1>3. CASE Timer \/ IdleSteps \/ SystemCall \/ \E t \in Tasks : IntrDevice(t)
  BY <1>3, TimerStep, IdleStep, CallRetStep, IntrDeviceStep DEF Scheduler!TaskNext
<1> QED BY <1>1, <1>2, <1>3 DEF Next

\* The semaphores implement the scheduler's client: in particular they keep its
\* contract, and every theorem about Task holds of them.
THEOREM SyncRefinesTask == Spec => RefinesTask
<1>1. Inv /\ [Next]_vars => [Scheduler!TaskNext]_Scheduler!task_vars
  BY RefinesNext
<1> QED BY RefinesInit, SyncInvariant, <1>1, PTL DEF Spec, RefinesTask, Scheduler!TaskSpec
=============================================================================
