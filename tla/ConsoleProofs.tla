---------------------------- MODULE ConsoleProofs ----------------------------
(***************************************************************************)
(* Console: the keyboard handler always finds the reader that sleeps, and  *)
(* the ring is a bounded queue, for any number of tasks, readers and bytes *)
(* and any size of the ring.  Keyboard, at the end: the bytes for the ring *)
(* are those that the keys call for, whatever is pressed and released.     *)
(***************************************************************************)
EXTENDS Console, Keyboard, SchedProofs, FiniteSetTheorems, WellFoundedInduction

USE SchedAssumption

-----------------------------------------------------------------------------
(* The inductive invariant *)

CallLabels == {"get", "down", "slept"}

PcOK ==
    /\ pc \in [Tasks -> {"user"} \cup CallLabels \cup IdleLabels]
    /\ \A t \in Tasks : pc[t] \in IdleLabels <=> t = idle_task
    /\ \A t \in Tasks : pc[t] \in CallLabels => t \in Readers /\ need[t] > 0

DataOK ==
    /\ kbd_buf \in RingState /\ iosema \in SemaState /\ consumer \in SUBSET Readers
    /\ need \in [Readers -> 0..MaxCount] /\ got \in [Readers -> Bytes]

\* Who is in the list of iosema sleeps in sema_down().
WaitersOK ==
    /\ NoDuplicates(iosema.waiters)
    /\ \A t \in Tasks : elem_find(iosema.waiters, t) => Sleeps(ks, t)
    /\ \A t \in Tasks : elem_find(iosema.waiters, t) => pc[t] = "down"

\* One task at a time is in ioq_wait(), and it holds iosema.
HolderOK ==
    /\ \A t \in Tasks : pc[t] = "slept" => iosema.value = 0
    /\ \A t, u \in Tasks : pc[t] = "slept" /\ pc[u] = "slept" => t = u

\* Whom kbd_buf.consumer points to, and why a reader sleeps.
ConsumerOK == \A t \in consumer : pc[t] = "slept" /\ Sleeps(ks, t)

SleepOK ==
    \A t \in Readers : Sleeps(ks, t) =>
        /\ pc[t] = "slept" => t \in consumer
        /\ pc[t] # "slept" => elem_find(iosema.waiters, t)

Inv ==
    /\ SchedInv(ks)
    /\ PcOK /\ DataOK /\ WaitersOK /\ HolderOK /\ ConsumerOK /\ SleepOK

LEMMA InitInv == Init => Inv
<1> SUFFICES ASSUME Init PROVE Inv
  OBVIOUS
<1>1. SchedInv(ks)
  BY TaskInitFacts DEF Init, KernelInit
<1>2. PcOK /\ \A t \in Tasks : pc[t] # "slept"
  BY DEF Init, KernelInit, PcOK, CallLabels, IdleLabels
<1>3. /\ iosema \in SemaState /\ iosema.waiters = <<>>
      /\ consumer = {} /\ kbd_buf = ioqueue_init
  BY DEF Init, sema_init, SemaState
<1>4. DataOK
  <2>1. (CHOOSE b \in Bytes : TRUE) \in Bytes
    BY IoQueueAssumption
  <2>2. need \in [Readers -> 0..MaxCount] /\ got \in [Readers -> Bytes]
    BY <2>1, ConsoleAssumption DEF Init
  <2> QED BY <1>3, <2>2, InitRing DEF DataOK
<1>5. WaitersOK /\ HolderOK /\ ConsumerOK
  BY <1>2, <1>3 DEF WaitersOK, HolderOK, ConsumerOK, NoDuplicates, elem_find
<1>6. SleepOK
  <2>1. \A t \in Readers : ks.status[t] # "BLOCKED"
    BY ConsoleAssumption DEF Init, KernelInit, task_init
  <2> QED BY <2>1 DEF SleepOK, Sleeps
<1> QED BY <1>1, <1>2, <1>4, <1>5, <1>6 DEF Inv

-----------------------------------------------------------------------------
(* Lemmas *)

LEMMA Now ==
    ASSUME Inv
    PROVE  /\ ks \in SchedState /\ SchedInv(ks) /\ ks.running \in Tasks
           /\ ~Sleeps(ks, ks.running)
           /\ PcOK /\ DataOK /\ WaitersOK /\ HolderOK /\ ConsumerOK /\ SleepOK
           /\ Readers \subseteq Tasks \ {idle_task}
BY StateFields, RunningNotQueued, ConsoleAssumption DEF Inv, SchedInv, Sleeps

\* A step of a task moves only that task.
LEMMA Moved ==
    ASSUME Inv, NEW l \in {"user"} \cup CallLabels, Goto(l), ks.running # idle_task
    PROVE  /\ pc' \in [Tasks -> {"user"} \cup CallLabels \cup IdleLabels]
           /\ pc'[ks.running] = l
           /\ \A t \in Tasks \ {ks.running} : pc'[t] = pc[t]
           /\ \A t \in Tasks : pc'[t] \in IdleLabels <=> t = idle_task
BY Now DEF Goto, PcOK, CallLabels, IdleLabels

\* Who is inside ioq_getchar() is a reader, and awake.
LEMMA Inside ==
    ASSUME Inv, NEW l \in CallLabels, Running(l)
    PROVE  /\ ks.running \in Readers /\ ks.running \in Tasks \ {idle_task}
           /\ pc[ks.running] = l /\ need[ks.running] > 0
           /\ ~elem_find(iosema.waiters, ks.running) /\ ks.running \notin consumer
<1>1. /\ ks.running \in Readers /\ ks.running \in Tasks \ {idle_task}
      /\ pc[ks.running] = l /\ need[ks.running] > 0
  BY Now DEF Running, PcOK
<1> QED BY <1>1, Now DEF WaitersOK, ConsumerOK

\* Steps of the processor and of other tasks: who sleeps goes on sleeping.
LEMMA QuietInv ==
    ASSUME Inv, SchedInv(ks'), SleepersMove(ks, ks', {}, {}), PcOK',
           \A t \in Tasks \ {idle_task} : pc'[t] = pc[t],
           kbd_buf' \in RingState, UNCHANGED <<iosema, consumer, need, got>>
    PROVE  Inv'
<1>1. \A t \in Tasks \ {idle_task} : Sleeps(ks', t) <=> Sleeps(ks, t)
  BY DEF SleepersMove
<1>2. DataOK'
  BY Now DEF DataOK
<1>3. \A t \in Tasks : elem_find(iosema.waiters, t) => t # idle_task
  BY Now DEF WaitersOK, PcOK, IdleLabels
<1>4. WaitersOK'
  BY <1>1, <1>3, Now DEF WaitersOK
<1>5. \A t \in Tasks : pc'[t] = "slept" <=> pc[t] = "slept"
  BY Now DEF PcOK, IdleLabels
<1>6. HolderOK'
  BY <1>5, Now DEF HolderOK
<1>7. ConsumerOK' /\ SleepOK'
  BY <1>1, Now DEF ConsumerOK, SleepOK, DataOK
<1> QED BY <1>2, <1>4, <1>6, <1>7 DEF Inv

\* Steps inside ioq_getchar() that touch neither iosema nor the scheduler.
LEMMA AwakeInv ==
    ASSUME Inv, NEW l \in {"user", "get", "down"}, Goto(l), ks.running \in Readers,
           PcOK', DataOK', UNCHANGED <<ks, iosema, consumer>>
    PROVE  Inv'
<1>1. /\ ks.running \in Tasks \ {idle_task} /\ ~Sleeps(ks, ks.running)
  BY Now
<1>2. pc'[ks.running] = l /\ \A t \in Tasks \ {ks.running} : pc'[t] = pc[t]
  BY <1>1, Moved DEF CallLabels
<1>3. WaitersOK'
  BY <1>1, <1>2, Now DEF WaitersOK
<1>4. HolderOK'
  BY <1>2, Now DEF HolderOK
<1>5. ConsumerOK' /\ SleepOK'
  BY <1>1, <1>2, Now DEF ConsumerOK, SleepOK, DataOK
<1> QED BY <1>3, <1>4, <1>5, Now DEF Inv

-----------------------------------------------------------------------------
(* The steps of the scheduler and of the keyboard *)

\* The return from an interrupt moves at most the idle task.
LEMMA IntrExitPc ==
    ASSUME Inv, pc' = IntrExit, UNCHANGED need
    PROVE  PcOK' /\ \A t \in Tasks \ {idle_task} : pc'[t] = pc[t]
BY Now DEF IntrExit, PcOK, CallLabels, IdleLabels

LEMMA TimerInv == ASSUME Inv, Timer PROVE Inv'
<1>1. /\ ks' = intr_time_handle(ks) /\ pc' = IntrExit
      /\ UNCHANGED <<kbd_buf, iosema, consumer, need, got>>
  BY DEF Timer, IntrTime
<1>2. SchedInv(ks') /\ SleepersMove(ks, ks', {}, {})
  BY <1>1, Now, TimeFacts, SleepersTime
<1>3. kbd_buf' \in RingState
  BY <1>1, Now DEF DataOK
<1> QED BY <1>1, <1>2, <1>3, IntrExitPc, QuietInv

LEMMA IdleStepsInv == ASSUME Inv, IdleSteps PROVE Inv'
<1>1. /\ UNCHANGED <<kbd_buf, iosema, consumer, need, got>> /\ PcOK'
      /\ \A t \in Tasks \ {idle_task} : pc'[t] = pc[t]
  BY Now DEF IdleSteps, IdleBlock, IdleHlt, PcOK, CallLabels, IdleLabels
<1>2. SchedInv(ks') /\ SleepersMove(ks, ks', {}, {})
  <2>1. CASE IdleHlt
    BY <2>1, Now DEF IdleHlt, SleepersMove
  <2>2. CASE IdleBlock
    <3>1. SchedInv(ks') /\ Blocked(ks, ks', "BLOCKED") /\ pc[ks.running] = "loop"
      BY <2>2, Now, BlockFacts DEF IdleBlock, Running
    <3>2. ks.running = idle_task /\ SleepersMove(ks, ks', {}, {ks.running})
      BY <3>1, Now, SleepersBlocked DEF PcOK, IdleLabels
    <3> QED BY <3>1, <3>2 DEF SleepersMove
  <2> QED BY <2>1, <2>2 DEF IdleSteps
<1>3. kbd_buf' \in RingState
  BY <1>1, Now DEF DataOK
<1> QED BY <1>1, <1>2, <1>3, QuietInv

LEMMA CloneInv == ASSUME Inv, NEW t \in Tasks, Clone(t) PROVE Inv'
<1>1. /\ ks.status[t] = "DIED" /\ ks' = create_task(ks, t)
      /\ UNCHANGED <<pc, kbd_buf, iosema, consumer, need, got>>
  BY DEF Clone
<1>2. SchedInv(ks') /\ SleepersMove(ks, ks', {}, {})
  BY <1>1, Now, CreateFacts, SleepersCreate
<1>3. PcOK' /\ kbd_buf' \in RingState
  BY <1>1, Now DEF PcOK, DataOK
<1> QED BY <1>1, <1>2, <1>3, QuietInv

LEMMA KeyDroppedInv == ASSUME Inv, KeyDropped PROVE Inv'
<1>1. pc' = IntrExit /\ UNCHANGED <<ks, kbd_buf, iosema, consumer, need, got>>
  BY DEF KeyDropped
<1>2. SchedInv(ks') /\ SleepersMove(ks, ks', {}, {}) /\ kbd_buf' \in RingState
  BY <1>1, Now DEF SleepersMove, DataOK
<1> QED BY <1>1, <1>2, IntrExitPc, QuietInv

\* The handler wakes the consumer, if there is one: it sleeps, so that the ASSERTs
\* of task_unblock() hold.
LEMMA KeyStoredInv == ASSUME Inv, NEW b \in Bytes, KeyStored(b) PROVE Inv'
<1>1. /\ ~ioq_full(kbd_buf) /\ kbd_buf' = ring_put(kbd_buf, b)
      /\ ks' = wakeup(ks, consumer) /\ consumer' = {}
      /\ pc' = IntrExit /\ UNCHANGED <<iosema, need, got>>
  BY DEF KeyStored
<1>2. kbd_buf' \in RingState
  BY <1>1, Now, RingPut DEF DataOK
<1>3. PcOK' /\ \A t \in Tasks \ {idle_task} : pc'[t] = pc[t]
  BY <1>1, IntrExitPc
<1>4. CASE consumer = {}
  <2>1. ks' = ks /\ consumer' = consumer
    BY <1>1, <1>4 DEF wakeup
  <2>2. SchedInv(ks') /\ SleepersMove(ks, ks', {}, {})
    BY <2>1, Now DEF SleepersMove
  <2>3. UNCHANGED <<iosema, consumer, need, got>>
    BY <1>1, <2>1
  <2> QED BY <1>2, <1>3, <2>2, <2>3, QuietInv
<1>5. CASE consumer # {}
  <2>1. PICK c \in consumer : ks' = task_unblock(ks, c)
    <3>1. (CHOOSE t \in consumer : TRUE) \in consumer
      BY <1>5
    <3> QED BY <1>1, <1>5, <3>1 DEF wakeup
  <2>2. c \in Readers /\ c \in Tasks /\ pc[c] = "slept" /\ Sleeps(ks, c)
    BY Now DEF ConsumerOK, DataOK
  <2>3. SchedInv(ks') /\ SleepersMove(ks, ks', {c}, {})
    BY <2>1, <2>2, Now, SleepersUnblock
  <2>4. \A t \in Tasks \ {idle_task} : Sleeps(ks', t) <=> Sleeps(ks, t) /\ t # c
    BY <2>3 DEF SleepersMove
  <2>5. \A t \in Tasks : pc[t] = "slept" => t = c
    BY <2>2, Now DEF HolderOK
  <2>6. UNCHANGED <<iosema, need, got>> /\ consumer' = {}
    BY <1>1
  <2>7. DataOK'
    BY <1>2, <2>6, Now DEF DataOK
  <2>8. \A t \in Tasks : elem_find(iosema.waiters, t) => t # idle_task /\ t # c
    BY <2>2, Now DEF WaitersOK, PcOK, IdleLabels
  <2>9. WaitersOK'
    BY <1>3, <2>4, <2>6, <2>8, Now DEF WaitersOK
  <2>10. \A t \in Tasks : pc'[t] = "slept" <=> pc[t] = "slept"
    BY <1>3, Now DEF PcOK, IdleLabels
  <2>11. HolderOK'
    BY <2>6, <2>10, Now DEF HolderOK
  <2>12. ConsumerOK'
    BY <2>6 DEF ConsumerOK
  <2>13. SleepOK'
    <3>1. ASSUME NEW t \in Readers, Sleeps(ks', t)
          PROVE  pc'[t] # "slept" /\ elem_find(iosema.waiters, t)
      <4>1. t \in Tasks \ {idle_task}
        BY Now
      <4>2. Sleeps(ks, t) /\ t # c
        BY <2>4, <3>1, <4>1
      <4>3. pc[t] # "slept" /\ pc'[t] # "slept"
        BY <2>5, <2>10, <4>1, <4>2
      <4> QED BY <4>2, <4>3, Now DEF SleepOK
    <3> QED BY <2>6, <3>1 DEF SleepOK
  <2> QED BY <1>3, <2>3, <2>7, <2>9, <2>11, <2>12, <2>13 DEF Inv
<1> QED BY <1>4, <1>5

-----------------------------------------------------------------------------
(* The steps of a reader *)

LEMMA CallReadInv == ASSUME Inv, NEW n \in 1..MaxCount, CallRead(n) PROVE Inv'
<1>1. /\ pc[ks.running] = "user" /\ ks.running \in Readers /\ Goto("get")
      /\ need' = [need EXCEPT ![ks.running] = n]
      /\ UNCHANGED <<ks, kbd_buf, iosema, consumer, got>>
  BY DEF CallRead, Running
<1>2. ks.running \in Tasks \ {idle_task}
  BY <1>1, Now
<1>3. /\ need' \in [Readers -> 0..MaxCount] /\ need'[ks.running] = n
      /\ \A t \in Readers \ {ks.running} : need'[t] = need[t]
  BY <1>1, ConsoleAssumption, Now DEF DataOK
<1>4. PcOK'
  <2>1. /\ pc' \in [Tasks -> {"user"} \cup CallLabels \cup IdleLabels]
        /\ \A t \in Tasks \ {ks.running} : pc'[t] = pc[t]
        /\ \A t \in Tasks : pc'[t] \in IdleLabels <=> t = idle_task
    BY <1>1, <1>2, Moved DEF CallLabels
  <2>2. \A t \in Tasks : pc'[t] \in CallLabels => t \in Readers /\ need'[t] > 0
    BY <1>1, <1>3, <2>1, Now DEF PcOK
  <2> QED BY <2>1, <2>2 DEF PcOK
<1>5. DataOK'
  BY <1>1, <1>3, Now DEF DataOK
<1> QED BY <1>1, <1>4, <1>5, AwakeInv

LEMMA GetEmptyInv == ASSUME Inv, GetEmpty PROVE Inv'
<1>1. /\ Running("get") /\ Goto("down")
      /\ UNCHANGED <<ks, kbd_buf, iosema, consumer, need, got>>
  BY DEF GetEmpty
<1>2. ks.running \in Readers /\ ks.running \in Tasks \ {idle_task} /\ need[ks.running] > 0
  BY <1>1, Inside DEF CallLabels
<1>3. PcOK'
  <2>1. /\ pc' \in [Tasks -> {"user"} \cup CallLabels \cup IdleLabels]
        /\ \A t \in Tasks \ {ks.running} : pc'[t] = pc[t]
        /\ \A t \in Tasks : pc'[t] \in IdleLabels <=> t = idle_task
    BY <1>1, <1>2, Moved DEF CallLabels
  <2> QED BY <1>1, <1>2, <2>1, Now DEF PcOK
<1>4. DataOK'
  BY <1>1, Now DEF DataOK
<1> QED BY <1>1, <1>2, <1>3, <1>4, AwakeInv

LEMMA GetByteInv == ASSUME Inv, GetByte PROVE Inv'
<1> DEFINE r == ks.running
<1>1. PICK l \in {"user", "get"} : Goto(l) /\ l = IF need[r] = 1 THEN "user" ELSE "get"
  BY DEF GetByte
<1>2. /\ Running("get") /\ ~ioq_empty(kbd_buf)
      /\ got' = [got EXCEPT ![r] = ring_byte(kbd_buf)] /\ kbd_buf' = ring_get(kbd_buf)
      /\ need' = [need EXCEPT ![r] = need[r] - 1] /\ UNCHANGED <<ks, iosema, consumer>>
  BY DEF GetByte
<1>3. r \in Readers /\ r \in Tasks \ {idle_task} /\ need[r] > 0
  BY <1>2, Inside DEF CallLabels
<1>4. kbd_buf' \in RingState /\ ring_byte(kbd_buf) \in Bytes
  BY <1>2, Now, RingGet DEF DataOK
<1> HIDE DEF r
<1>5. /\ need' \in [Readers -> 0..MaxCount] /\ need'[r] = need[r] - 1
      /\ \A t \in Readers \ {r} : need'[t] = need[t]
  BY <1>2, <1>3, ConsoleAssumption, Now DEF DataOK
<1>6. got' \in [Readers -> Bytes]
  BY <1>2, <1>4, Now DEF DataOK
<1>7. DataOK'
  BY <1>2, <1>4, <1>5, <1>6, Now DEF DataOK
<1>8. PcOK'
  <2>1. /\ pc' \in [Tasks -> {"user"} \cup CallLabels \cup IdleLabels]
        /\ pc'[r] = l /\ \A t \in Tasks \ {r} : pc'[t] = pc[t]
        /\ \A t \in Tasks : pc'[t] \in IdleLabels <=> t = idle_task
    BY <1>1, <1>3, Moved DEF CallLabels, r
  <2>2. l = "get" => need'[r] > 0
    BY <1>1, <1>3, <1>5, Now DEF DataOK
  <2>3. \A t \in Tasks : pc'[t] \in CallLabels => t \in Readers /\ need'[t] > 0
    BY <1>1, <1>3, <1>5, <2>1, <2>2, Now DEF PcOK, CallLabels
  <2> QED BY <2>1, <2>3 DEF PcOK
<1>9. UNCHANGED <<ks, iosema, consumer>>
  BY <1>2
<1> QED BY <1>1, <1>3, <1>7, <1>8, <1>9, AwakeInv DEF r

LEMMA DownWaitInv == ASSUME Inv, DownWait PROVE Inv'
<1>1. /\ Running("down") /\ iosema.value = 0
      /\ iosema' = sema_wait(iosema, ks.running) /\ ks' = sema_wait_sched(ks, iosema)
      /\ UNCHANGED <<pc, kbd_buf, consumer, need, got>>
  BY DEF DownWait
<1>2. ks.running \in Tasks \ {idle_task} /\ pc[ks.running] = "down"
  BY <1>1, Inside DEF CallLabels
<1>3. /\ SchedInv(ks') /\ SleepersMove(ks, ks', {}, {ks.running})
      /\ iosema' \in SemaState /\ iosema'.value = iosema.value
      /\ NoDuplicates(iosema'.waiters)
      /\ \A u : elem_find(iosema'.waiters, u) <=>
                  elem_find(iosema.waiters, u) \/ u = ks.running
  BY <1>1, <1>2, Now, SleepersWait, ZenonT(60) DEF WaitersOK, DataOK
<1>4. \A t \in Tasks \ {idle_task} : Sleeps(ks', t) <=> Sleeps(ks, t) \/ t = ks.running
  BY <1>3 DEF SleepersMove
<1>5. UNCHANGED <<pc, kbd_buf, consumer, need, got>>
  BY <1>1
<1>6. PcOK' /\ DataOK'
  BY <1>3, <1>5, Now DEF PcOK, DataOK
<1>7. WaitersOK'
  <2>1. \A t \in Tasks : elem_find(iosema.waiters, t) => t # idle_task
    BY Now DEF WaitersOK, PcOK, IdleLabels
  <2> QED BY <1>2, <1>3, <1>4, <1>5, <2>1, Now DEF WaitersOK
<1>8. HolderOK'
  BY <1>3, <1>5, Now DEF HolderOK
<1>9. ConsumerOK' /\ SleepOK'
  BY <1>2, <1>3, <1>4, <1>5, Now DEF ConsumerOK, SleepOK, DataOK
<1> QED BY <1>3, <1>6, <1>7, <1>8, <1>9 DEF Inv

\* iosema was up, so nobody is in ioq_wait() and the ASSERT on consumer holds.
LEMMA ioq_waitInv == ASSUME Inv, ioq_wait PROVE Inv'
<1> DEFINE r == ks.running
<1>1. /\ Running("down") /\ iosema.value # 0
      /\ iosema' = sema_take(iosema) /\ consumer' = {r}
      /\ ks' = task_block(ASSERT(sema_take_sched(ks, iosema), consumer = {}), "BLOCKED")
      /\ Goto("slept") /\ UNCHANGED <<kbd_buf, need, got>>
  BY DEF ioq_wait
<1>2. /\ r \in Readers /\ r \in Tasks \ {idle_task} /\ pc[r] = "down" /\ need[r] > 0
      /\ ~elem_find(iosema.waiters, r)
  BY <1>1, Inside DEF CallLabels
<1>3. \A t \in Tasks : pc[t] # "slept"
  BY <1>1, Now DEF HolderOK
<1>4. consumer = {}
  BY <1>3, Now DEF ConsumerOK, DataOK
<1>5. /\ sema_take_sched(ks, iosema) = ks /\ iosema' \in SemaState /\ iosema'.value = 0
      /\ iosema'.waiters = iosema.waiters
  BY <1>1, Now, SemaTakeFacts DEF DataOK
<1>6. SchedInv(ks') /\ SleepersMove(ks, ks', {}, {r})
  <2>1. (consumer = {}) = TRUE
    BY <1>4
  <2>2. ASSERT(ks, TRUE) = ks
    BY Now, AssertTrue
  <2>3. ks' = task_block(ks, "BLOCKED")
    BY <1>1, <1>5, <2>1, <2>2
  <2>4. SchedInv(ks') /\ Blocked(ks, ks', "BLOCKED")
    BY <2>3, Now, BlockFacts
  <2> QED BY <2>4, Now, SleepersBlocked
<1>7. \A t \in Tasks \ {idle_task} : Sleeps(ks', t) <=> Sleeps(ks, t) \/ t = r
  BY <1>6 DEF SleepersMove
<1>8. /\ pc' \in [Tasks -> {"user"} \cup CallLabels \cup IdleLabels]
      /\ pc'[r] = "slept" /\ \A t \in Tasks \ {r} : pc'[t] = pc[t]
      /\ \A t \in Tasks : pc'[t] \in IdleLabels <=> t = idle_task
  BY <1>1, <1>2, Moved DEF CallLabels
<1>9. consumer' = {r} /\ UNCHANGED <<kbd_buf, need, got>>
  BY <1>1
<1> HIDE DEF r
<1>10. PcOK'
  BY <1>2, <1>8, <1>9, Now DEF PcOK
<1>11. DataOK'
  BY <1>2, <1>5, <1>9, Now DEF DataOK
<1>12. WaitersOK'
  <2>1. \A t \in Tasks : elem_find(iosema.waiters, t) => t # idle_task
    BY Now DEF WaitersOK, PcOK, IdleLabels
  <2> QED BY <1>2, <1>5, <1>7, <1>8, <2>1, Now DEF WaitersOK
<1>13. HolderOK'
  BY <1>3, <1>5, <1>8 DEF HolderOK
<1>14. ConsumerOK' /\ SleepOK'
  BY <1>2, <1>3, <1>5, <1>7, <1>8, <1>9, Now DEF ConsumerOK, SleepOK
<1> QED BY <1>6, <1>10, <1>11, <1>12, <1>13, <1>14 DEF Inv

LEMMA SleptInv == ASSUME Inv, Slept PROVE Inv'
<1> DEFINE r == ks.running
           woken == {u \in Tasks : /\ elem_find(iosema.waiters, u)
                                   /\ ~elem_find(sema_up(iosema).waiters, u)}
<1>1. /\ Running("slept") /\ iosema' = sema_up(iosema) /\ ks' = sema_up_sched(ks, iosema)
      /\ Goto("get") /\ UNCHANGED <<kbd_buf, consumer, need, got>>
  BY DEF Slept
<1>2. /\ r \in Readers /\ r \in Tasks \ {idle_task} /\ pc[r] = "slept" /\ need[r] > 0
      /\ ~elem_find(iosema.waiters, r) /\ r \notin consumer
  BY <1>1, Inside DEF CallLabels
<1>3. iosema.value = 0 /\ \A t \in Tasks : pc[t] = "slept" => t = r
  BY <1>2, Now DEF HolderOK
<1>4. /\ SchedInv(ks') /\ SleepersMove(ks, ks', woken, {})
      /\ iosema' \in SemaState /\ iosema'.value = 1 /\ NoDuplicates(iosema'.waiters)
      /\ \A u : elem_find(iosema'.waiters, u) => elem_find(iosema.waiters, u)
  BY <1>1, <1>3, Now, SleepersUp, ZenonT(60) DEF WaitersOK, DataOK
<1>5. \A t \in Tasks \ {idle_task} :
         Sleeps(ks', t) <=>
            Sleeps(ks, t) /\ ~(elem_find(iosema.waiters, t) /\ ~elem_find(iosema'.waiters, t))
  BY <1>1, <1>4 DEF SleepersMove
<1>6. /\ pc' \in [Tasks -> {"user"} \cup CallLabels \cup IdleLabels]
      /\ pc'[r] = "get" /\ \A t \in Tasks \ {r} : pc'[t] = pc[t]
      /\ \A t \in Tasks : pc'[t] \in IdleLabels <=> t = idle_task
  BY <1>1, <1>2, Moved DEF CallLabels
<1>7. UNCHANGED <<kbd_buf, consumer, need, got>>
  BY <1>1
<1>8. consumer = {}
  BY <1>2, <1>3, Now DEF ConsumerOK, DataOK
<1> HIDE DEF r
<1>9. PcOK'
  BY <1>2, <1>6, <1>7, Now DEF PcOK
<1>10. DataOK'
  BY <1>4, <1>7, Now DEF DataOK
<1>11. WaitersOK'
  <2>1. \A t \in Tasks : elem_find(iosema'.waiters, t) => t # idle_task /\ t # r
    BY <1>2, <1>4, Now DEF WaitersOK, PcOK, IdleLabels
  <2> QED BY <1>4, <1>5, <1>6, <2>1, Now DEF WaitersOK
<1>12. HolderOK'
  BY <1>3, <1>6 DEF HolderOK
<1>13. ConsumerOK'
  BY <1>7, <1>8 DEF ConsumerOK
<1>14. SleepOK'
  <2>1. ASSUME NEW t \in Readers, Sleeps(ks', t)
        PROVE  pc'[t] # "slept" /\ elem_find(iosema'.waiters, t)
    <3>1. t \in Tasks \ {idle_task} /\ Sleeps(ks, t)
      BY <1>5, <2>1, Now
    <3>2. t # r
      BY <3>1, Now DEF r
    <3>3. pc[t] # "slept" /\ pc'[t] # "slept"
      BY <1>3, <1>6, <3>1, <3>2
    <3> QED BY <1>5, <2>1, <3>1, <3>3, Now DEF SleepOK
  <2> QED BY <2>1 DEF SleepOK
<1> QED BY <1>4, <1>9, <1>10, <1>11, <1>12, <1>13, <1>14 DEF Inv

-----------------------------------------------------------------------------
(* Theorems *)

LEMMA NextInv == ASSUME Inv, [Next]_vars PROVE Inv'
<1>1. CASE KernelStep
  BY <1>1, GetEmptyInv, GetByteInv, DownWaitInv, ioq_waitInv, SleptInv DEF KernelStep
<1>2. CASE Timer \/ IdleSteps \/ KeyDropped
  BY <1>2, TimerInv, IdleStepsInv, KeyDroppedInv
<1>3. CASE \E n \in 1..MaxCount : CallRead(n)
  BY <1>3, CallReadInv
<1>4. CASE \E t \in Tasks : Clone(t)
  BY <1>4, CloneInv
<1>5. CASE \E b \in Bytes : KeyStored(b)
  BY <1>5, KeyStoredInv
<1>6. CASE UNCHANGED vars
  <2>1. UNCHANGED <<ks, pc, kbd_buf, iosema, consumer, need, got>>
    BY <1>6 DEF vars
  <2>2. /\ PcOK' /\ SchedInv(ks') /\ SleepersMove(ks, ks', {}, {})
        /\ kbd_buf' \in RingState
    BY <2>1, Now DEF PcOK, DataOK, SleepersMove
  <2> QED BY <2>1, <2>2, QuietInv
<1> QED BY <1>1, <1>2, <1>3, <1>4, <1>5, <1>6 DEF Next

\* The inductive invariant holds in every reachable state of ioq_getchar() and
\* the keyboard handler.
THEOREM ConsoleInvariant == Spec => []Inv
<1>1. Inv /\ [Next]_vars => Inv'
  BY NextInv
<1> QED BY <1>1, InitInv, PTL DEF Spec

\* The keyboard handler always finds whom to wake: a reader that sleeps is the
\* consumer or queued at iosema, and no ASSERT of ioqueue.c, sync.c or task.c fails.
THEOREM ConsoleSleeperReachable == Spec => []SleeperReachable
<1>1. ASSUME Inv PROVE SleeperReachable
  <2>1. TypeOK /\ ~ks.panic
    BY <1>1, Now DEF TypeOK, PcOK, CallLabels, DataOK, SchedInv
  <2>2. \A t \in consumer : /\ pc[t] = "slept" /\ ks.status[t] = "BLOCKED"
                            /\ ~elem_find(ks.ready, t) /\ iosema.value = 0
    BY <1>1, Now DEF ConsumerOK, HolderOK, DataOK, Sleeps
  <2>3. \A t \in Readers : ks.status[t] = "BLOCKED" /\ ~elem_find(ks.ready, t) =>
           IF pc[t] = "slept" THEN t \in consumer ELSE elem_find(iosema.waiters, t)
    BY <1>1, Now DEF SleepOK, Sleeps
  <2> QED BY <2>1, <2>2, <2>3 DEF SleeperReachable
<1> QED BY <1>1, ConsoleInvariant, PTL

\* Every step of the keyboard and its readers is a step of a bounded queue, or
\* leaves the queue alone: KeyStored puts a byte and GetByte gets one.
LEMMA FifoStep == ASSUME Inv, [Next]_vars PROVE [Fifo!Next]_<<Contents(kbd_buf), got>>
<1>1. kbd_buf \in RingState
  BY Now DEF DataOK
<1>2. CASE \E b \in Bytes : KeyStored(b)
  <2>1. PICK b \in Bytes : KeyStored(b)
    BY <1>2
  <2>2. ~ioq_full(kbd_buf) /\ kbd_buf' = ring_put(kbd_buf, b) /\ got' = got
    BY <2>1 DEF KeyStored
  <2>3. /\ Contents(ring_put(kbd_buf, b)) = Append(Contents(kbd_buf), b)
        /\ Len(Contents(kbd_buf)) < bufsize - 1
    BY <1>1, <2>2, RingPut, ZenonT(60)
  <2>4. Contents(kbd_buf)' = Append(Contents(kbd_buf), b)
    BY <2>2, <2>3 DEF Contents, ioq_length
  <2>5. Fifo!Put(b)
    BY <2>2, <2>3, <2>4 DEF Fifo!Put
  <2> QED BY <2>5 DEF Fifo!Next
<1>3. CASE GetByte
  <2>1. /\ Running("get") /\ ~ioq_empty(kbd_buf) /\ kbd_buf' = ring_get(kbd_buf)
        /\ got' = [got EXCEPT ![ks.running] = ring_byte(kbd_buf)]
    BY <1>3 DEF GetByte
  <2>2. ks.running \in Readers
    BY <2>1, Inside DEF CallLabels
  <2>3. /\ Contents(kbd_buf) # <<>> /\ ring_byte(kbd_buf) = Head(Contents(kbd_buf))
        /\ Contents(ring_get(kbd_buf)) = Tail(Contents(kbd_buf))
    BY <1>1, <2>1, RingGet, ZenonT(60)
  <2>4. Contents(kbd_buf)' = Tail(Contents(kbd_buf))
    BY <2>1, <2>3 DEF Contents, ioq_length
  <2>5. Fifo!Get(ks.running)
    BY <2>1, <2>3, <2>4 DEF Fifo!Get
  <2> QED BY <2>2, <2>5 DEF Fifo!Next
<1>4. CASE UNCHANGED <<kbd_buf, got>>
  <2>1. Contents(kbd_buf)' = Contents(kbd_buf)
    BY <1>4 DEF Contents, ioq_length
  <2> QED BY <1>4, <2>1
<1>5. UNCHANGED <<kbd_buf, got>> \/ GetByte \/ \E b \in Bytes : KeyStored(b)
  BY DEF Next, vars, Timer, IdleSteps, KernelStep, CallRead, GetEmpty, DownWait, ioq_wait,
         Slept, Clone, KeyDropped
<1> QED BY <1>2, <1>3, <1>4, <1>5

\* The ring delivers every byte that the handler stored once and in order, and
\* never holds more than bufsize - 1 of them: Console implements BoundedFifo.
THEOREM ConsoleRefinesFifo == Spec => RefinesFifo
<1>1. Init => Fifo!Init
  <2>1. (CHOOSE b \in Bytes : TRUE) \in Bytes
    BY IoQueueAssumption
  <2> QED BY <2>1, InitRing DEF Init, Fifo!Init
<1>2. Inv /\ [Next]_vars => [Fifo!Next]_<<Contents(kbd_buf), got>>
  BY FifoStep
<1> QED BY <1>1, <1>2, ConsoleInvariant, PTL DEF Spec, RefinesFifo, Fifo!Spec

-----------------------------------------------------------------------------
(* The keyboard: flattening a sequence *)

\* A set of natural numbers has a least element.
LEMMA Least ==
    ASSUME NEW S, S \subseteq Nat, S # {}
    PROVE  \E x \in S : \A y \in S : x <= y
<1>1. PICK x \in S : \A y \in S : ~(<<y, x>> \in OpToRel(<, Nat))
  BY NatLessThanWellFounded, WFMin
<1>2. \A y \in S : x <= y
  <2> SUFFICES ASSUME NEW y \in S PROVE x <= y
    OBVIOUS
  <2>1. ~(y < x)
    <3>1. <<y, x>> \in Nat \X Nat
      OBVIOUS
    <3> QED BY <1>1, <3>1 DEF OpToRel
  <2> QED BY <2>1
<1> QED BY <1>2

\* f is the function that FlattenSeq defines, for the first n sequences of s.
Flattens(f, s, n) == f = [i \in 1..n |-> IF i = 1 THEN s[i] ELSE f[i-1] \o s[i]]

\* There is such a function.
LEMMA FlattensExists ==
    ASSUME NEW s, NEW n \in Nat
    PROVE  \E f : Flattens(f, s, n)
<1> DEFINE Ok(m) == \E f : Flattens(f, s, m)
           Bad == {m \in Nat : ~Ok(m)}
<1> SUFFICES ASSUME ~Ok(n) PROVE FALSE
  OBVIOUS
<1>1. PICK m \in Bad : \A y \in Bad : m <= y
  <2> HIDE DEF Ok
  <2>1. Bad \subseteq Nat /\ Bad # {}
    OBVIOUS
  <2> HIDE DEF Bad
  <2> QED BY <2>1, Least
<1>2. CASE m = 0
  <2> DEFINE f == [i \in 1..0 |-> i]
  <2>1. f = [i \in 1..0 |-> IF i = 1 THEN s[i] ELSE f[i-1] \o s[i]]
    OBVIOUS
  <2> HIDE DEF f
  <2>2. Ok(0)
    BY <2>1 DEF Flattens
  <2> QED BY <1>1, <1>2, <2>2
<1>3. CASE m # 0
  <2>1. m \in Nat /\ m - 1 \in Nat
    BY <1>1, <1>3
  <2>2. Ok(m - 1)
    <3> HIDE DEF Ok
    <3> QED BY <1>1, <2>1
  <2>3. PICK f : Flattens(f, s, m - 1)
    BY <2>2
  <2> DEFINE g == [i \in 1..m |-> IF i = 1 THEN s[i] ELSE f[i-1] \o s[i]]
  <2>4. \A i \in 1..m - 1 : f[i] = g[i]
    <3> SUFFICES ASSUME NEW i \in 1..m - 1 PROVE f[i] = g[i]
      OBVIOUS
    <3>1. f[i] = IF i = 1 THEN s[i] ELSE f[i-1] \o s[i]
      BY <2>3 DEF Flattens
    <3>2. i \in 1..m
      BY <2>1
    <3>3. g[i] = IF i = 1 THEN s[i] ELSE f[i-1] \o s[i]
      BY <3>2
    <3> QED BY <3>1, <3>3
  <2>5. \A i \in 1..m : i # 1 => i - 1 \in 1..m - 1
    BY <2>1
  <2>6. g = [i \in 1..m |-> IF i = 1 THEN s[i] ELSE g[i-1] \o s[i]]
    BY <2>4, <2>5
  <2> HIDE DEF g
  <2>7. Ok(m)
    BY <2>6 DEF Flattens
  <2> QED BY <1>1, <2>7
<1> QED BY <1>2, <1>3

\* What it computes for i depends only on the first i sequences; it is a sequence.
LEMMA FlattensUnique ==
    ASSUME NEW X, NEW s, NEW t, NEW m \in Nat, NEW n \in Nat, n <= m,
           \A i \in 1..n : s[i] \in Seq(X) /\ t[i] = s[i],
           NEW f, Flattens(f, s, n), NEW g, Flattens(g, t, m)
    PROVE  \A i \in 1..n : f[i] = g[i] /\ f[i] \in Seq(X)
<1> DEFINE Ok(i) == f[i] = g[i] /\ f[i] \in Seq(X)
           Bad == {i \in 1..n : ~Ok(i)}
<1> SUFFICES ASSUME Bad # {} PROVE FALSE
  OBVIOUS
<1>1. PICK i \in Bad : \A y \in Bad : i <= y
  <2>1. Bad \subseteq Nat
    OBVIOUS
  <2> HIDE DEF Bad
  <2> QED BY <2>1, Least
<1>2. i \in 1..n /\ i \in 1..m
  BY <1>1
<1>3. f[i] = IF i = 1 THEN s[i] ELSE f[i-1] \o s[i]
  BY <1>2 DEF Flattens
<1>4. g[i] = IF i = 1 THEN t[i] ELSE g[i-1] \o t[i]
  BY <1>2 DEF Flattens
<1>5. CASE i = 1
  BY <1>1, <1>2, <1>3, <1>4, <1>5
<1>6. CASE i # 1
  <2>1. i - 1 \in 1..n /\ ~(i <= i - 1)
    BY <1>2, <1>6
  <2>2. Ok(i - 1)
    <3> HIDE DEF Ok
    <3> QED BY <1>1, <2>1
  <2>3. s[i] \in Seq(X) /\ t[i] = s[i]
    BY <1>2
  <2>4. f[i] = f[i-1] \o s[i] /\ g[i] = g[i-1] \o t[i]
    BY <1>3, <1>4, <1>6
  <2>5. Ok(i)
    BY <2>2, <2>3, <2>4
  <2> QED BY <1>1, <2>5
<1> QED BY <1>5, <1>6

\* FlattenSeq in terms of that function.
LEMMA FlattenIs ==
    ASSUME NEW X, NEW s \in Seq(Seq(X)), s # <<>>
    PROVE  \E f : Flattens(f, s, Len(s)) /\ FlattenSeq(s) = f[Len(s)]
<1>1. Len(s) \in Nat /\ Len(s) # 0
  OBVIOUS
<1> DEFINE f == CHOOSE g : Flattens(g, s, Len(s))
<1>2. Flattens(f, s, Len(s))
  <2>1. \E g : Flattens(g, s, Len(s))
    BY <1>1, FlattensExists
  <2> QED BY <2>1
<1>3. FlattenSeq(s) = f[Len(s)]
  BY <1>1 DEF FlattenSeq, Flattens
<1> HIDE DEF f
<1> QED BY <1>2, <1>3

\* Flattening one more sequence appends it.
LEMMA FlattenAppend ==
    ASSUME NEW X, NEW s \in Seq(Seq(X)), NEW x \in Seq(X), FlattenSeq(s) \in Seq(X)
    PROVE  FlattenSeq(Append(s, x)) = FlattenSeq(s) \o x
<1> DEFINE t == Append(s, x)
           n == Len(s)
<1>1. /\ n \in Nat /\ t \in Seq(Seq(X)) /\ t # <<>> /\ Len(t) = n + 1 /\ t[n + 1] = x
      /\ \A i \in 1..n : s[i] \in Seq(X) /\ t[i] = s[i]
  <2> DEFINE Y == Seq(X)
  <2>1. s \in Seq(Y) /\ x \in Y
    OBVIOUS
  <2> HIDE DEF Y
  <2>2. /\ n \in Nat /\ t \in Seq(Y) /\ t # <<>> /\ Len(t) = n + 1 /\ t[n + 1] = x
        /\ \A i \in 1..n : s[i] \in Y /\ t[i] = s[i]
    <3>1. n \in Nat /\ t \in Seq(Y) /\ Len(t) = n + 1 /\ t[n + 1] = x
      BY <2>1
    <3>2. \A i \in 1..n : s[i] \in Y /\ t[i] = s[i]
      BY <2>1
    <3>3. Len(t) # Len(<<>>)
      <4>1. Len(<<>>) = 0
        OBVIOUS
      <4> HIDE DEF t, n
      <4> QED BY <3>1, <4>1
    <3>4. t # <<>>
      BY <3>3
    <3> QED BY <3>1, <3>2, <3>4
  <2> QED BY <2>2 DEF Y
<1> HIDE DEF t
<1>2. PICK g : Flattens(g, t, n + 1) /\ FlattenSeq(t) = g[n + 1]
  BY <1>1, FlattenIs
<1>3. g[n + 1] = IF n + 1 = 1 THEN t[n + 1] ELSE g[n] \o t[n + 1]
  <2>1. n + 1 \in 1..n + 1 /\ (n + 1) - 1 = n
    BY <1>1
  <2> QED BY <1>2, <2>1 DEF Flattens
<1>4. CASE s = <<>>
  <2>1. n = 0 /\ FlattenSeq(s) = <<>>
    BY <1>4 DEF FlattenSeq
  <2> QED BY <1>1, <1>2, <1>3, <2>1 DEF t
<1>5. CASE s # <<>>
  <2>1. n \in 1..n /\ n <= n + 1 /\ n + 1 # 1
    BY <1>1, <1>5
  <2>2. PICK f : Flattens(f, s, n) /\ FlattenSeq(s) = f[n]
    BY <1>5, FlattenIs
  <2>3. f[n] = g[n]
    <3> DEFINE m == n + 1
    <3>1. n \in Nat /\ m \in Nat /\ n <= m /\ Flattens(g, t, m)
      BY <1>1, <1>2
    <3> HIDE DEF n, m
    <3>2. \A i \in 1..n : f[i] = g[i] /\ f[i] \in Seq(X)
      BY <1>1, <2>2, <3>1, FlattensUnique
    <3> QED BY <2>1, <3>2
  <2> QED BY <1>1, <1>2, <1>3, <2>1, <2>2, <2>3 DEF t
<1> QED BY <1>4, <1>5

-----------------------------------------------------------------------------
(* The keyboard: the keys that are down *)

\* What an event says of the key that it is about, and of no other.
LEMMA HeldAppend ==
    ASSUME NEW s \in Seq(Events), NEW e \in Events, NEW key
    PROVE  /\ \A m \in 0..Len(s) : Held(Append(s, e), m, key) <=> Held(s, m, key)
           /\ Held(Append(s, e), Len(s) + 1, key)
                 <=> IF e.key = key THEN e.down ELSE Held(s, Len(s), key)
<1> DEFINE t == Append(s, e)
           n == Len(s)
           press == [key |-> key, down |-> TRUE]
<1>1. n \in Nat /\ t[n + 1] = e /\ \A i \in 1..n : t[i] = s[i]
  OBVIOUS
<1>2. e.key = key /\ e.down <=> e = press
  BY DEF Events
<1> HIDE DEF t, n, press
<1>3. ASSUME NEW m \in 0..n PROVE Held(t, m, key) <=> Held(s, m, key)
  <2>1. \A i \in 1..m : t[i] = s[i] /\ \A j \in i + 1..m : t[j] = s[j]
    BY <1>1
  <2>2. \A i \in 1..m : /\ t[i] = press <=> s[i] = press
                        /\ (\A j \in i + 1..m : t[j].key # key) <=> (\A j \in i + 1..m : s[j].key # key)
    BY <2>1
  <2> QED BY <2>2 DEF Held, press
<1>4. CASE e.key = key /\ e.down
  <2>1. n + 1 \in 1..n + 1 /\ t[n + 1] = press /\ \A j \in (n + 1) + 1..n + 1 : t[j].key # key
    BY <1>1, <1>2, <1>4
  <2>2. Held(t, n + 1, key)
    BY <2>1 DEF Held, press
  <2> QED BY <1>3, <1>4, <2>2 DEF t, n
<1>5. CASE ~(e.key = key /\ e.down)
  <2>1. ASSUME Held(t, n + 1, key) PROVE e.key # key /\ Held(s, n, key)
    <3>1. PICK i \in 1..n + 1 : t[i] = press /\ \A j \in i + 1..n + 1 : t[j].key # key
      BY <2>1 DEF Held, press
    <3>2. i # n + 1
      BY <1>1, <1>2, <1>5, <3>1
    <3>3. i \in 1..n /\ n + 1 \in i + 1..n + 1 /\ \A j \in i + 1..n : j \in i + 1..n + 1 /\ j \in 1..n
      BY <1>1, <3>2
    <3>4. s[i] = press /\ (\A j \in i + 1..n : s[j].key # key) /\ e.key # key
      BY <1>1, <3>1, <3>3
    <3> QED BY <3>3, <3>4 DEF Held, press
  <2>2. ASSUME e.key # key, Held(s, n, key) PROVE Held(t, n + 1, key)
    <3>1. PICK i \in 1..n : s[i] = press /\ \A j \in i + 1..n : s[j].key # key
      BY <2>2 DEF Held, press
    <3>2. i \in 1..n + 1 /\ \A j \in i + 1..n + 1 : j = n + 1 \/ (j \in i + 1..n /\ j \in 1..n)
      BY <1>1
    <3>3. t[i] = press /\ \A j \in i + 1..n + 1 : t[j].key # key
      BY <1>1, <2>2, <3>1, <3>2
    <3> QED BY <3>2, <3>3 DEF Held, press
  <2> QED BY <1>3, <1>5, <2>1, <2>2 DEF t, n
<1> QED BY <1>4, <1>5

\* Two keys of which one at a time is down.
OneOf(s, n, pair) == \A a, b \in pair : Held(s, n, a) /\ Held(s, n, b) => a = b

LEMMA PairAppend ==
    ASSUME NEW s \in Seq(Events), NEW e \in Events, NEW pair, OneOf(s, Len(s), pair),
           ~e.down => Held(s, Len(s), e.key),
           e.down /\ e.key \in pair => \A key \in pair \ {e.key} : ~Held(s, Len(s), key)
    PROVE  /\ OneOf(Append(s, e), Len(s) + 1, pair)
           /\ Down(Append(s, e), Len(s) + 1, pair)
                 <=> IF e.key \in pair THEN e.down ELSE Down(s, Len(s), pair)
<1> DEFINE H(key) == Held(s, Len(s), key)
           G(key) == Held(Append(s, e), Len(s) + 1, key)
<1>1. \A key : G(key) <=> IF e.key = key THEN e.down ELSE H(key)
  BY HeldAppend
<1>2. \A a, b \in pair : H(a) /\ H(b) => a = b
  BY DEF OneOf
<1>3. /\ ~e.down => H(e.key)
      /\ e.down /\ e.key \in pair => \A key \in pair : key # e.key => ~H(key)
  OBVIOUS
<1>4. /\ \A a, b \in pair : G(a) /\ G(b) => a = b
      /\ (\E key \in pair : G(key))
            <=> IF e.key \in pair THEN e.down ELSE \E key \in pair : H(key)
  <2> HIDE DEF G, H
  <2> QED BY <1>1, <1>2, <1>3, Zenon
<1> QED BY <1>4 DEF OneOf, Down

\* Pressing caps lock changes what it was.
CapsPress == [key |-> caps_lock_make, down |-> TRUE]

LEMMA CapitalsAppend ==
    ASSUME NEW s \in Seq(Events), NEW e \in Events
    PROVE  /\ \A m \in 0..Len(s) : Capitals(Append(s, e), m) <=> Capitals(s, m)
           /\ Capitals(Append(s, e), Len(s) + 1)
                 <=> IF e = CapsPress THEN ~Capitals(s, Len(s)) ELSE Capitals(s, Len(s))
<1> DEFINE t == Append(s, e)
           n == Len(s)
           P(q, m) == {j \in 1..m : q[j] = CapsPress}
<1>1. n \in Nat /\ t[n + 1] = e /\ \A i \in 1..n : t[i] = s[i]
  OBVIOUS
<1> HIDE DEF t, n
<1>2. \A q, m : Capitals(q, m) <=> Cardinality(P(q, m)) % 2 = 1
  BY DEF Capitals, CapsPress
<1>3. \A m \in 0..n : P(t, m) = P(s, m)
  BY <1>1
<1>4. P(t, n + 1) = IF e = CapsPress THEN P(s, n) \cup {n + 1} ELSE P(s, n)
  BY <1>1
<1>5. IsFiniteSet(P(s, n)) /\ n + 1 \notin P(s, n)
  <2>1. IsFiniteSet(1..n)
    BY <1>1, FS_Interval, n \in Int, 1 \in Int
  <2>2. P(s, n) \subseteq 1..n
    OBVIOUS
  <2>3. IsFiniteSet(P(s, n))
    BY <2>1, <2>2, FS_Subset
  <2> QED BY <1>1, <2>2, <2>3
<1> HIDE DEF P
<1>6. /\ Cardinality(P(s, n)) \in Nat
      /\ Cardinality(P(s, n) \cup {n + 1}) = Cardinality(P(s, n)) + 1
  BY <1>5, FS_AddElement, FS_CardinalityType
<1>7. Cardinality(P(t, n + 1)) % 2 = 1
         <=> IF e = CapsPress THEN ~(Cardinality(P(s, n)) % 2 = 1) ELSE Cardinality(P(s, n)) % 2 = 1
  BY <1>4, <1>6
<1>8. \A m \in 0..n : Capitals(t, m) <=> Capitals(s, m)
  BY <1>2, <1>3
<1> QED BY <1>2, <1>7, <1>8 DEF t, n

-----------------------------------------------------------------------------
(* The keyboard: the decoder *)

Chars == Nat \X (0..2)
KbdState == [ctrl : BOOLEAN, shift : BOOLEAN, alt : BOOLEAN, caps : BOOLEAN,
             ext_scancode : {FALSE}, out : Seq(Chars)]

\* The interrupts of an event, from a state of the handler to the next.
Decode(k, e) ==
    intr_keyboard_hdl(IF e.key >= 256 THEN intr_keyboard_hdl(k, ext) ELSE k, Code(e))

\* What an event types, told from the state of the handler.
Output(k, e) ==
    LET upper == IF e.key \in TwoChars THEN k.shift ELSE ~(k.shift <=> k.caps)
    IN  IF ~e.down \/ e.key \notin 1..58 \ Invisible THEN <<>>
        ELSE IF e.key \in OneChar THEN <<<<e.key, 0>>>>
        ELSE IF upper THEN <<<<e.key, 1>>>>
        ELSE IF k.ctrl /\ e.key \in CtrlKeys THEN <<<<e.key, 2>>>> ELSE <<<<e.key, 0>>>>

\* One or two interrupts make one press or one release.
LEMMA DecodeIs ==
    ASSUME NEW k \in KbdState, NEW e \in Events
    PROVE  Decode(k, e) = IF e.down THEN Make(k, e.key) ELSE Break(k, e.key)
<1>1. e.key \in Keys /\ e.down \in BOOLEAN
  BY DEF Events
<1> DEFINE c == Code(e)
<1>2. [k EXCEPT !.ext_scancode = FALSE] = k
  BY DEF KbdState
<1>3. CASE e.key \in MakeCodes
  <2>1. /\ ~(e.key >= 256) /\ c # ext /\ c \in Nat
        /\ IF e.down THEN c = e.key /\ ~(c >= 128) ELSE c - 128 = e.key /\ c >= 128
    BY <1>1, <1>3 DEF MakeCodes, Code, ext
  <2>2. Decode(k, e) = intr_keyboard_hdl(k, c)
    BY <2>1 DEF Decode
  <2> HIDE DEF c
  <2>3. k.ext_scancode = FALSE
    BY DEF KbdState
  <2>4. CASE e.down
    <3>1. intr_keyboard_hdl(k, c) = Make(k, c)
      BY <1>2, <2>1, <2>3, <2>4 DEF intr_keyboard_hdl
    <3> QED BY <2>1, <2>2, <2>4, <3>1
  <2>5. CASE ~e.down
    <3>1. intr_keyboard_hdl(k, c) = Break(k, c - 128)
      BY <1>2, <2>1, <2>3, <2>5 DEF intr_keyboard_hdl
    <3> QED BY <2>1, <2>2, <2>5, <3>1
  <2> QED BY <2>4, <2>5
<1>4. CASE e.key - 256 * ext \in MakeCodes
  <2>1. /\ e.key >= 256 /\ c # ext /\ c \in Nat
        /\ IF e.down THEN 256 * ext + c = e.key /\ ~(c >= 128)
           ELSE (256 * ext + c) - 128 = e.key /\ c >= 128
    BY <1>1, <1>4, KeyboardAssumption DEF MakeCodes, Code, ext
  <2> DEFINE l == [k EXCEPT !.ext_scancode = TRUE]
  <2>2. intr_keyboard_hdl(k, ext) = l
    BY DEF intr_keyboard_hdl
  <2>3. Decode(k, e) = intr_keyboard_hdl(l, c)
    BY <2>1, <2>2 DEF Decode
  <2>4. l.ext_scancode = TRUE /\ [l EXCEPT !.ext_scancode = FALSE] = k
    BY DEF KbdState
  <2> HIDE DEF c, l
  <2>5. CASE e.down
    <3>1. intr_keyboard_hdl(l, c) = Make(k, 256 * ext + c)
      BY <2>1, <2>4, <2>5 DEF intr_keyboard_hdl
    <3> QED BY <2>1, <2>3, <2>5, <3>1
  <2>6. CASE ~e.down
    <3>1. intr_keyboard_hdl(l, c) = Break(k, (256 * ext + c) - 128)
      BY <2>1, <2>4, <2>6 DEF intr_keyboard_hdl
    <3> QED BY <2>1, <2>3, <2>6, <3>1
  <2> QED BY <2>5, <2>6
<1> QED BY <1>1, <1>3, <1>4, KeyboardAssumption

\* What a press or a release does to the state of the handler.
LEMMA Decoded ==
    ASSUME NEW k \in KbdState, NEW e \in Events
    PROVE  /\ Decode(k, e) \in KbdState
           /\ Decode(k, e).shift <=> IF e.key \in Shifts THEN e.down ELSE k.shift
           /\ Decode(k, e).ctrl <=> IF e.key \in Ctrls THEN e.down ELSE k.ctrl
           /\ Decode(k, e).caps <=> IF e = CapsPress THEN ~k.caps ELSE k.caps
           /\ Decode(k, e).out = k.out \o Output(k, e)
           /\ Output(k, e) \in Seq(Chars)
<1> USE DEF shift_l_make, shift_r_make, alt_l_make, alt_r_make, ctrl_l_make, ctrl_r_make,
            caps_lock_make, ext, MakeCodes
<1>1. e.key \in Keys /\ e.down \in BOOLEAN /\ (e = CapsPress <=> e.key = caps_lock_make /\ e.down)
  BY DEF Events, CapsPress
<1>2. e.key \in Int /\ (e.key \in MakeCodes \/ e.key - 256 * ext \in MakeCodes)
  BY <1>1, KeyboardAssumption
<1>3. k.out \in Seq(Chars) /\ k.out \o <<>> = k.out
  BY DEF KbdState
<1>4. CASE ~e.down
  <2>1. Decode(k, e) = Break(k, e.key) /\ Output(k, e) = <<>> /\ e # CapsPress
    BY <1>1, <1>4, DecodeIs DEF Output
  <2>2. \/ e.key \in Ctrls /\ e.key \notin Shifts /\ Break(k, e.key) = [k EXCEPT !.ctrl = FALSE]
        \/ e.key \in Shifts /\ e.key \notin Ctrls /\ Break(k, e.key) = [k EXCEPT !.shift = FALSE]
        \/ e.key \notin Shifts /\ e.key \notin Ctrls /\ Break(k, e.key) \in {k, [k EXCEPT !.alt = FALSE]}
    BY DEF Break, Shifts, Ctrls
  <2>3. CASE e.key \in Ctrls /\ e.key \notin Shifts /\ Break(k, e.key) = [k EXCEPT !.ctrl = FALSE]
    <3> DEFINE d == Decode(k, e)
    <3>1. d = [k EXCEPT !.ctrl = FALSE]
      BY <2>1, <2>3
    <3> HIDE DEF d
    <3>2. d \in KbdState /\ d.ctrl = FALSE /\ d.shift = k.shift /\ d.caps = k.caps /\ d.out = k.out
      BY <3>1 DEF KbdState
    <3> QED BY <1>3, <1>4, <2>1, <2>3, <3>2 DEF d
  <2>4. CASE e.key \in Shifts /\ e.key \notin Ctrls /\ Break(k, e.key) = [k EXCEPT !.shift = FALSE]
    <3> DEFINE d == Decode(k, e)
    <3>1. d = [k EXCEPT !.shift = FALSE]
      BY <2>1, <2>4
    <3> HIDE DEF d
    <3>2. d \in KbdState /\ d.ctrl = k.ctrl /\ d.shift = FALSE /\ d.caps = k.caps /\ d.out = k.out
      BY <3>1 DEF KbdState
    <3> QED BY <1>3, <1>4, <2>1, <2>4, <3>2 DEF d
  <2>5. CASE e.key \notin Shifts /\ e.key \notin Ctrls /\ Break(k, e.key) \in {k, [k EXCEPT !.alt = FALSE]}
    <3> DEFINE d == Decode(k, e)
    <3>1. d \in {k, [k EXCEPT !.alt = FALSE]}
      BY <2>1, <2>5
    <3> HIDE DEF d
    <3>2. d \in KbdState /\ d.ctrl = k.ctrl /\ d.shift = k.shift /\ d.caps = k.caps /\ d.out = k.out
      BY <3>1, ZenonT(60) DEF KbdState
    <3> QED BY <1>3, <1>4, <2>1, <2>5, <3>2 DEF d
  <2> QED BY <2>2, <2>3, <2>4, <2>5
<1>5. CASE e.down /\ e.key \notin (1..58) \cup {alt_r_make, ctrl_r_make}
  <2>1. Make(k, e.key) = k
    BY <1>5 DEF Make
  <2>2. Decode(k, e) = k
    BY <1>5, <2>1, DecodeIs
  <2>3. Output(k, e) = <<>> /\ e.key \notin Shifts /\ e.key \notin Ctrls /\ e # CapsPress
    BY <1>1, <1>5 DEF Output, Shifts, Ctrls
  <2> QED BY <1>3, <2>2, <2>3
<1>6. CASE e.down /\ e.key \in Invisible \cup {alt_r_make, ctrl_r_make}
  <2>1. Output(k, e) = <<>>
    BY <1>6 DEF Output, Invisible
  <2>2. Decode(k, e) = Make(k, e.key)
    BY <1>6, DecodeIs
  <2>3. \/ e.key \in Ctrls /\ e.key \notin Shifts /\ e # CapsPress /\ Make(k, e.key) = [k EXCEPT !.ctrl = TRUE]
        \/ e.key \in Shifts /\ e.key \notin Ctrls /\ e # CapsPress /\ Make(k, e.key) = [k EXCEPT !.shift = TRUE]
        \/ e.key \notin Shifts /\ e.key \notin Ctrls /\ e # CapsPress /\ Make(k, e.key) = [k EXCEPT !.alt = TRUE]
        \/ e.key \notin Shifts /\ e.key \notin Ctrls /\ e = CapsPress /\ Make(k, e.key) = [k EXCEPT !.caps = ~k.caps]
    <3>1. CASE e.key \in Ctrls
      BY <1>1, <1>6, <3>1 DEF Make, Ctrls, Shifts, Invisible
    <3>2. CASE e.key \in Shifts
      BY <1>1, <1>6, <3>2 DEF Make, Ctrls, Shifts, Invisible
    <3>3. CASE e.key \in {alt_l_make, alt_r_make}
      BY <1>1, <1>6, <3>3 DEF Make, Ctrls, Shifts, Invisible
    <3>4. CASE e.key = caps_lock_make
      BY <1>1, <1>6, <3>4 DEF Make, Ctrls, Shifts, Invisible
    <3> QED BY <1>6, <3>1, <3>2, <3>3, <3>4 DEF Ctrls, Shifts, Invisible
  <2>4. k.caps \in BOOLEAN /\ (~k.caps) \in BOOLEAN
    BY DEF KbdState
  <2>5. CASE e.key \in Ctrls /\ e.key \notin Shifts /\ e # CapsPress /\ Make(k, e.key) = [k EXCEPT !.ctrl = TRUE]
    <3> DEFINE d == Decode(k, e)
    <3>1. d = [k EXCEPT !.ctrl = TRUE]
      BY <2>2, <2>4, <2>5
    <3> HIDE DEF d
    <3>2. d \in KbdState /\ d.ctrl = TRUE /\ d.shift = k.shift /\ d.caps = k.caps /\ d.out = k.out
      BY <3>1 DEF KbdState
    <3> QED BY <1>3, <1>6, <2>1, <2>5, <3>2 DEF d
  <2>6. CASE e.key \in Shifts /\ e.key \notin Ctrls /\ e # CapsPress /\ Make(k, e.key) = [k EXCEPT !.shift = TRUE]
    <3> DEFINE d == Decode(k, e)
    <3>1. d = [k EXCEPT !.shift = TRUE]
      BY <2>2, <2>4, <2>6
    <3> HIDE DEF d
    <3>2. d \in KbdState /\ d.ctrl = k.ctrl /\ d.shift = TRUE /\ d.caps = k.caps /\ d.out = k.out
      BY <3>1 DEF KbdState
    <3> QED BY <1>3, <1>6, <2>1, <2>6, <3>2 DEF d
  <2>7. CASE e.key \notin Shifts /\ e.key \notin Ctrls /\ e # CapsPress /\ Make(k, e.key) = [k EXCEPT !.alt = TRUE]
    <3> DEFINE d == Decode(k, e)
    <3>1. d = [k EXCEPT !.alt = TRUE]
      BY <2>2, <2>4, <2>7
    <3> HIDE DEF d
    <3>2. d \in KbdState /\ d.ctrl = k.ctrl /\ d.shift = k.shift /\ d.caps = k.caps /\ d.out = k.out
      BY <3>1 DEF KbdState
    <3> QED BY <1>3, <1>6, <2>1, <2>7, <3>2 DEF d
  <2>8. CASE e.key \notin Shifts /\ e.key \notin Ctrls /\ e = CapsPress /\ Make(k, e.key) = [k EXCEPT !.caps = ~k.caps]
    <3> DEFINE d == Decode(k, e)
    <3>1. d = [k EXCEPT !.caps = ~k.caps]
      BY <2>2, <2>4, <2>8
    <3> HIDE DEF d
    <3>2. d \in KbdState /\ d.ctrl = k.ctrl /\ d.shift = k.shift /\ (d.caps <=> ~k.caps) /\ d.out = k.out
      BY <3>1 DEF KbdState
    <3> QED BY <1>3, <1>6, <2>1, <2>8, <3>2 DEF d
  <2> QED BY <2>3, <2>5, <2>6, <2>7, <2>8
<1>7. CASE e.down /\ e.key \in (1..58) \ Invisible
  <2>1. e.key \in Nat /\ e.key % 256 = e.key /\ e.key \notin Shifts /\ e.key \notin Ctrls /\ e # CapsPress
    BY <1>1, <1>7 DEF Invisible, Ctrls, Shifts
  <2> DEFINE char == keymap(e.key, Column(k, e.key))
             byte == IF k.ctrl /\ e.key \in CtrlKeys /\ char[2] = 0 THEN <<e.key, 2>> ELSE char
  <2>2. Make(k, e.key) = [k EXCEPT !.out = Append(@, byte)]
    <3>1. e.key \in (1..58) \cup {alt_r_make, ctrl_r_make} /\ e.key \notin Invisible
      BY <1>7
    <3> HIDE DEF shift_l_make, shift_r_make, alt_l_make, alt_r_make, ctrl_l_make, ctrl_r_make,
                 caps_lock_make, ext, MakeCodes
    <3> DEFINE x == e.key % 256
               y == keymap(x, Column(k, e.key))
               z == IF k.ctrl /\ x \in CtrlKeys /\ y[2] = 0 THEN <<x, 2>> ELSE y
    <3>2. Make(k, e.key) =
            CASE x \notin Invisible -> [k EXCEPT !.out = Append(@, z)]
              [] x = ctrl_l_make -> [k EXCEPT !.ctrl = TRUE]
              [] x \in {shift_l_make, shift_r_make} -> [k EXCEPT !.shift = TRUE]
              [] x = alt_l_make -> [k EXCEPT !.alt = TRUE]
              [] x = caps_lock_make -> [k EXCEPT !.caps = ~@]
      BY <3>1 DEF Make
    <3>3. x = e.key /\ z = byte
      BY <2>1
    <3> HIDE DEF x, z, byte
    <3> QED BY <3>1, <3>2, <3>3 DEF Invisible
  <2>3. Decode(k, e) = [k EXCEPT !.out = Append(@, byte)]
    BY <1>7, <2>2, DecodeIs
  <2>4. Output(k, e) = <<byte>>
    <3>1. CASE e.key \in OneChar
      <4>1. char = <<e.key, 0>> /\ e.key \notin CtrlKeys
        BY <3>1 DEF keymap, OneChar, CtrlKeys
      <4> QED BY <1>7, <3>1, <4>1 DEF Output
    <3>2. CASE e.key \in TwoChars
      <4>1. char = <<e.key, IF k.shift THEN 1 ELSE 0>> /\ e.key \notin CtrlKeys /\ e.key \notin OneChar
        BY <3>2 DEF keymap, Column, OneChar, TwoChars, CtrlKeys
      <4> QED BY <1>7, <3>2, <4>1 DEF Output
    <3>3. CASE e.key \notin OneChar /\ e.key \notin TwoChars
      <4>1. ~(e.key < 14)
        BY <1>7, <2>1, <3>3 DEF OneChar, TwoChars
      <4>2. char = <<e.key, IF ~(k.shift <=> k.caps) THEN 1 ELSE 0>>
        BY <3>3, <4>1 DEF keymap, Column
      <4> QED BY <1>7, <3>3, <4>2 DEF Output
    <3> QED BY <3>1, <3>2, <3>3
  <2>5. byte \in Chars
    BY <2>1 DEF keymap, Column, Chars
  <2> HIDE DEF byte
  <2>6. k.out \o <<byte>> = Append(k.out, byte) /\ <<byte>> \in Seq(Chars) /\ Append(k.out, byte) \in Seq(Chars)
    BY <1>3, <2>5
  <2> DEFINE o == Append(k.out, byte)
  <2> HIDE DEF o
  <2>7. LET d == [k EXCEPT !.out = o]
        IN  d \in KbdState /\ d.ctrl = k.ctrl /\ d.shift = k.shift /\ d.caps = k.caps /\ d.out = o
    BY <2>6 DEF KbdState, o
  <2>8. Decode(k, e) = [k EXCEPT !.out = o]
    BY <2>3 DEF o
  <2> QED BY <2>1, <2>4, <2>6, <2>7, <2>8 DEF o
<1> HIDE DEF shift_l_make, shift_r_make, alt_l_make, alt_r_make, ctrl_l_make, ctrl_r_make,
            caps_lock_make, ext, MakeCodes
<1> QED BY <1>1, <1>4, <1>5, <1>6, <1>7

-----------------------------------------------------------------------------
(* The keyboard: the theorem *)

\* The handler knows which keys are down: its flags agree with the presses and
\* releases so far, and no first half of a code is left over.
KeyboardInv ==
    /\ keys \in Seq(Events) /\ kbd \in KbdState
    /\ \A pair \in {Shifts, Ctrls} : OneOf(keys, Len(keys), pair)
    /\ kbd.shift <=> Down(keys, Len(keys), Shifts)
    /\ kbd.ctrl <=> Down(keys, Len(keys), Ctrls)
    /\ kbd.caps <=> Capitals(keys, Len(keys))
    /\ DecodesKeys

\* What was typed does not change with a later event.
LEMMA TypedAppend ==
    ASSUME NEW s \in Seq(Events), NEW e \in Events
    PROVE  \A i \in 1..Len(s) : Typed(Append(s, e), i) = Typed(s, i)
<1> SUFFICES ASSUME NEW i \in 1..Len(s) PROVE Typed(Append(s, e), i) = Typed(s, i)
  OBVIOUS
<1>1. Append(s, e)[i] = s[i] /\ i - 1 \in 0..Len(s)
  OBVIOUS
<1>2. \A pair : Down(Append(s, e), i - 1, pair) <=> Down(s, i - 1, pair)
  BY <1>1, HeldAppend DEF Down
<1>3. Capitals(Append(s, e), i - 1) <=> Capitals(s, i - 1)
  BY <1>1, CapitalsAppend
<1>4. /\ Down(Append(s, e), i - 1, Shifts) <=> Down(s, i - 1, Shifts)
      /\ Down(Append(s, e), i - 1, Ctrls) <=> Down(s, i - 1, Ctrls)
  BY <1>2
<1> DEFINE t == Append(s, e)
<1> HIDE DEF t
<1>5. Typed(t, i) = Typed(s, i)
  BY <1>1, <1>3, <1>4, Zenon DEF Typed, t
<1> QED BY <1>5 DEF t

\* What the last event types is what the handler makes of it.
LEMMA TypedLast ==
    ASSUME KeyboardInv, NEW e \in Events
    PROVE  Typed(Append(keys, e), Len(keys) + 1) = Output(kbd, e)
<1> DEFINE t == Append(keys, e)
           n == Len(keys)
<1>1. t[n + 1] = e /\ n \in 0..n /\ (n + 1) - 1 = n
  BY DEF KeyboardInv
<1>2. \A pair : Down(t, n, pair) <=> Down(keys, n, pair)
  BY <1>1, HeldAppend DEF Down, KeyboardInv
<1>3. Capitals(t, n) <=> Capitals(keys, n)
  BY <1>1, CapitalsAppend DEF KeyboardInv
<1>4. /\ kbd.shift <=> Down(t, n, Shifts)
      /\ kbd.ctrl <=> Down(t, n, Ctrls)
      /\ kbd.caps <=> Capitals(t, n)
  BY <1>2, <1>3 DEF KeyboardInv
<1>5. kbd.shift \in BOOLEAN /\ kbd.ctrl \in BOOLEAN /\ kbd.caps \in BOOLEAN
  BY DEF KeyboardInv, KbdState
<1> HIDE DEF t, n
<1>6. Typed(t, n + 1) = Output(kbd, e)
  BY <1>1, <1>4, <1>5 DEF Typed, Output
<1> QED BY <1>6 DEF t, n

\* The bytes so far, flattened, form a sequence of characters.
LEMMA TypedType ==
    ASSUME NEW s \in Seq(Events), NEW i \in 1..Len(s)
    PROVE  Typed(s, i) \in Seq(Chars)
<1> DEFINE key == s[i].key
<1>1. CASE key \notin 1..58 \ Invisible \/ ~s[i].down
  BY <1>1 DEF Typed
<1>2. CASE key \in 1..58 \ Invisible /\ s[i].down
  <2>1. key \in Nat
    <3>1. \A x \in 1..58 \ Invisible : x \in Nat
      OBVIOUS
    <3> HIDE DEF key
    <3> QED BY <1>2, <3>1
  <2>2. \A c \in 0..2 : <<<<key, c>>>> \in Seq(Chars)
    BY <2>1 DEF Chars
  <2>3. Typed(s, i) \in {<<<<key, 0>>>>, <<<<key, 1>>>>, <<<<key, 2>>>>}
    BY <1>2 DEF Typed
  <2>4. <<<<key, 0>>>> \in Seq(Chars) /\ <<<<key, 1>>>> \in Seq(Chars) /\ <<<<key, 2>>>> \in Seq(Chars)
    BY <2>2
  <2> QED BY <2>3, <2>4, Zenon
<1> QED BY <1>1, <1>2

\* A press or a release keeps the invariant.
LEMMA KeyEventInv ==
    ASSUME KeyboardInv, NEW e \in Events, KeyEvent(e)
    PROVE  KeyboardInv'
<1> DEFINE n == Len(keys)
           d == Decode(kbd, e)
           t == Append(keys, e)
<1>1. /\ keys \in Seq(Events) /\ kbd \in KbdState /\ keys' = t /\ kbd' = d /\ Possible(e)
      /\ t \in Seq(Events) /\ Len(t) = n + 1 /\ n \in Nat
  BY DEF KeyEvent, KeyboardInv, Decode
<1>2. /\ d \in KbdState
      /\ d.shift <=> IF e.key \in Shifts THEN e.down ELSE kbd.shift
      /\ d.ctrl <=> IF e.key \in Ctrls THEN e.down ELSE kbd.ctrl
      /\ d.caps <=> IF e = CapsPress THEN ~kbd.caps ELSE kbd.caps
      /\ d.out = kbd.out \o Output(kbd, e)
      /\ Output(kbd, e) \in Seq(Chars)
  BY <1>1, Decoded
<1>3. ASSUME NEW pair \in {Shifts, Ctrls}
      PROVE  /\ OneOf(t, n + 1, pair)
             /\ Down(t, n + 1, pair) <=> IF e.key \in pair THEN e.down ELSE Down(keys, n, pair)
  <2>1. /\ OneOf(keys, n, pair)
        /\ ~e.down => Held(keys, n, e.key)
        /\ e.down /\ e.key \in pair => \A key \in pair \ {e.key} : ~Held(keys, n, key)
    BY <1>1 DEF KeyboardInv, Possible
  <2> QED BY <1>1, <2>1, PairAppend
<1>4. Capitals(t, n + 1) <=> IF e = CapsPress THEN ~Capitals(keys, n) ELSE Capitals(keys, n)
  BY <1>1, CapitalsAppend
<1> DEFINE T(s) == [i \in DOMAIN s |-> Typed(s, i)]
           o == Output(kbd, e)
<1>5. d.out = FlattenSeq(T(t))
  <2>1. T(keys) \in Seq(Seq(Chars))
    <3>1. \A i \in 1..n : Typed(keys, i) \in Seq(Chars)
      BY <1>1, TypedType
    <3>2. DOMAIN keys = 1..n
      BY <1>1
    <3> QED BY <1>1, <3>1, <3>2
  <2>2. T(t) = Append(T(keys), o)
    <3>1. DOMAIN keys = 1..n /\ DOMAIN t = 1..n + 1 /\ Len(T(keys)) = n
      BY <1>1
    <3>2. \A i \in 1..n : Typed(t, i) = Typed(keys, i)
      BY <1>1, TypedAppend
    <3>3. Typed(t, n + 1) = o
      BY TypedLast
    <3> QED BY <1>1, <3>1, <3>2, <3>3
  <2>3. FlattenSeq(T(keys)) = kbd.out /\ kbd.out \in Seq(Chars)
    BY DEF KeyboardInv, DecodesKeys, KbdState
  <2> HIDE DEF T, o
  <2>4. FlattenSeq(Append(T(keys), o)) = FlattenSeq(T(keys)) \o o
    BY <1>2, <2>1, <2>3, FlattenAppend, ZenonT(60) DEF o
  <2> QED BY <1>2, <2>2, <2>3, <2>4 DEF o
<1>6. /\ kbd.shift <=> Down(keys, n, Shifts)
      /\ kbd.ctrl <=> Down(keys, n, Ctrls)
      /\ kbd.caps <=> Capitals(keys, n)
  BY DEF KeyboardInv
<1>7. DecodesKeys'
  BY <1>1, <1>5 DEF DecodesKeys
<1> HIDE DEF d, t, n
<1>8. /\ d.shift <=> Down(t, n + 1, Shifts)
      /\ d.ctrl <=> Down(t, n + 1, Ctrls)
      /\ d.caps <=> Capitals(t, n + 1)
  BY <1>2, <1>3, <1>4, <1>6
<1> QED BY <1>1, <1>2, <1>3, <1>7, <1>8 DEF KeyboardInv

\* Whatever keys are pressed and released, intr_keyboard_hdl() gives the characters
\* that the shift, ctrl and caps lock keys call for, for any number of events and
\* any set of keys with one and with two codes, known to the handler or not.
THEOREM KeyboardDecodesKeys == KeyboardSpec => []DecodesKeys
<1>1. KeyboardInit => KeyboardInv
  <2> SUFFICES ASSUME KeyboardInit PROVE KeyboardInv
    OBVIOUS
  <2>1. keys = <<>> /\ Len(keys) = 0 /\ kbd \in KbdState /\ kbd.out = <<>>
        /\ ~kbd.shift /\ ~kbd.ctrl /\ ~kbd.caps
    BY DEF KeyboardInit, KbdState
  <2>2. \A k : ~Held(keys, Len(keys), k)
    BY <2>1 DEF Held
  <2>3. ~Capitals(keys, Len(keys))
    <3>1. {j \in 1..0 : keys[j] = [key |-> caps_lock_make, down |-> TRUE]} = {}
      OBVIOUS
    <3> QED BY <2>1, <3>1, FS_EmptySet DEF Capitals
  <2>4. DecodesKeys
    <3>1. [i \in DOMAIN keys |-> Typed(keys, i)] = <<>>
      BY <2>1
    <3> QED BY <2>1, <3>1 DEF DecodesKeys, FlattenSeq
  <2> QED BY <2>1, <2>2, <2>3, <2>4 DEF KeyboardInv, OneOf, Down
<1>2. KeyboardInv /\ [\E e \in Events : KeyEvent(e)]_<<keys, kbd>> => KeyboardInv'
  <2>1. ASSUME KeyboardInv, UNCHANGED <<keys, kbd>> PROVE KeyboardInv'
    BY <2>1 DEF KeyboardInv, DecodesKeys
  <2> QED BY <2>1, KeyEventInv
<1>3. KeyboardInv => DecodesKeys
  BY DEF KeyboardInv
<1> QED BY <1>1, <1>2, <1>3, PTL DEF KeyboardSpec
=============================================================================
