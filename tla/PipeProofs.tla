----------------------------- MODULE PipeProofs ------------------------------
(***************************************************************************)
(* Pipe: a reader never waits and two writes are never mixed, for any      *)
(* number of tasks, any size of the ring and any position that sys_clone() *)
(* increments in it; and but for that byte the pipe is a bounded queue.    *)
(***************************************************************************)
EXTENDS Pipe, SchedProofs, FiniteSetTheorems

USE SchedAssumption

-----------------------------------------------------------------------------
(* The ring *)

\* What sys_clone() does to the ring leaves its length alone, and all bytes but one.
LEMMA RingCloned ==
    ASSUME NEW r \in RingState, open_cnts_pos < bufsize
    PROVE  LET n == [r EXCEPT !.buf[open_cnts_pos] = (@ + 2) % Cardinality(Bytes)]
           IN  /\ n \in RingState /\ ioq_length(n) = ioq_length(r)
               /\ \A i \in 1..ioq_length(r) :
                     (r.tail + i - 1) % bufsize # open_cnts_pos => Contents(n)[i] = Contents(r)[i]
<1>1. Cardinality(Bytes) \in Nat \ {0}
  BY PipeAssumption, IoQueueAssumption, FS_CardinalityType, FS_EmptySet
<1>2. /\ r.buf \in [0..bufsize - 1 -> Bytes] /\ open_cnts_pos \in 0..bufsize - 1
  BY RingFields, PipeAssumption
<1>3. PICK v \in Nat : v = r.buf[open_cnts_pos] + 2
  <2>1. Bytes \subseteq Nat
    BY <1>1, PipeAssumption
  <2>2. r.buf[open_cnts_pos] \in Bytes
    BY <1>2
  <2>3. PICK c \in Nat : c = r.buf[open_cnts_pos]
    BY <2>1, <2>2
  <2>4. c + 2 \in Nat
    OBVIOUS
  <2> QED BY <2>3, <2>4
<1>4. v % Cardinality(Bytes) \in 0..Cardinality(Bytes) - 1
  BY <1>1
<1>5. PICK b \in Bytes : b = v % Cardinality(Bytes)
  BY <1>4, PipeAssumption
<1> DEFINE n == [r EXCEPT !.buf[open_cnts_pos] = b]
<1>6. n = [r EXCEPT !.buf[open_cnts_pos] = (@ + 2) % Cardinality(Bytes)]
  BY <1>3, <1>5
<1>7. /\ n \in RingState /\ n.head = r.head /\ n.tail = r.tail
      /\ n.buf = [r.buf EXCEPT ![open_cnts_pos] = b]
  BY <1>2 DEF RingState
<1> HIDE DEF n
<1>8. ioq_length(n) = ioq_length(r)
  BY <1>7 DEF ioq_length
<1>9. ASSUME NEW i \in 1..ioq_length(r), (r.tail + i - 1) % bufsize # open_cnts_pos
      PROVE  Contents(n)[i] = Contents(r)[i]
  <2> DEFINE at(j) == (r.tail + j - 1) % bufsize
  <2>1. /\ Contents(n)[i] = n.buf[at(i)]
        /\ Contents(r)[i] = r.buf[at(i)]
    BY <1>7, <1>8 DEF Contents
  <2>2. at(i) \in 0..bufsize - 1
    <3>1. /\ bufsize \in Nat \ {0} /\ r.tail \in 0..bufsize - 1
          /\ ioq_length(r) \in 0..bufsize - 1
      BY RingFields
    <3>2. r.tail + i - 1 \in Int
      BY <3>1
    <3> QED BY <3>1, <3>2
  <2>3. at(i) # open_cnts_pos
    BY <1>9
  <2> HIDE DEF at
  <2> QED BY <1>2, <1>7, <2>1, <2>2, <2>3
<1> QED BY <1>6, <1>7, <1>8, <1>9

-----------------------------------------------------------------------------
(* The inductive invariant *)

Writing == {"put", "iodown", "slept"}

PcOK ==
    /\ pc \in [Tasks -> Labels \cup IdleLabels]
    /\ \A t \in Tasks : pc[t] \in IdleLabels <=> t = idle_task
    /\ \A t \in Tasks : pc[t] \in {"wlock"} \cup Writing => t \in Writers
    /\ \A t \in Tasks : pc[t] \in {"rlock", "take"} => t \in Readers

DataOK ==
    /\ q \in RingState /\ iosema \in SemaState /\ file_table_lock \in SemaState
    /\ producer \in SUBSET Writers
    /\ left \in [Writers \cup Readers -> 0..MaxCount] /\ got \in [Readers -> Bytes]

\* Who is in the list of file_table_lock sleeps in sema_down().
WaitersOK ==
    /\ NoDuplicates(file_table_lock.waiters)
    /\ \A t \in Tasks : elem_find(file_table_lock.waiters, t) => Sleeps(ks, t)
    /\ \A t \in Tasks : elem_find(file_table_lock.waiters, t) => pc[t] \in {"wlock", "rlock"}

\* Nobody is preempted between the test of the ring and its use.
RunOK == \A t \in Tasks : pc[t] \in {"put", "iodown", "take"} => t = ks.running

\* pipe_write() holds file_table_lock, also while it sleeps.
HolderOK ==
    /\ \A t \in Tasks : pc[t] \in Writing => file_table_lock.value = 0
    /\ \A t, u \in Tasks : pc[t] \in Writing /\ pc[u] \in Writing => t = u

\* Only a writer that sleeps has taken iosema.
SleptOK == iosema.value = 0 \/ producer # {} => \E t \in Tasks : pc[t] = "slept"

\* pipe_read() goes on with file_table_lock free, so that no writer sleeps, and
\* finds what it has counted.
TakeOK ==
    \A t \in Tasks : pc[t] = "take" =>
        file_table_lock.value = 1 /\ left[t] <= ioq_length(q)

Inv ==
    /\ SchedInv(ks)
    /\ PcOK /\ DataOK /\ WaitersOK /\ RunOK /\ HolderOK /\ SleptOK /\ TakeOK

LEMMA InitInv == Init => Inv
<1> SUFFICES ASSUME Init PROVE Inv
  OBVIOUS
<1>1. SchedInv(ks)
  BY TaskInitFacts DEF Init, KernelInit
<1>2. PcOK /\ \A t \in Tasks : pc[t] \in {"user"} \cup IdleLabels
  BY DEF Init, KernelInit, PcOK, Labels, Writing, IdleLabels
<1>3. /\ iosema \in SemaState /\ iosema.value = 1 /\ producer = {}
      /\ file_table_lock \in SemaState /\ file_table_lock.waiters = <<>>
  BY DEF Init, sema_init, SemaState
<1>4. DataOK
  <2>1. (CHOOSE b \in Bytes : TRUE) \in Bytes
    BY IoQueueAssumption
  <2>2. left \in [Writers \cup Readers -> 0..MaxCount] /\ got \in [Readers -> Bytes]
    BY <2>1, PipeAssumption DEF Init
  <2>3. q \in RingState
    BY InitRing DEF Init
  <2> QED BY <1>3, <2>2, <2>3 DEF DataOK
<1>5. WaitersOK /\ SleptOK
  BY <1>3 DEF WaitersOK, SleptOK, NoDuplicates, elem_find
<1>6. RunOK /\ HolderOK /\ TakeOK
  BY <1>2 DEF RunOK, HolderOK, TakeOK, Writing, IdleLabels
<1> QED BY <1>1, <1>2, <1>4, <1>5, <1>6 DEF Inv

-----------------------------------------------------------------------------
(* Lemmas *)

LEMMA Now ==
    ASSUME Inv
    PROVE  /\ ks \in SchedState /\ SchedInv(ks) /\ ks.running \in Tasks
           /\ ~Sleeps(ks, ks.running)
           /\ PcOK /\ DataOK /\ WaitersOK /\ RunOK /\ HolderOK /\ SleptOK /\ TakeOK
           /\ Writers \cup Readers \subseteq Tasks \ {idle_task}
BY StateFields, RunningNotQueued, PipeAssumption DEF Inv, SchedInv, Sleeps

\* Who is inside a system call, and what that says of the others.
LEMMA Inside ==
    ASSUME Inv, NEW l \in Labels \ {"user"}, Running(l)
    PROVE  /\ ks.running \in Tasks \ {idle_task} /\ pc[ks.running] = l
           /\ l \in {"wlock"} \cup Writing => ks.running \in Writers
           /\ l \in {"rlock", "take"} => ks.running \in Readers
           /\ ks.running \in Writers \cup Readers
           /\ ~elem_find(file_table_lock.waiters, ks.running)
<1>1. /\ ks.running \in Tasks /\ pc[ks.running] = l
      /\ l \in {"wlock"} \cup Writing => ks.running \in Writers
      /\ l \in {"rlock", "take"} => ks.running \in Readers
  BY Now DEF Running, PcOK
<1>2. l \in {"wlock"} \cup Writing \/ l \in {"rlock", "take"}
  BY DEF Labels, Writing
<1> QED BY <1>1, <1>2, Now DEF WaitersOK

\* A step of a task moves only that task, to where it may be.
LEMMA Moved ==
    ASSUME Inv, NEW l \in Labels, Goto(l), ks.running \in Tasks \ {idle_task},
           l \in {"wlock"} \cup Writing => ks.running \in Writers,
           l \in {"rlock", "take"} => ks.running \in Readers
    PROVE  /\ PcOK' /\ pc'[ks.running] = l
           /\ \A t \in Tasks \ {ks.running} : pc'[t] = pc[t]
<1>1. /\ pc' \in [Tasks -> Labels \cup IdleLabels] /\ pc'[ks.running] = l
      /\ \A t \in Tasks \ {ks.running} : pc'[t] = pc[t]
  BY Now DEF Goto, PcOK
<1>2. l \notin IdleLabels
  BY DEF Labels, IdleLabels
<1>3. \A t \in Tasks : pc'[t] \in IdleLabels <=> t = idle_task
  BY <1>1, <1>2, Now DEF PcOK
<1>4. /\ \A t \in Tasks : pc'[t] \in {"wlock"} \cup Writing => t \in Writers
      /\ \A t \in Tasks : pc'[t] \in {"rlock", "take"} => t \in Readers
  BY <1>1, Now DEF PcOK
<1> QED BY <1>1, <1>3, <1>4 DEF PcOK

\* SetLeft() keeps the types.
LEMMA LeftSet ==
    ASSUME Inv, NEW n \in 0..MaxCount, SetLeft(n), ks.running \in Writers \cup Readers
    PROVE  /\ left' \in [Writers \cup Readers -> 0..MaxCount] /\ left'[ks.running] = n
           /\ \A t \in (Writers \cup Readers) \ {ks.running} : left'[t] = left[t]
BY Now DEF SetLeft, DataOK

\* Steps of the processor and of other tasks: whoever is in a system call, and is
\* not running, stays where it is.
LEMMA QuietInv ==
    ASSUME Inv, SchedInv(ks'), SleepersMove(ks, ks', {}, {}), PcOK',
           \A t \in Tasks \ {idle_task} : pc'[t] = pc[t],
           ks.running = idle_task \/ pc[ks.running] = "user" \/ ks'.running = ks.running,
           q' \in RingState, ioq_length(q') = ioq_length(q),
           UNCHANGED <<iosema, producer, file_table_lock, left, got>>
    PROVE  Inv'
<1>1. \A t \in Tasks \ {idle_task} : Sleeps(ks', t) <=> Sleeps(ks, t)
  BY DEF SleepersMove
<1>2. DataOK'
  BY Now DEF DataOK
<1>3. \A t \in Tasks : pc[t] \in Labels \ {"user"} => t # idle_task
  BY Now DEF PcOK, Labels, IdleLabels
<1>4. \A t \in Tasks, l \in Labels \ {"user"} : pc'[t] = l <=> pc[t] = l
  BY Now DEF PcOK, Labels, IdleLabels
<1>5. WaitersOK'
  <2>1. \A t \in Tasks : elem_find(file_table_lock.waiters, t) =>
           pc[t] \in Labels \ {"user"} /\ t # idle_task
    BY <1>3, Now DEF WaitersOK, Labels
  <2> QED BY <1>1, <2>1, Now DEF WaitersOK
<1>6. RunOK'
  <2>1. \A t \in Tasks : pc'[t] \in {"put", "iodown", "take"} =>
           pc[t] = pc'[t] /\ t # idle_task
    BY <1>3, <1>4 DEF Labels
  <2> QED BY <2>1, Now DEF RunOK
<1>7. \A t \in Tasks : /\ pc'[t] \in Writing <=> pc[t] \in Writing
                       /\ pc'[t] = "slept" <=> pc[t] = "slept"
                       /\ pc'[t] = "take" <=> pc[t] = "take"
  BY <1>4 DEF Labels, Writing
<1>8. HolderOK' /\ SleptOK' /\ TakeOK'
  BY <1>7, Now DEF HolderOK, SleptOK, TakeOK
<1> QED BY <1>2, <1>5, <1>6, <1>8 DEF Inv

-----------------------------------------------------------------------------
(* The steps of the scheduler *)

LEMMA TimerInv == ASSUME Inv, Timer PROVE Inv'
<1>1. /\ IntrOn /\ ks' = intr_time_handle(ks) /\ pc' = IntrExit
      /\ UNCHANGED <<q, iosema, producer, file_table_lock, left, got>>
  BY DEF Timer, IntrTime, pipe
<1>2. SchedInv(ks') /\ SleepersMove(ks, ks', {}, {})
  BY <1>1, Now, TimeFacts, SleepersTime
<1>3. PcOK' /\ \A t \in Tasks \ {idle_task} : pc'[t] = pc[t]
  BY <1>1, Now DEF IntrExit, PcOK, Labels, Writing, IdleLabels
<1>4. ks.running = idle_task \/ pc[ks.running] = "user"
  BY <1>1, Now DEF IntrOn, PcOK
<1>5. q' \in RingState /\ ioq_length(q') = ioq_length(q)
  BY <1>1, Now DEF DataOK
<1> QED BY <1>1, <1>2, <1>3, <1>4, <1>5, QuietInv

LEMMA IdleStepsInv == ASSUME Inv, IdleSteps PROVE Inv'
<1>1. /\ UNCHANGED <<q, iosema, producer, file_table_lock, left, got>> /\ PcOK'
      /\ \A t \in Tasks \ {idle_task} : pc'[t] = pc[t]
  BY Now DEF IdleSteps, IdleBlock, IdleHlt, pipe, PcOK, Labels, Writing, IdleLabels
<1>2. ks.running = idle_task
  BY Now DEF IdleSteps, IdleBlock, IdleHlt, Running, PcOK, IdleLabels
<1>3. SchedInv(ks') /\ SleepersMove(ks, ks', {}, {})
  <2>1. CASE IdleHlt
    BY <2>1, Now DEF IdleHlt, SleepersMove
  <2>2. CASE IdleBlock
    <3>1. SchedInv(ks') /\ Blocked(ks, ks', "BLOCKED")
      BY <2>2, Now, BlockFacts DEF IdleBlock
    <3>2. SleepersMove(ks, ks', {}, {ks.running})
      BY <3>1, Now, SleepersBlocked
    <3> QED BY <1>2, <3>1, <3>2 DEF SleepersMove
  <2> QED BY <2>1, <2>2 DEF IdleSteps
<1>4. q' \in RingState /\ ioq_length(q') = ioq_length(q)
  BY <1>1, Now DEF DataOK
<1> QED BY <1>1, <1>2, <1>3, <1>4, QuietInv

LEMMA CloneInv == ASSUME Inv, NEW t \in Tasks, Clone(t) PROVE Inv'
<1>1. /\ pc[ks.running] = "user" /\ ks.status[t] = "DIED" /\ ks' = create_task(ks, t)
      /\ UNCHANGED <<pc, iosema, producer, file_table_lock, left, got>>
  BY DEF Clone, Running
<1>2. SchedInv(ks') /\ SleepersMove(ks, ks', {}, {})
  BY <1>1, Now, CreateFacts, SleepersCreate
<1>3. PcOK'
  BY <1>1, Now DEF PcOK
<1>4. q' \in RingState /\ ioq_length(q') = ioq_length(q)
  <2>1. q \in RingState
    BY Now DEF DataOK
  <2> QED BY <2>1, RingCloned DEF Clone
<1> QED BY <1>1, <1>2, <1>3, <1>4, QuietInv

-----------------------------------------------------------------------------
(* sys_write() *)

LEMMA CallInv ==
    ASSUME Inv, NEW n \in 1..MaxCount, CallWrite(n) \/ CallRead(n)
    PROVE  Inv'
<1> DEFINE r == ks.running
<1>1. PICK l \in {"wlock", "rlock"} :
         /\ pc[r] = "user" /\ SetLeft(n) /\ Goto(l)
         /\ UNCHANGED <<ks, q, iosema, producer, file_table_lock, got>>
         /\ l = "wlock" => r \in Writers
         /\ l = "rlock" => r \in Readers
  BY DEF CallWrite, CallRead, Running
<1>2. r \in Writers \cup Readers /\ r \in Tasks \ {idle_task}
  BY <1>1, Now
<1>3. PcOK' /\ pc'[r] = l /\ \A t \in Tasks \ {r} : pc'[t] = pc[t]
  BY <1>1, <1>2, Moved DEF Labels, Writing
<1>4. n \in 0..MaxCount
  BY PipeAssumption
<1>5. /\ left' \in [Writers \cup Readers -> 0..MaxCount]
      /\ \A t \in (Writers \cup Readers) \ {r} : left'[t] = left[t]
  BY <1>1, <1>2, <1>4, LeftSet
<1>6. UNCHANGED <<ks, q, iosema, producer, file_table_lock, got>>
  BY <1>1
<1>7. pc[r] = "user" /\ ~Sleeps(ks, r)
  BY <1>1, Now
<1> HIDE DEF r
<1>8. DataOK'
  BY <1>5, <1>6, Now DEF DataOK
<1>9. \A t \in Tasks : /\ pc'[t] \in Writing <=> pc[t] \in Writing
                       /\ pc'[t] = "slept" <=> pc[t] = "slept"
                       /\ pc'[t] \in {"put", "iodown", "take"} => pc[t] = pc'[t] /\ t # r
  BY <1>3, <1>7 DEF Writing
<1>10. WaitersOK'
  BY <1>3, <1>6, <1>7, Now DEF WaitersOK
<1>11. RunOK' /\ HolderOK' /\ SleptOK'
  BY <1>6, <1>9, Now DEF RunOK, HolderOK, SleptOK
<1>12. TakeOK'
  <2>1. \A t \in Tasks : pc'[t] = "take" => pc[t] = "take" /\ left'[t] = left[t]
    BY <1>5, <1>9, Now DEF PcOK
  <2> QED BY <1>6, <2>1, Now DEF TakeOK
<1> QED BY <1>3, <1>6, <1>8, <1>10, <1>11, <1>12, Now DEF Inv

LEMMA LockWaitInv == ASSUME Inv, LockWait PROVE Inv'
<1> DEFINE r == ks.running
<1>1. /\ Running("wlock") \/ Running("rlock")
      /\ file_table_lock.value = 0
      /\ file_table_lock' = sema_wait(file_table_lock, r)
      /\ ks' = sema_wait_sched(ks, file_table_lock)
      /\ UNCHANGED <<pc, q, iosema, producer, left, got>>
  BY DEF LockWait
<1>2. r \in Tasks \ {idle_task} /\ pc[r] \in {"wlock", "rlock"}
  BY <1>1, Inside DEF Labels
<1>3. /\ SchedInv(ks') /\ SleepersMove(ks, ks', {}, {r})
      /\ file_table_lock' \in SemaState /\ file_table_lock'.value = file_table_lock.value
      /\ NoDuplicates(file_table_lock'.waiters)
      /\ \A u : elem_find(file_table_lock'.waiters, u) <=>
                  elem_find(file_table_lock.waiters, u) \/ u = r
  BY <1>1, <1>2, Now, SleepersWait, ZenonT(60) DEF WaitersOK, DataOK
<1>4. \A t \in Tasks \ {idle_task} : Sleeps(ks', t) <=> Sleeps(ks, t) \/ t = r
  BY <1>3 DEF SleepersMove
<1>5. UNCHANGED <<pc, q, iosema, producer, left, got>>
  BY <1>1
<1>6. \A t \in Tasks : pc[t] \notin {"put", "iodown", "take"}
  BY <1>2, Now DEF RunOK
<1> HIDE DEF r
<1>7. PcOK' /\ DataOK'
  BY <1>3, <1>5, Now DEF PcOK, DataOK
<1>8. WaitersOK'
  <2>1. \A t \in Tasks : elem_find(file_table_lock.waiters, t) => t # idle_task
    BY Now DEF WaitersOK, PcOK, IdleLabels
  <2> QED BY <1>2, <1>3, <1>4, <1>5, <2>1, Now DEF WaitersOK
<1>9. RunOK' /\ TakeOK'
  BY <1>5, <1>6 DEF RunOK, TakeOK
<1>10. HolderOK' /\ SleptOK'
  BY <1>3, <1>5, Now DEF HolderOK, SleptOK
<1> QED BY <1>3, <1>7, <1>8, <1>9, <1>10 DEF Inv

LEMMA WriteLockedInv == ASSUME Inv, WriteLocked PROVE Inv'
<1> DEFINE r == ks.running
           n == IF ioq_left > left[r] THEN left[r] ELSE ioq_left
<1>1. /\ Running("wlock") /\ file_table_lock.value # 0
      /\ file_table_lock' = sema_take(file_table_lock)
      /\ ks' = sema_take_sched(ks, file_table_lock)
      /\ SetLeft(n) /\ Goto("put") /\ UNCHANGED <<q, iosema, producer, got>>
  BY DEF WriteLocked
<1>2. /\ r \in Writers /\ r \in Tasks \ {idle_task} /\ pc[r] = "wlock"
      /\ ~elem_find(file_table_lock.waiters, r)
  BY <1>1, Inside DEF Labels
<1>3. /\ ks' = ks /\ file_table_lock' \in SemaState /\ file_table_lock'.value = 0
      /\ file_table_lock'.waiters = file_table_lock.waiters
  BY <1>1, Now, SemaTakeFacts DEF DataOK
<1>4. n \in 0..MaxCount
  <2>1. left[r] \in 0..MaxCount /\ ioq_length(q) \in 0..bufsize - 1
    BY <1>2, Now, RingFields DEF DataOK
  <2> QED BY <2>1, IoQueueAssumption, PipeAssumption DEF ioq_left
<1>5. left' \in [Writers \cup Readers -> 0..MaxCount]
  <2> HIDE DEF n
  <2> QED BY <1>1, <1>2, <1>4, LeftSet
<1>6. PcOK' /\ pc'[r] = "put" /\ \A t \in Tasks \ {r} : pc'[t] = pc[t]
  BY <1>1, <1>2, Moved DEF Labels, Writing
<1>7. /\ \A t \in Tasks : pc[t] \notin Writing
      /\ \A t \in Tasks \ {r} : pc[t] # "take"
  BY <1>1, Now DEF HolderOK, RunOK
<1>8. ks'.running = r /\ UNCHANGED <<q, iosema, producer, got>>
  BY <1>1, <1>3
<1> HIDE DEF r, n
<1>9. DataOK'
  BY <1>3, <1>5, <1>8, Now DEF DataOK
<1>10. WaitersOK'
  BY <1>2, <1>3, <1>6, Now DEF WaitersOK
<1>11. RunOK' /\ TakeOK'
  BY <1>6, <1>7, <1>8 DEF RunOK, TakeOK, Writing
<1>12. HolderOK' /\ SleptOK'
  BY <1>3, <1>6, <1>7, <1>8, Now DEF HolderOK, SleptOK, Writing
<1> QED BY <1>3, <1>6, <1>9, <1>10, <1>11, <1>12, Now DEF Inv

\* Who writes is the running task, and nobody reads.
LEMMA WriterAlone ==
    ASSUME Inv, NEW l \in {"put", "iodown"}, Running(l)
    PROVE  /\ ks.running \in Writers /\ ks.running \in Tasks \ {idle_task}
           /\ pc[ks.running] = l /\ file_table_lock.value = 0
           /\ ~elem_find(file_table_lock.waiters, ks.running)
           /\ \A t \in Tasks \ {ks.running} :
                 pc[t] \notin Writing /\ pc[t] # "take"
           /\ iosema.value # 0 /\ producer = {}
<1>1. /\ ks.running \in Writers /\ ks.running \in Tasks \ {idle_task}
      /\ pc[ks.running] = l /\ ~elem_find(file_table_lock.waiters, ks.running)
  BY Inside DEF Labels, Writing
<1>2. /\ file_table_lock.value = 0
      /\ \A t \in Tasks \ {ks.running} : pc[t] \notin Writing
  BY <1>1, Now DEF HolderOK, Writing
<1>3. \A t \in Tasks \ {ks.running} : pc[t] # "take"
  BY Now DEF RunOK
<1>4. \A t \in Tasks : pc[t] # "slept"
  BY <1>1, <1>2 DEF Writing
<1>5. iosema.value # 0 /\ producer = {}
  BY <1>4, Now DEF SleptOK
<1> QED BY <1>1, <1>2, <1>3, <1>5

LEMMA PutByteInv == ASSUME Inv, NEW b \in Bytes, PutByte(b) PROVE Inv'
<1> DEFINE r == ks.running
<1>1. /\ Running("put") /\ left[r] > 0 /\ ~ioq_full(q)
      /\ q' = ring_put(q, b) /\ SetLeft(left[r] - 1)
      /\ UNCHANGED <<ks, pc, iosema, producer, file_table_lock, got>>
  BY DEF PutByte
<1>2. r \in Writers /\ pc[r] = "put" /\ \A t \in Tasks \ {r} : pc[t] # "take"
  BY <1>1, WriterAlone
<1>3. left[r] - 1 \in 0..MaxCount
  BY <1>1, <1>2, PipeAssumption, Now DEF DataOK
<1>4. left' \in [Writers \cup Readers -> 0..MaxCount]
  BY <1>1, <1>2, <1>3, LeftSet
<1>5. q' \in RingState
  BY <1>1, Now, RingPut DEF DataOK
<1>6. UNCHANGED <<ks, pc, iosema, producer, file_table_lock, got>>
  BY <1>1
<1> HIDE DEF r
<1>7. PcOK' /\ DataOK'
  BY <1>4, <1>5, <1>6, Now DEF PcOK, DataOK
<1>8. WaitersOK' /\ RunOK' /\ HolderOK' /\ SleptOK'
  BY <1>6, Now DEF WaitersOK, RunOK, HolderOK, SleptOK
<1>9. TakeOK'
  BY <1>2, <1>6 DEF TakeOK
<1> QED BY <1>6, <1>7, <1>8, <1>9, Now DEF Inv

LEMMA PutFullInv == ASSUME Inv, PutFull PROVE Inv'
<1> DEFINE r == ks.running
<1>1. /\ Running("put") /\ Goto("iodown")
      /\ UNCHANGED <<ks, q, iosema, producer, file_table_lock, left, got>>
  BY DEF PutFull, pipe
<1>2. /\ r \in Writers /\ r \in Tasks \ {idle_task} /\ pc[r] = "put"
      /\ ~elem_find(file_table_lock.waiters, r) /\ iosema.value # 0 /\ producer = {}
      /\ file_table_lock.value = 0
      /\ \A t \in Tasks \ {r} : pc[t] \notin Writing /\ pc[t] # "take"
  BY <1>1, WriterAlone
<1>3. PcOK' /\ pc'[r] = "iodown" /\ \A t \in Tasks \ {r} : pc'[t] = pc[t]
  BY <1>1, <1>2, Moved DEF Labels, Writing
<1>4. ks'.running = r /\ UNCHANGED <<ks, q, iosema, producer, file_table_lock, left, got>>
  BY <1>1
<1> HIDE DEF r
<1>5. DataOK'
  BY <1>4, Now DEF DataOK
<1>6. WaitersOK'
  BY <1>2, <1>3, <1>4, Now DEF WaitersOK
<1>7. RunOK' /\ HolderOK' /\ SleptOK' /\ TakeOK'
  BY <1>2, <1>3, <1>4 DEF RunOK, HolderOK, SleptOK, TakeOK, Writing
<1> QED BY <1>3, <1>4, <1>5, <1>6, <1>7, Now DEF Inv

\* iosema is up and producer is NULL, because no other writer sleeps.
LEMMA ioq_waitInv == ASSUME Inv, ioq_wait PROVE Inv'
<1> DEFINE r == ks.running
<1>1. /\ Running("iodown") /\ iosema' = sema_take(iosema) /\ producer' = {r}
      /\ ks' = task_block(ASSERT(sema_take_sched(ks, iosema), producer = {}), "BLOCKED")
      /\ Goto("slept") /\ UNCHANGED <<q, file_table_lock, left, got>>
  BY DEF ioq_wait
<1>2. /\ r \in Writers /\ r \in Tasks \ {idle_task} /\ pc[r] = "iodown"
      /\ ~elem_find(file_table_lock.waiters, r) /\ iosema.value # 0 /\ producer = {}
      /\ file_table_lock.value = 0
      /\ \A t \in Tasks \ {r} : pc[t] \notin Writing /\ pc[t] # "take"
  BY <1>1, WriterAlone
<1>3. sema_take_sched(ks, iosema) = ks /\ iosema' \in SemaState
  BY <1>1, <1>2, Now, SemaTakeFacts DEF DataOK
<1>4. SchedInv(ks') /\ SleepersMove(ks, ks', {}, {r})
  <2>1. (producer = {}) = TRUE
    BY <1>2
  <2>2. ASSERT(ks, TRUE) = ks
    BY Now, AssertTrue
  <2>3. ks' = task_block(ks, "BLOCKED")
    BY <1>1, <1>3, <2>1, <2>2
  <2>4. SchedInv(ks') /\ Blocked(ks, ks', "BLOCKED")
    BY <2>3, Now, BlockFacts
  <2> QED BY <2>4, Now, SleepersBlocked
<1>5. \A t \in Tasks \ {idle_task} : Sleeps(ks', t) <=> Sleeps(ks, t) \/ t = r
  BY <1>4 DEF SleepersMove
<1>6. PcOK' /\ pc'[r] = "slept" /\ \A t \in Tasks \ {r} : pc'[t] = pc[t]
  BY <1>1, <1>2, Moved DEF Labels, Writing
<1>7. producer' = {r} /\ UNCHANGED <<q, file_table_lock, left, got>>
  BY <1>1
<1> HIDE DEF r
<1>8. DataOK'
  BY <1>2, <1>3, <1>7, Now DEF DataOK
<1>9. WaitersOK'
  <2>1. \A t \in Tasks : elem_find(file_table_lock.waiters, t) => t # idle_task
    BY Now DEF WaitersOK, PcOK, IdleLabels
  <2> QED BY <1>2, <1>5, <1>6, <1>7, <2>1, Now DEF WaitersOK
<1>10. RunOK' /\ HolderOK' /\ SleptOK' /\ TakeOK'
  BY <1>2, <1>6, <1>7 DEF RunOK, HolderOK, SleptOK, TakeOK, Writing
<1> QED BY <1>4, <1>6, <1>8, <1>9, <1>10 DEF Inv

\* sema_up() of file_table_lock wakes a task that waits for it and no other.
LEMMA LockUp ==
    ASSUME Inv, NEW s \in SemaState, s.value = 0, s.waiters = file_table_lock.waiters,
           file_table_lock' = sema_up(s), ks' = sema_up_sched(ks, s)
    PROVE  /\ SchedInv(ks') /\ ks'.running = ks.running
           /\ file_table_lock' \in SemaState /\ file_table_lock'.value = 1
           /\ NoDuplicates(file_table_lock'.waiters)
           /\ \A t \in Tasks : elem_find(file_table_lock'.waiters, t) =>
                 elem_find(file_table_lock.waiters, t) /\ Sleeps(ks', t)
<1> DEFINE woken == {u \in Tasks : elem_find(s.waiters, u) /\ ~elem_find(sema_up(s).waiters, u)}
<1>1. /\ SchedInv(ks') /\ ks'.running = ks.running /\ SleepersMove(ks, ks', woken, {})
      /\ file_table_lock' \in SemaState /\ file_table_lock'.value = 1
      /\ NoDuplicates(file_table_lock'.waiters)
      /\ \A u : elem_find(file_table_lock'.waiters, u) => elem_find(s.waiters, u)
  BY Now, SleepersUp, ZenonT(60) DEF WaitersOK
<1>2. \A t \in Tasks \ {idle_task} :
         Sleeps(ks', t) <=>
            Sleeps(ks, t) /\ ~(elem_find(s.waiters, t) /\ ~elem_find(file_table_lock'.waiters, t))
  BY <1>1 DEF SleepersMove
<1>3. \A t \in Tasks : elem_find(s.waiters, t) => t # idle_task /\ Sleeps(ks, t)
  BY Now DEF WaitersOK, PcOK, IdleLabels
<1> QED BY <1>1, <1>2, <1>3

LEMMA WriteRetInv == ASSUME Inv, WriteRet PROVE Inv'
<1> DEFINE r == ks.running
<1>1. /\ Running("put") /\ file_table_lock' = sema_up(file_table_lock)
      /\ ks' = sema_up_sched(ks, file_table_lock)
      /\ Goto("user") /\ UNCHANGED <<q, iosema, producer, left, got>>
  BY DEF WriteRet
<1>2. /\ r \in Writers /\ r \in Tasks \ {idle_task}
      /\ ~elem_find(file_table_lock.waiters, r) /\ iosema.value # 0 /\ producer = {}
      /\ file_table_lock.value = 0
      /\ \A t \in Tasks \ {r} : pc[t] \notin Writing /\ pc[t] # "take"
  BY <1>1, WriterAlone
<1>3. /\ SchedInv(ks') /\ file_table_lock' \in SemaState
      /\ NoDuplicates(file_table_lock'.waiters)
      /\ \A t \in Tasks : elem_find(file_table_lock'.waiters, t) =>
            elem_find(file_table_lock.waiters, t) /\ Sleeps(ks', t)
  BY <1>1, <1>2, Now, LockUp DEF DataOK
<1>4. PcOK' /\ pc'[r] = "user" /\ \A t \in Tasks \ {r} : pc'[t] = pc[t]
  BY <1>1, <1>2, Moved DEF Labels, Writing
<1>5. UNCHANGED <<q, iosema, producer, left, got>>
  BY <1>1
<1> HIDE DEF r
<1>6. DataOK'
  BY <1>3, <1>5, Now DEF DataOK
<1>7. WaitersOK'
  BY <1>2, <1>3, <1>4, Now DEF WaitersOK
<1>8. RunOK' /\ HolderOK' /\ SleptOK' /\ TakeOK'
  BY <1>2, <1>4, <1>5 DEF RunOK, HolderOK, SleptOK, TakeOK, Writing
<1> QED BY <1>3, <1>4, <1>6, <1>7, <1>8 DEF Inv

-----------------------------------------------------------------------------
(* sys_read() *)

LEMMA ReadLockedInv == ASSUME Inv, ReadLocked PROVE Inv'
<1> DEFINE r == ks.running
           s == sema_take(file_table_lock)
           n == ReadSize(left[r])
<1>1. /\ Running("rlock") /\ file_table_lock.value # 0
      /\ ks' = sema_up_sched(sema_take_sched(ks, file_table_lock), s)
      /\ file_table_lock' = sema_up(s)
      /\ SetLeft(n) /\ Goto("take") /\ UNCHANGED <<q, iosema, producer, got>>
  BY DEF ReadLocked
<1>2. /\ r \in Readers /\ r \in Tasks \ {idle_task} /\ pc[r] = "rlock"
      /\ ~elem_find(file_table_lock.waiters, r)
  BY <1>1, Inside DEF Labels
<1>3. /\ sema_take_sched(ks, file_table_lock) = ks /\ s \in SemaState /\ s.value = 0
      /\ s.waiters = file_table_lock.waiters
  BY <1>1, Now, SemaTakeFacts DEF DataOK
<1>4. /\ ks' = sema_up_sched(ks, s) /\ file_table_lock' = sema_up(s)
  BY <1>1, <1>3
<1>5. n \in 0..MaxCount /\ n <= ioq_length(q)
  <2>1. left[r] \in 0..MaxCount /\ ioq_length(q) \in 0..bufsize - 1
    BY <1>2, Now, RingFields DEF DataOK
  <2> QED BY <2>1, IoQueueAssumption, PipeAssumption DEF ReadSize
<1> HIDE DEF s, n
<1>6. /\ SchedInv(ks') /\ ks'.running = r /\ file_table_lock' \in SemaState
      /\ file_table_lock'.value = 1 /\ NoDuplicates(file_table_lock'.waiters)
      /\ \A t \in Tasks : elem_find(file_table_lock'.waiters, t) =>
            elem_find(file_table_lock.waiters, t) /\ Sleeps(ks', t)
  BY <1>3, <1>4, LockUp
<1>7. left' \in [Writers \cup Readers -> 0..MaxCount] /\ left'[r] = n
  BY <1>1, <1>2, <1>5, LeftSet
<1>8. PcOK' /\ pc'[r] = "take" /\ \A t \in Tasks \ {r} : pc'[t] = pc[t]
  BY <1>1, <1>2, Moved DEF Labels, Writing
<1>9. /\ \A t \in Tasks : pc[t] \notin Writing
      /\ \A t \in Tasks \ {r} : pc[t] # "take"
  BY <1>1, Now DEF HolderOK, RunOK
<1>10. UNCHANGED <<q, iosema, producer, got>>
  BY <1>1
<1> HIDE DEF r
<1>11. DataOK'
  BY <1>6, <1>7, <1>10, Now DEF DataOK
<1>12. WaitersOK'
  BY <1>2, <1>6, <1>8, Now DEF WaitersOK
<1>13. RunOK' /\ HolderOK'
  BY <1>6, <1>8, <1>9 DEF RunOK, HolderOK, Writing
<1>14. SleptOK'
  BY <1>9, <1>10, Now DEF SleptOK, Writing
<1>15. TakeOK'
  BY <1>5, <1>6, <1>7, <1>8, <1>9, <1>10 DEF TakeOK
<1> QED BY <1>6, <1>8, <1>11, <1>12, <1>13, <1>14, <1>15 DEF Inv

\* Nobody sleeps as a producer while somebody reads: there is nobody to wake.
LEMMA ReaderAlone ==
    ASSUME Inv, Running("take")
    PROVE  /\ ks.running \in Readers /\ ks.running \in Tasks \ {idle_task}
           /\ pc[ks.running] = "take" /\ ~elem_find(file_table_lock.waiters, ks.running)
           /\ file_table_lock.value = 1 /\ left[ks.running] <= ioq_length(q)
           /\ \A t \in Tasks : pc[t] \notin Writing
           /\ \A t \in Tasks \ {ks.running} : pc[t] # "take"
           /\ iosema.value # 0 /\ producer = {}
<1>1. /\ ks.running \in Readers /\ ks.running \in Tasks \ {idle_task}
      /\ pc[ks.running] = "take" /\ ~elem_find(file_table_lock.waiters, ks.running)
  BY Inside DEF Labels
<1>2. file_table_lock.value = 1 /\ left[ks.running] <= ioq_length(q)
  BY <1>1, Now DEF TakeOK
<1>3. /\ \A t \in Tasks : pc[t] \notin Writing
      /\ \A t \in Tasks \ {ks.running} : pc[t] # "take"
  BY <1>2, Now DEF HolderOK, RunOK
<1>4. iosema.value # 0 /\ producer = {}
  BY <1>3, Now DEF SleptOK, Writing
<1> QED BY <1>1, <1>2, <1>3, <1>4

LEMMA TakeByteInv == ASSUME Inv, TakeByte PROVE Inv'
<1> DEFINE r == ks.running
<1>1. /\ Running("take") /\ left[r] > 0 /\ ~ioq_empty(q)
      /\ got' = [got EXCEPT ![r] = ring_byte(q)] /\ q' = ring_get(q)
      /\ ks' = wakeup(ks, producer) /\ producer' = {} /\ SetLeft(left[r] - 1)
      /\ UNCHANGED <<pc, iosema, file_table_lock>>
  BY DEF TakeByte
<1>2. /\ r \in Readers /\ r \in Tasks \ {idle_task} /\ pc[r] = "take"
      /\ left[r] <= ioq_length(q) /\ producer = {}
      /\ \A t \in Tasks \ {r} : pc[t] # "take"
  BY <1>1, ReaderAlone
<1>3. ks' = ks /\ producer' = producer
  BY <1>1, <1>2 DEF wakeup
<1>4. left[r] \in 0..MaxCount /\ left[r] - 1 \in 0..MaxCount
  BY <1>1, <1>2, PipeAssumption, Now DEF DataOK
<1>5. left' \in [Writers \cup Readers -> 0..MaxCount] /\ left'[r] = left[r] - 1
  BY <1>1, <1>2, <1>4, LeftSet
<1>6. /\ q' \in RingState /\ ring_byte(q) \in Bytes /\ ioq_length(q') = ioq_length(q) - 1
      /\ ioq_length(q) \in Nat
  <2>1. q \in RingState
    BY Now DEF DataOK
  <2>2. ioq_length(q) \in 0..bufsize - 1 /\ bufsize \in Nat
    BY <2>1, RingFields
  <2> QED BY <1>1, <2>1, <2>2, RingGet
<1>7. got' \in [Readers -> Bytes]
  BY <1>1, <1>6, Now DEF DataOK
<1>8. UNCHANGED <<ks, pc, iosema, producer, file_table_lock>>
  BY <1>1, <1>3
<1> HIDE DEF r
<1>9. PcOK' /\ DataOK'
  BY <1>5, <1>6, <1>7, <1>8, Now DEF PcOK, DataOK
<1>10. WaitersOK' /\ RunOK' /\ HolderOK' /\ SleptOK'
  BY <1>8, Now DEF WaitersOK, RunOK, HolderOK, SleptOK
<1>11. TakeOK'
  BY <1>2, <1>4, <1>5, <1>6, <1>8, Now DEF TakeOK
<1> QED BY <1>8, <1>9, <1>10, <1>11, Now DEF Inv

LEMMA ReadRetInv == ASSUME Inv, ReadRet PROVE Inv'
<1> DEFINE r == ks.running
<1>1. /\ Running("take") /\ Goto("user")
      /\ UNCHANGED <<ks, q, iosema, producer, file_table_lock, left, got>>
  BY DEF ReadRet, pipe
<1>2. /\ r \in Tasks \ {idle_task} /\ ~elem_find(file_table_lock.waiters, r)
      /\ iosema.value # 0 /\ producer = {} /\ \A t \in Tasks : pc[t] \notin Writing
      /\ \A t \in Tasks \ {r} : pc[t] # "take"
  BY <1>1, ReaderAlone
<1>3. PcOK' /\ pc'[r] = "user" /\ \A t \in Tasks \ {r} : pc'[t] = pc[t]
  BY <1>1, <1>2, Moved DEF Labels, Writing
<1>4. UNCHANGED <<ks, q, iosema, producer, file_table_lock, left, got>>
  BY <1>1
<1> HIDE DEF r
<1>5. DataOK'
  BY <1>4, Now DEF DataOK
<1>6. WaitersOK'
  BY <1>2, <1>3, <1>4, Now DEF WaitersOK
<1>7. RunOK' /\ HolderOK' /\ SleptOK' /\ TakeOK'
  BY <1>2, <1>3, <1>4 DEF RunOK, HolderOK, SleptOK, TakeOK, Writing
<1> QED BY <1>3, <1>4, <1>5, <1>6, <1>7, Now DEF Inv

-----------------------------------------------------------------------------
(* Theorems *)

LEMMA NextInv == ASSUME Inv, [Next]_vars PROVE Inv'
<1>1. CASE KernelStep
  BY <1>1, LockWaitInv, WriteLockedInv, PutByteInv, PutFullInv, ioq_waitInv, WriteRetInv,
     ReadLockedInv, TakeByteInv, ReadRetInv DEF KernelStep
<1>2. CASE Timer \/ IdleSteps
  BY <1>2, TimerInv, IdleStepsInv
<1>3. CASE Call
  BY <1>3, CallInv DEF Call
<1>4. CASE \E t \in Tasks : Clone(t)
  BY <1>4, CloneInv
<1>5. CASE UNCHANGED vars
  <2>1. UNCHANGED <<ks, pc, q, iosema, producer, file_table_lock, left, got>>
    BY <1>5 DEF vars
  <2>2. /\ PcOK' /\ SchedInv(ks') /\ SleepersMove(ks, ks', {}, {})
        /\ q' \in RingState /\ ioq_length(q') = ioq_length(q)
    BY <2>1, Now DEF PcOK, DataOK, SleepersMove
  <2> QED BY <2>1, <2>2, QuietInv
<1> QED BY <1>1, <1>2, <1>3, <1>4, <1>5 DEF Next

\* The inductive invariant holds in every reachable state of pipe_write() and
\* pipe_read().
THEOREM PipeInvariant == Spec => []Inv
<1>1. Inv /\ [Next]_vars => Inv'
  BY NextInv
<1> QED BY <1>1, InitInv, PTL DEF Spec

\* pipe_read() never gets into the waiting loop of ioq_getchar(), and no ASSERT on
\* the way of a read or a write fails.
THEOREM PipeReadNeverWaits == Spec => []ReadNeverWaits
<1>1. ASSUME Inv PROVE ReadNeverWaits
  <2>1. TypeOK /\ ~ks.panic
    BY <1>1, Now DEF TypeOK, PcOK, DataOK, SchedInv
  <2>2. \A t \in Readers : pc[t] = "take" => left[t] <= ioq_length(q)
    BY <1>1, Now DEF TakeOK
  <2> QED BY <2>1, <2>2 DEF ReadNeverWaits
<1> QED BY <1>1, PipeInvariant, PTL

\* Between the first and the last byte of a write, sleep included, its task is the
\* only one inside pipe_write().
THEOREM PipeWritesNotMixed == Spec => []WritesNotMixed
<1>1. ASSUME Inv PROVE WritesNotMixed
  BY <1>1, Now DEF HolderOK, Writing, WritesNotMixed
<1> QED BY <1>1, PipeInvariant, PTL

\* Every step of the writers and readers is a step of a bounded queue, or leaves the
\* queue alone: PutByte puts a byte and TakeByte gets one.  Clone may change one byte.
LEMMA FifoStep ==
    ASSUME Inv, [Next]_vars
    PROVE  [Fifo!Next \/ ByteCloned]_<<Contents(q), got>>
<1>1. q \in RingState
  BY Now DEF DataOK
<1>2. CASE \E b \in Bytes : PutByte(b)
  <2>1. PICK b \in Bytes : PutByte(b)
    BY <1>2
  <2>2. ~ioq_full(q) /\ q' = ring_put(q, b) /\ got' = got
    BY <2>1 DEF PutByte
  <2>3. /\ Contents(ring_put(q, b)) = Append(Contents(q), b)
        /\ Len(Contents(q)) < bufsize - 1
    BY <1>1, <2>2, RingPut, ZenonT(60)
  <2>4. Contents(q)' = Append(Contents(q), b)
    BY <2>2, <2>3 DEF Contents, ioq_length
  <2>5. Fifo!Put(b)
    BY <2>2, <2>3, <2>4 DEF Fifo!Put
  <2> QED BY <2>5 DEF Fifo!Next
<1>3. CASE TakeByte
  <2>1. /\ Running("take") /\ ~ioq_empty(q) /\ q' = ring_get(q)
        /\ got' = [got EXCEPT ![ks.running] = ring_byte(q)]
    BY <1>3 DEF TakeByte
  <2>2. ks.running \in Readers
    BY <2>1, Inside DEF Labels
  <2>3. /\ Contents(q) # <<>> /\ ring_byte(q) = Head(Contents(q))
        /\ Contents(ring_get(q)) = Tail(Contents(q))
    BY <1>1, <2>1, RingGet, ZenonT(60)
  <2>4. Contents(q)' = Tail(Contents(q))
    BY <2>1, <2>3 DEF Contents, ioq_length
  <2>5. Fifo!Get(ks.running)
    BY <2>1, <2>3, <2>4 DEF Fifo!Get
  <2> QED BY <2>2, <2>5 DEF Fifo!Next
<1>4. CASE UNCHANGED <<q, got>>
  <2>1. Contents(q)' = Contents(q)
    BY <1>4 DEF Contents, ioq_length
  <2> QED BY <1>4, <2>1
<1>5. CASE \E t \in Tasks : Clone(t)
  <2>1. /\ got' = got
        /\ open_cnts_pos >= bufsize => q' = q
        /\ open_cnts_pos < bufsize =>
              q' = [q EXCEPT !.buf[open_cnts_pos] = (@ + 2) % Cardinality(Bytes)]
    BY <1>5, PipeAssumption, IoQueueAssumption DEF Clone
  <2>2. CASE q' = q
    BY <1>4, <2>1, <2>2
  <2>3. CASE q' # q
    <3>1. open_cnts_pos < bufsize
      BY <2>1, <2>3, PipeAssumption, IoQueueAssumption
    <3> DEFINE n == [q EXCEPT !.buf[open_cnts_pos] = (@ + 2) % Cardinality(Bytes)]
    <3>2. /\ q' = n /\ ioq_length(n) = ioq_length(q)
          /\ \A i \in 1..ioq_length(q) :
                (q.tail + i - 1) % bufsize # open_cnts_pos => Contents(n)[i] = Contents(q)[i]
      BY <1>1, <2>1, <3>1, RingCloned
    <3> HIDE DEF n
    <3>3. \E t \in Tasks : ks.status[t] = "DIED" /\ ks'.status[t] # "DIED"
      <4>1. PICK t \in Tasks : ks.status[t] = "DIED" /\ ks' = create_task(ks, t)
        BY <1>5 DEF Clone
      <4>2. ks'.status[t] = "READY"
        <5>1. ks'.status = [ks.status EXCEPT ![t] = "READY"]
          BY <4>1, Now, CreateFacts
        <5>2. ks.status \in [Tasks -> Status]
          BY Now, StateFields
        <5> QED BY <5>1, <5>2
      <4> QED BY <4>1, <4>2
    <3>4. ByteCloned
      BY <2>1, <3>2, <3>3 DEF ByteCloned
    <3> QED BY <3>4
  <2> QED BY <2>2, <2>3
<1>6. \/ UNCHANGED <<q, got>> \/ TakeByte
      \/ \E b \in Bytes : PutByte(b)
      \/ \E t \in Tasks : Clone(t)
  BY DEF Next, vars, pipe, Timer, IdleSteps, KernelStep, Call, CallWrite, CallRead, LockWait,
         WriteLocked, PutFull, ioq_wait, WriteRet, ReadLocked, ReadRet
<1> QED BY <1>2, <1>3, <1>4, <1>5, <1>6

\* The pipe delivers every byte that was written once and in order, and never holds
\* more than bufsize - 1 of them; and no byte is changed but the one that a clone()
\* takes for open_cnts.
THEOREM PipeQueueButForClone == Spec => QueueButForClone
<1>1. Init => Fifo!Init
  <2>1. (CHOOSE b \in Bytes : TRUE) \in Bytes
    BY IoQueueAssumption
  <2> QED BY <2>1, InitRing DEF Init, Fifo!Init
<1>2. Inv /\ [Next]_vars => [Fifo!Next \/ ByteCloned]_<<Contents(q), got>>
  BY FifoStep
<1> QED BY <1>1, <1>2, PipeInvariant, PTL DEF Spec, QueueButForClone
=============================================================================
