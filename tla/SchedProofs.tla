----------------------------- MODULE SchedProofs -----------------------------
(***************************************************************************)
(* The functions of task/task.c, task/sync.c and device/timer.c preserve   *)
(* SchedInv, and those of device/ioqueue.c add to and take from a queue of *)
(* bytes.  These lemmas are about the states of the scheduler, a semaphore *)
(* and a ring, not about behaviours, so the proof of every component that  *)
(* calls the functions cites them.  At the end the behaviours of module    *)
(* Task: its type invariant, the soundness of the run queue, that no       *)
(* ASSERT of the scheduler fails and that nobody is bypassed for ever, for *)
(* any set of tasks and any time slice.                                    *)
(***************************************************************************)
EXTENDS Task, Sema, IoQueue, FiniteSetTheorems, SequenceTheorems, TLAPS

USE SchedAssumption

\* list_append() at the end of a list adds just its argument.
LEMMA AppendFacts ==
    ASSUME NEW list \in Seq(Tasks), NEW t \in Tasks
    PROVE  /\ list_append(list, t) \in Seq(Tasks)
           /\ list_append(list, t) # <<>>
           /\ \A u : elem_find(list_append(list, t), u) <=> elem_find(list, u) \/ u = t
           /\ ~elem_find(list, t) /\ NoDuplicates(list)
                => NoDuplicates(list_append(list, t))
<1> DEFINE l == list_append(list, t)
<1>1. /\ l \in Seq(Tasks) /\ Len(l) = Len(list) + 1 /\ l[Len(list) + 1] = t
      /\ \A i \in 1..Len(list) : l[i] = list[i]
  BY DEF list_append
<1>2. DOMAIN l = 1..Len(list) + 1 /\ DOMAIN list = 1..Len(list) /\ Len(list) \in Nat
  BY <1>1
<1> HIDE DEF l
<1>3. l # <<>>
  BY <1>1, <1>2
<1>4. \A u : elem_find(l, u) <=> elem_find(list, u) \/ u = t
  BY <1>1, <1>2 DEF elem_find
<1>5. ~elem_find(list, t) /\ NoDuplicates(list) => NoDuplicates(l)
  BY <1>1, <1>2 DEF elem_find, NoDuplicates
<1> QED BY <1>1, <1>3, <1>4, <1>5 DEF l

\* The parts of AppendFacts, for the provers to cite one by one.
LEMMA AppendSeq ==
    ASSUME NEW list \in Seq(Tasks), NEW t \in Tasks
    PROVE  list_append(list, t) \in Seq(Tasks) /\ list_append(list, t) # <<>>
BY AppendFacts

LEMMA AppendElems ==
    ASSUME NEW list \in Seq(Tasks), NEW t \in Tasks
    PROVE  \A u : elem_find(list_append(list, t), u) <=> elem_find(list, u) \/ u = t
BY AppendFacts

LEMMA AppendNoDuplicates ==
    ASSUME NEW list \in Seq(Tasks), NEW t \in Tasks,
           ~elem_find(list, t), NoDuplicates(list)
    PROVE  NoDuplicates(list_append(list, t))
BY AppendFacts

\* list_push() at the front of a list adds just its argument.
LEMMA PushFacts ==
    ASSUME NEW list \in Seq(Tasks), NEW t \in Tasks
    PROVE  /\ list_push(list, t) \in Seq(Tasks)
           /\ list_push(list, t) # <<>>
           /\ \A u : elem_find(list_push(list, t), u) <=> elem_find(list, u) \/ u = t
           /\ ~elem_find(list, t) /\ NoDuplicates(list)
                => NoDuplicates(list_push(list, t))
<1> DEFINE l == list_push(list, t)
<1>1. /\ l \in Seq(Tasks) /\ Len(l) = Len(list) + 1 /\ l[1] = t
      /\ \A i \in 1..Len(list) : l[i + 1] = list[i]
  BY DEF list_push
<1>2. DOMAIN l = 1..Len(list) + 1 /\ DOMAIN list = 1..Len(list) /\ Len(list) \in Nat
  BY <1>1
<1>3. \A i \in 2..Len(list) + 1 : l[i] = list[i - 1] /\ i - 1 \in 1..Len(list)
  BY <1>1, <1>2 DEF list_push
<1> HIDE DEF l
<1>4. l # <<>>
  BY <1>1, <1>2
<1>5. \A u : elem_find(l, u) <=> elem_find(list, u) \/ u = t
  <2> SUFFICES ASSUME NEW u PROVE elem_find(l, u) <=> elem_find(list, u) \/ u = t
    OBVIOUS
  <2>1. ASSUME elem_find(l, u), u # t PROVE elem_find(list, u)
    <3>1. PICK i \in 1..Len(list) + 1 : l[i] = u
      BY <2>1, <1>2 DEF elem_find
    <3>2. i \in 2..Len(list) + 1
      BY <3>1, <2>1, <1>1, <1>2
    <3> QED BY <3>1, <3>2, <1>3, <1>2 DEF elem_find
  <2>2. ASSUME elem_find(list, u) PROVE elem_find(l, u)
    <3>1. PICK i \in 1..Len(list) : list[i] = u
      BY <2>2, <1>2 DEF elem_find
    <3>2. i + 1 \in DOMAIN l
      BY <3>1, <1>2
    <3> QED BY <3>1, <3>2, <1>1, <1>2 DEF elem_find
  <2>3. elem_find(l, t)
    BY <1>1, <1>2 DEF elem_find
  <2> QED BY <2>1, <2>2, <2>3
<1>6. ASSUME ~elem_find(list, t), NoDuplicates(list) PROVE NoDuplicates(l)
  <2> SUFFICES ASSUME NEW i \in DOMAIN l, NEW j \in DOMAIN l, l[i] = l[j]
               PROVE  i = j
    BY DEF NoDuplicates
  <2>0. ASSUME NEW n \in DOMAIN l, n # 1 PROVE l[n] # t
    <3>1. n \in 2..Len(list) + 1
      BY <2>0, <1>2
    <3>2. l[n] = list[n - 1] /\ n - 1 \in DOMAIN list
      BY <3>1, <1>2, <1>3
    <3> QED BY <3>2, <1>6 DEF elem_find
  <2>1. CASE i = 1 /\ j # 1
    BY <2>0, <2>1, <1>1
  <2>2. CASE i # 1 /\ j = 1
    BY <2>0, <2>2, <1>1
  <2>3. CASE i # 1 /\ j # 1
    <3>1. i \in 2..Len(list) + 1 /\ j \in 2..Len(list) + 1
      BY <2>3, <1>2
    <3>2. list[i - 1] = list[j - 1] /\ i - 1 \in DOMAIN list /\ j - 1 \in DOMAIN list
      BY <3>1, <1>2, <1>3
    <3>3. i - 1 = j - 1
      BY <3>2, <1>6 DEF NoDuplicates
    <3> QED BY <3>1, <3>3
  <2> QED BY <2>1, <2>2, <2>3
<1> QED BY <1>1, <1>4, <1>5, <1>6 DEF l

\* Head and Tail of a list without duplicates split it (list_pop()).
LEMMA PopFacts ==
    ASSUME NEW list \in Seq(Tasks), list # <<>>
    PROVE  /\ Head(list) \in Tasks /\ elem_find(list, Head(list))
           /\ Tail(list) \in Seq(Tasks)
           /\ \A u : elem_find(Tail(list), u) => elem_find(list, u)
           /\ \A u : elem_find(list, u) /\ u # Head(list) => elem_find(Tail(list), u)
           /\ NoDuplicates(list) => /\ NoDuplicates(Tail(list))
                                    /\ ~elem_find(Tail(list), Head(list))
<1> DEFINE l == Tail(list)
<1>1. /\ l \in Seq(Tasks) /\ Len(l) = Len(list) - 1 /\ Head(list) = list[1]
      /\ Len(list) \in Nat /\ Len(list) > 0
  OBVIOUS
<1>2. /\ DOMAIN l = 1..Len(list) - 1 /\ DOMAIN list = 1..Len(list)
      /\ \A i \in 1..Len(list) - 1 : l[i] = list[i + 1] /\ i + 1 \in 1..Len(list)
  BY <1>1
<1>3. Head(list) \in Tasks /\ elem_find(list, Head(list))
  BY <1>1, <1>2 DEF elem_find
<1> HIDE DEF l
<1>4. \A u : elem_find(l, u) => elem_find(list, u)
  BY <1>2 DEF elem_find
<1>5. ASSUME NEW u, elem_find(list, u), u # Head(list) PROVE elem_find(l, u)
  <2>1. PICK i \in 1..Len(list) : list[i] = u
    BY <1>5, <1>2 DEF elem_find
  <2>2. i - 1 \in 1..Len(list) - 1 /\ (i - 1) + 1 = i
    BY <2>1, <1>5, <1>1
  <2>3. l[i - 1] = u
    BY <2>1, <2>2, <1>2
  <2> QED BY <2>2, <2>3, <1>2 DEF elem_find
<1>6. ASSUME NoDuplicates(list) PROVE NoDuplicates(l) /\ ~elem_find(l, Head(list))
  <2>1. ASSUME NEW i \in DOMAIN l, NEW j \in DOMAIN l, l[i] = l[j] PROVE i = j
    <3>1. i \in 1..Len(list) - 1 /\ j \in 1..Len(list) - 1
      BY <1>2
    <3>2. list[i + 1] = list[j + 1] /\ i + 1 \in DOMAIN list /\ j + 1 \in DOMAIN list
      BY <3>1, <2>1, <1>2
    <3>3. i + 1 = j + 1
      BY <3>2, <1>6 DEF NoDuplicates
    <3> QED BY <3>1, <3>3
  <2>2. ~elem_find(l, Head(list))
    <3> SUFFICES ASSUME NEW i \in DOMAIN l, l[i] = Head(list) PROVE FALSE
      BY DEF elem_find
    <3>1. i \in 1..Len(list) - 1
      BY <1>2
    <3>2. list[i + 1] = list[1] /\ i + 1 \in DOMAIN list /\ 1 \in DOMAIN list
      BY <3>1, <1>1, <1>2
    <3>3. i + 1 = 1
      BY <3>2, <1>6 DEF NoDuplicates
    <3> QED BY <3>1, <3>3
  <2> QED BY <2>1, <2>2 DEF NoDuplicates
<1> QED BY <1>1, <1>3, <1>4, <1>5, <1>6 DEF l
-----------------------------------------------------------------------------
\* QueueSound in terms of membership instead of indices.
LEMMA QueueSoundDef ==
    ASSUME NEW k \in SchedState
    PROVE  QueueSound(k) <=>
              /\ \A u \in Tasks : k.status[u] = "READY" => elem_find(k.ready, u)
              /\ NoDuplicates(k.ready)
              /\ \A u \in Tasks : elem_find(k.ready, u)
                    => k.status[u] \in {"READY", "BLOCKED", "WAITING"}
<1>1. \A i \in DOMAIN k.ready : k.ready[i] \in Tasks
  BY DEF SchedState
<1> QED BY <1>1 DEF QueueSound, elem_find

\* task_unblock() of a task that waits and is not queued: its ASSERTs hold and
\* the task is queued.
LEMMA UnblockFacts ==
    ASSUME NEW k \in SchedState, ~k.panic, QueueSound(k), NEW t \in Tasks,
           k.status[t] \in {"BLOCKED", "WAITING"}, ~elem_find(k.ready, t)
    PROVE  LET n == task_unblock(k, t)
           IN  /\ n \in SchedState /\ ~n.panic /\ QueueSound(n)
               /\ n.running = k.running /\ n.status = k.status /\ n.ticks = k.ticks
               /\ n.ready = list_push(k.ready, t) /\ n.ready # <<>>
               /\ \A u : elem_find(n.ready, u) <=> elem_find(k.ready, u) \/ u = t
<1> DEFINE n == task_unblock(k, t)
<1>1. n = [k EXCEPT !.panic = FALSE, !.ready = list_push(k.ready, t)]
  BY DEF task_unblock, ASSERT, SchedState
<1>2. k.ready \in Seq(Tasks)
  BY DEF SchedState
<1>3. /\ n.ready = list_push(k.ready, t) /\ n.ready \in Seq(Tasks) /\ n.ready # <<>>
      /\ NoDuplicates(n.ready)
      /\ \A u : elem_find(n.ready, u) <=> elem_find(k.ready, u) \/ u = t
  BY <1>1, <1>2, PushFacts DEF SchedState, QueueSound
<1>4. n \in SchedState /\ ~n.panic /\ n.running = k.running /\ n.status = k.status
      /\ n.ticks = k.ticks
  BY <1>1, <1>3 DEF SchedState
<1> HIDE DEF n
<1>5. QueueSound(n)
  BY <1>3, <1>4, QueueSoundDef
<1> QED BY <1>3, <1>4, <1>5 DEF n

\* What a context switch does to a state in which nobody is RUNNING.
Dispatched(k, n) ==
    /\ elem_find(k.ready, n.running) \/ n.running = idle_task
    /\ n.status = [k.status EXCEPT ![n.running] = "RUNNING"]
    /\ n.ticks = k.ticks
    /\ \A u : elem_find(n.ready, u) <=> elem_find(k.ready, u) /\ u # n.running

\* switch_to_next() restores the invariant once nobody is RUNNING any more.
LEMMA SwitchFacts ==
    ASSUME NEW k \in SchedState, ~k.panic, QueueSound(k), k.ready # <<>>,
           \A t \in Tasks : k.status[t] # "RUNNING",
           elem_find(k.ready, idle_task) \/ k.status[idle_task] = "BLOCKED"
    PROVE  LET n == switch_to_next(k)
           IN  SchedInv(n) /\ Dispatched(k, n) /\ elem_find(k.ready, n.running)
<1> DEFINE n == switch_to_next(k)
           h == Head(k.ready)
<1>1. /\ h \in Tasks /\ elem_find(k.ready, h) /\ Tail(k.ready) \in Seq(Tasks)
      /\ \A u : elem_find(Tail(k.ready), u) => elem_find(k.ready, u)
      /\ \A u : elem_find(k.ready, u) /\ u # h => elem_find(Tail(k.ready), u)
      /\ NoDuplicates(Tail(k.ready)) /\ ~elem_find(Tail(k.ready), h)
  <2>1. k.ready \in Seq(Tasks) /\ NoDuplicates(k.ready)
    BY DEF SchedState, QueueSound
  <2> QED BY <2>1, PopFacts
<1> HIDE DEF h
<1>2. n = [k EXCEPT !.status = [k.status EXCEPT ![h] = "RUNNING"],
                    !.running = h, !.ready = Tail(k.ready)]
  BY Zenon DEF switch_to_next, h
<1>3. /\ n.running = h /\ n.ready = Tail(k.ready) /\ n.panic = k.panic
      /\ n.status = [k.status EXCEPT ![h] = "RUNNING"] /\ n.ticks = k.ticks
      /\ n = [running |-> n.running, status |-> n.status, ready |-> n.ready,
              ticks |-> n.ticks, panic |-> n.panic]
  BY <1>2 DEF SchedState
<1> HIDE DEF n
<1>4. /\ k.status \in [Tasks -> Status] /\ k.ticks \in [Tasks -> 0..255]
      /\ k.panic \in BOOLEAN
  BY DEF SchedState
<1>4a. n.status \in [Tasks -> Status]
  BY <1>1, <1>3, <1>4 DEF Status
<1>4b. n \in SchedState /\ ~n.panic
  BY <1>1, <1>3, <1>4, <1>4a, ZenonT(60) DEF SchedState
<1>5. UniqueRunning(n)
  BY <1>1, <1>3, <1>4 DEF UniqueRunning
<1>6. QueueSound(n)
  <2>1. /\ \A u \in Tasks : k.status[u] = "READY" => elem_find(k.ready, u)
        /\ \A u \in Tasks : elem_find(k.ready, u)
              => k.status[u] \in {"READY", "BLOCKED", "WAITING"}
    BY QueueSoundDef
  <2>2. \A u \in Tasks : n.status[u] = IF u = h THEN "RUNNING" ELSE k.status[u]
    BY <1>3, <1>4
  <2>3. \A u \in Tasks : n.status[u] = "READY" => elem_find(n.ready, u)
    BY <2>1, <2>2, <1>1, <1>3
  <2>4. \A u \in Tasks : elem_find(n.ready, u)
          => n.status[u] \in {"READY", "BLOCKED", "WAITING"}
    BY <2>1, <2>2, <1>1, <1>3
  <2> QED BY <2>3, <2>4, <1>1, <1>3, <1>4b, QueueSoundDef
<1>7. IdleFallback(n)
  <2>1. CASE h = idle_task
    BY <2>1, <1>3 DEF IdleFallback
  <2>2. CASE h # idle_task
    <3>1. n.status[idle_task] = k.status[idle_task]
      BY <2>2, <1>3, <1>4
    <3>2. elem_find(k.ready, idle_task) => elem_find(n.ready, idle_task)
      BY <2>2, <1>1, <1>3
    <3> QED BY <3>1, <3>2 DEF IdleFallback
  <2> QED BY <2>1, <2>2
<1>8. Dispatched(k, n) /\ elem_find(k.ready, n.running)
  BY <1>1, <1>3 DEF Dispatched
<1> QED BY <1>4b, <1>5, <1>6, <1>7, <1>8 DEF SchedInv, n

\* schedule() called by a task that has given up the processor, with its status
\* already changed (task_block(), task_yield(), and schedule() itself after a
\* preemption).
LEMMA ScheduleFacts ==
    ASSUME NEW k \in SchedState, ~k.panic, QueueSound(k),
           \A t \in Tasks : k.status[t] # "RUNNING",
           elem_find(k.ready, idle_task) \/ k.status[idle_task] = "BLOCKED"
    PROVE  SchedInv(schedule(k)) /\ Dispatched(k, schedule(k))
<1>1. k.running \in Tasks
  BY DEF SchedState
<1>2. CASE k.ready # <<>>
  <2>1. schedule(k) = switch_to_next(k)
    BY <1>1, <1>2 DEF schedule
  <2> QED BY <2>1, <1>2, SwitchFacts
<1>3. CASE k.ready = <<>>
  <2> DEFINE m == task_unblock(k, idle_task)
  <2>1. \A u : ~elem_find(k.ready, u)
    BY <1>3 DEF elem_find
  <2>2. /\ m \in SchedState /\ ~m.panic /\ QueueSound(m)
        /\ m.running = k.running /\ m.status = k.status /\ m.ticks = k.ticks
        /\ m.ready # <<>>
        /\ \A u : elem_find(m.ready, u) <=> u = idle_task
    BY <2>1, UnblockFacts
  <2>3. schedule(k) = switch_to_next(m)
    BY <1>1, <1>3 DEF schedule
  <2> HIDE DEF m
  <2>4. SchedInv(schedule(k)) /\ Dispatched(m, schedule(k))
    BY <2>2, <2>3, SwitchFacts
  <2>5. Dispatched(k, schedule(k))
    BY <2>1, <2>2, <2>4 DEF Dispatched
  <2> QED BY <2>4, <2>5
<1> QED BY <1>2, <1>3

-----------------------------------------------------------------------------
\* The fields of a scheduler state and their types.
LEMMA StateFields ==
    ASSUME NEW k \in SchedState
    PROVE  /\ k.running \in Tasks /\ k.status \in [Tasks -> Status]
           /\ k.ready \in Seq(Tasks) /\ k.ticks \in [Tasks -> 0..255]
           /\ k.panic \in BOOLEAN
BY DEF SchedState

\* The running task of a sound state is in no queue.
LEMMA RunningNotQueued ==
    ASSUME NEW k, SchedInv(k)
    PROVE  ~elem_find(k.ready, k.running) /\ k.status[k.running] = "RUNNING"
<1>1. k \in SchedState /\ k.running \in Tasks
  BY StateFields DEF SchedInv
<1>2. k.status[k.running] = "RUNNING"
  BY <1>1 DEF SchedInv, UniqueRunning
<1> QED BY <1>1, <1>2, QueueSoundDef DEF SchedInv

\* The running task blocks: the others keep their status and their place but
\* for the one that is dispatched.
Blocked(k, n, status) ==
    /\ elem_find(k.ready, n.running) \/ n.running = idle_task
    /\ n.status = [[k.status EXCEPT ![k.running] = status]
                        EXCEPT ![n.running] = "RUNNING"]
    /\ \A u : elem_find(n.ready, u) <=> elem_find(k.ready, u) /\ u # n.running

\* The running task goes to the end of the ready list.
Requeued(k, n) ==
    /\ elem_find(k.ready, n.running) \/ n.running \in {idle_task, k.running}
    /\ n.status = [[k.status EXCEPT ![k.running] = "READY"]
                        EXCEPT ![n.running] = "RUNNING"]
    /\ \A u : elem_find(n.ready, u) <=>
              (elem_find(k.ready, u) \/ u = k.running) /\ u # n.running

\* task_block() preserves the invariant; only the idle task may never hang.
LEMMA BlockFacts ==
    ASSUME NEW k, SchedInv(k), NEW status \in {"BLOCKED", "HANGING", "WAITING"},
           k.running = idle_task => status = "BLOCKED"
    PROVE  SchedInv(task_block(k, status)) /\ Blocked(k, task_block(k, status), status)
<1> DEFINE m == [ASSERT(k, status \in {"BLOCKED", "HANGING", "WAITING"})
                   EXCEPT !.status[k.running] = status]
           n == task_block(k, status)
<1>1. k \in SchedState /\ ~k.panic /\ QueueSound(k) /\ UniqueRunning(k) /\ IdleFallback(k)
  BY DEF SchedInv
<1>2. /\ k.running \in Tasks /\ k.status \in [Tasks -> Status]
      /\ k.ready \in Seq(Tasks) /\ k.ticks \in [Tasks -> 0..255]
      /\ k.panic \in BOOLEAN
  BY <1>1, StateFields
<1>3. /\ m.running = k.running /\ m.status = [k.status EXCEPT ![k.running] = status]
      /\ m.ready = k.ready /\ m.ticks = k.ticks /\ m.panic = FALSE
      /\ m = [running |-> m.running, status |-> m.status, ready |-> m.ready,
              ticks |-> m.ticks, panic |-> m.panic]
  <2>1. ASSERT(k, status \in {"BLOCKED", "HANGING", "WAITING"}) = k
    BY <1>1 DEF ASSERT, SchedState
  <2>2. m = [k EXCEPT !.status = [k.status EXCEPT ![k.running] = status]]
    BY <2>1
  <2> HIDE DEF m
  <2> QED BY <2>2, <1>1 DEF SchedState
<1>4. n = schedule(m)
  BY DEF task_block
<1> HIDE DEF m, n
<1>5. m.status \in [Tasks -> Status]
  BY <1>2, <1>3 DEF Status
<1>6. m \in SchedState /\ ~m.panic
  BY <1>2, <1>3, <1>5 DEF SchedState
<1>7. \A u \in Tasks : m.status[u] = IF u = k.running THEN status ELSE k.status[u]
  BY <1>2, <1>3
<1>8. /\ \A u \in Tasks : k.status[u] = "READY" => elem_find(k.ready, u)
      /\ NoDuplicates(k.ready)
      /\ \A u \in Tasks : elem_find(k.ready, u)
            => k.status[u] \in {"READY", "BLOCKED", "WAITING"}
  BY <1>1, QueueSoundDef
<1>9. QueueSound(m)
  <2>1. \A u \in Tasks : m.status[u] = "READY" => elem_find(m.ready, u)
    BY <1>3, <1>7, <1>8
  <2>2. \A u \in Tasks : elem_find(m.ready, u)
          => m.status[u] \in {"READY", "BLOCKED", "WAITING"}
    BY <1>3, <1>7, <1>8, RunningNotQueued
  <2> QED BY <2>1, <2>2, <1>3, <1>6, <1>8, QueueSoundDef
<1>10. \A u \in Tasks : m.status[u] # "RUNNING"
  BY <1>1, <1>7 DEF UniqueRunning
<1>11. elem_find(m.ready, idle_task) \/ m.status[idle_task] = "BLOCKED"
  BY <1>1, <1>3, <1>7 DEF IdleFallback
<1>12. SchedInv(n) /\ Dispatched(m, n)
  BY <1>4, <1>6, <1>9, <1>10, <1>11, ScheduleFacts
<1>13. Blocked(k, n, status)
  BY <1>3, <1>12 DEF Dispatched, Blocked
<1> QED BY <1>12, <1>13 DEF n

\* The common part of task_yield() and of a preemption: a state in which the
\* running task has become READY and was appended to the ready list.
LEMMA RequeueFacts ==
    ASSUME NEW k, SchedInv(k), NEW m \in SchedState, ~m.panic,
           m.running = k.running,
           m.status = [k.status EXCEPT ![k.running] = "READY"],
           m.ready = list_append(k.ready, k.running)
    PROVE  /\ SchedInv(schedule(m)) /\ Requeued(k, schedule(m))
           /\ SchedInv(switch_to_next(m)) /\ Requeued(k, switch_to_next(m))
<1>1. k \in SchedState /\ QueueSound(k) /\ UniqueRunning(k) /\ IdleFallback(k)
  BY DEF SchedInv
<1>2. k.running \in Tasks /\ k.status \in [Tasks -> Status] /\ k.ready \in Seq(Tasks)
  BY <1>1, StateFields
<1>3. \A u \in Tasks : m.status[u] = IF u = k.running THEN "READY" ELSE k.status[u]
  BY <1>2
<1>4. /\ \A u \in Tasks : k.status[u] = "READY" => elem_find(k.ready, u)
      /\ NoDuplicates(k.ready)
      /\ \A u \in Tasks : elem_find(k.ready, u)
            => k.status[u] \in {"READY", "BLOCKED", "WAITING"}
  BY <1>1, QueueSoundDef
<1>5. /\ m.ready # <<>> /\ NoDuplicates(m.ready)
      /\ \A u : elem_find(m.ready, u) <=> elem_find(k.ready, u) \/ u = k.running
  <2>1. ~elem_find(k.ready, k.running)
    BY RunningNotQueued
  <2>2. m.ready # <<>>
    BY <1>2, AppendSeq
  <2>3. NoDuplicates(m.ready)
    BY <2>1, <1>2, <1>4, AppendNoDuplicates
  <2>4. \A u : elem_find(m.ready, u) <=> elem_find(k.ready, u) \/ u = k.running
    BY <1>2, AppendElems
  <2> QED BY <2>2, <2>3, <2>4
<1>6. QueueSound(m)
  <2>1. \A u \in Tasks : m.status[u] = "READY" => elem_find(m.ready, u)
    BY <1>3, <1>4, <1>5
  <2>2. \A u \in Tasks : elem_find(m.ready, u)
          => m.status[u] \in {"READY", "BLOCKED", "WAITING"}
    BY <1>3, <1>4, <1>5
  <2> QED BY <2>1, <2>2, <1>5, QueueSoundDef
<1>7. \A u \in Tasks : m.status[u] # "RUNNING"
  BY <1>1, <1>3 DEF UniqueRunning
<1>8. elem_find(m.ready, idle_task) \/ m.status[idle_task] = "BLOCKED"
  BY <1>1, <1>3, <1>5 DEF IdleFallback
<1>9. /\ SchedInv(schedule(m)) /\ Dispatched(m, schedule(m))
      /\ SchedInv(switch_to_next(m)) /\ Dispatched(m, switch_to_next(m))
  BY <1>5, <1>6, <1>7, <1>8, ScheduleFacts, SwitchFacts
<1>10. ASSUME NEW n, Dispatched(m, n) PROVE Requeued(k, n)
  BY <1>5, <1>10 DEF Dispatched, Requeued
<1> QED BY <1>9, <1>10

\* task_yield() preserves the invariant.
LEMMA YieldFacts ==
    ASSUME NEW k, SchedInv(k)
    PROVE  SchedInv(task_yield(k)) /\ Requeued(k, task_yield(k))
<1> DEFINE m == [ASSERT(k, ~elem_find(k.ready, k.running))
                   EXCEPT !.ready             = list_append(@, k.running),
                          !.status[k.running] = "READY"]
<1>1. k \in SchedState /\ ~k.panic /\ ~elem_find(k.ready, k.running)
  BY RunningNotQueued DEF SchedInv
<1>2. /\ k.running \in Tasks /\ k.status \in [Tasks -> Status]
      /\ k.ready \in Seq(Tasks) /\ k.ticks \in [Tasks -> 0..255]
  BY <1>1, StateFields
<1>3. /\ m.running = k.running /\ m.status = [k.status EXCEPT ![k.running] = "READY"]
      /\ m.ready = list_append(k.ready, k.running) /\ m.ticks = k.ticks
      /\ m.panic = FALSE
      /\ m = [running |-> m.running, status |-> m.status, ready |-> m.ready,
              ticks |-> m.ticks, panic |-> m.panic]
  <2>1. ASSERT(k, ~elem_find(k.ready, k.running)) = k
    BY <1>1 DEF ASSERT, SchedState
  <2>2. m = [k EXCEPT !.ready  = list_append(k.ready, k.running),
                      !.status = [k.status EXCEPT ![k.running] = "READY"]]
    BY <2>1, Zenon
  <2> HIDE DEF m
  <2> QED BY <2>2, <1>1 DEF SchedState
<1>4. task_yield(k) = schedule(m)
  BY DEF task_yield
<1> HIDE DEF m
<1>5. m \in SchedState
  <2>1. m.status \in [Tasks -> Status]
    BY <1>2, <1>3 DEF Status
  <2>2. m.ready \in Seq(Tasks)
    <3>1. list_append(k.ready, k.running) \in Seq(Tasks)
      BY <1>2, AppendSeq
    <3>2. m.ready = list_append(k.ready, k.running)
      BY <1>3
    <3> QED BY <3>1, <3>2
  <2> QED BY <2>1, <2>2, <1>2, <1>3 DEF SchedState
<1> QED BY <1>3, <1>4, <1>5, RequeueFacts

\* intr_time_handle() preserves the invariant: it takes a tick from the running
\* task or, when none is left, sends it to the end of the ready list.
LEMMA TimeFacts ==
    ASSUME NEW k, SchedInv(k)
    PROVE  LET n == intr_time_handle(k)
           IN  /\ SchedInv(n)
               /\ \/ Requeued(k, n)
                  \/ n.running = k.running /\ n.status = k.status /\ n.ready = k.ready
<1> DEFINE n == intr_time_handle(k)
<1>1. /\ k \in SchedState /\ ~k.panic /\ ~elem_find(k.ready, k.running)
      /\ k.status[k.running] = "RUNNING"
  BY RunningNotQueued DEF SchedInv
<1>2. /\ k.running \in Tasks /\ k.status \in [Tasks -> Status]
      /\ k.ready \in Seq(Tasks) /\ k.ticks \in [Tasks -> 0..255]
  BY <1>1, StateFields
<1>3. CASE k.ticks[k.running] = 0
  <2> DEFINE m == preempt(k)
  <2>1. ASSERT(k, k.ticks[k.running] = 0 /\ ~elem_find(k.ready, k.running)) = k
    BY <1>1, <1>3 DEF ASSERT, SchedState
  <2>2. m = [k EXCEPT !.status = [k.status EXCEPT ![k.running] = "READY"],
                      !.ticks  = [k.ticks EXCEPT ![k.running] = Prio],
                      !.ready  = list_append(k.ready, k.running)]
    BY <2>1, Zenon DEF preempt
  <2> HIDE DEF m
  <2>3. /\ m.running = k.running /\ m.status = [k.status EXCEPT ![k.running] = "READY"]
        /\ m.ready = list_append(k.ready, k.running)
        /\ m.ticks = [k.ticks EXCEPT ![k.running] = Prio] /\ m.panic = FALSE
        /\ m = [running |-> m.running, status |-> m.status, ready |-> m.ready,
                ticks |-> m.ticks, panic |-> m.panic]
    BY <2>2, <1>1 DEF SchedState
  <2>4. m \in SchedState
    <3>1. m.status \in [Tasks -> Status]
      BY <1>2, <2>3 DEF Status
    <3>2. m.ready \in Seq(Tasks)
      <4>1. list_append(k.ready, k.running) \in Seq(Tasks)
        BY <1>2, AppendSeq
      <4>2. m.ready = list_append(k.ready, k.running)
        BY <2>3
      <4> QED BY <4>1, <4>2
    <3>3. m.ticks \in [Tasks -> 0..255]
      <4>1. [k.ticks EXCEPT ![k.running] = Prio] \in [Tasks -> 0..255]
        BY <1>2, SchedAssumption
      <4>2. m.ticks = [k.ticks EXCEPT ![k.running] = Prio]
        BY <2>3
      <4> QED BY <4>1, <4>2
    <3> QED BY <3>1, <3>2, <3>3, <1>2, <2>3 DEF SchedState
  <2>5. m.ready # <<>>
    BY <1>2, <2>3, AppendSeq
  <2>6. n = switch_to_next(m)
    BY <1>1, <1>3, <2>5 DEF intr_time_handle, schedule, m
  <2> QED BY <2>3, <2>4, <2>6, RequeueFacts
<1>4. CASE k.ticks[k.running] # 0
  <2>1. n = [k EXCEPT !.ticks = [k.ticks EXCEPT ![k.running] = k.ticks[k.running] - 1]]
    BY <1>4, Zenon DEF intr_time_handle
  <2> HIDE DEF n
  <2>2. /\ n.running = k.running /\ n.status = k.status /\ n.ready = k.ready
        /\ n.panic = k.panic
        /\ n.ticks = [k.ticks EXCEPT ![k.running] = k.ticks[k.running] - 1]
        /\ n = [running |-> n.running, status |-> n.status, ready |-> n.ready,
                ticks |-> n.ticks, panic |-> n.panic]
    BY <2>1, <1>1, SMTT(60) DEF SchedState
  <2>3. n.ticks \in [Tasks -> 0..255]
    <3>1. k.ticks[k.running] - 1 \in 0..255
      BY <1>2, <1>4, SMTT(60)
    <3>2. [k.ticks EXCEPT ![k.running] = k.ticks[k.running] - 1] \in [Tasks -> 0..255]
      BY <3>1, <1>2
    <3>3. n.ticks = [k.ticks EXCEPT ![k.running] = k.ticks[k.running] - 1]
      BY <2>2
    <3> QED BY <3>2, <3>3
  <2>4. n \in SchedState
    BY <1>1, <2>2, <2>3 DEF SchedState
  <2>5. SchedInv(n)
    BY <2>2, <2>4 DEF SchedInv, UniqueRunning, QueueSound, IdleFallback
  <2> QED BY <2>2, <2>5 DEF n
<1> QED BY <1>3, <1>4

\* create_task() in a free page queues the new task and changes nothing else.
LEMMA CreateFacts ==
    ASSUME NEW k, SchedInv(k), NEW t \in Tasks, k.status[t] = "DIED"
    PROVE  LET n == create_task(k, t)
           IN  /\ SchedInv(n) /\ n.running = k.running
               /\ n.status = [k.status EXCEPT ![t] = "READY"]
               /\ \A u : elem_find(n.ready, u) <=> elem_find(k.ready, u) \/ u = t
<1> DEFINE n == create_task(k, t)
<1>1. k \in SchedState /\ ~k.panic /\ QueueSound(k) /\ UniqueRunning(k) /\ IdleFallback(k)
  BY DEF SchedInv
<1>2. /\ k.running \in Tasks /\ k.status \in [Tasks -> Status]
      /\ k.ready \in Seq(Tasks) /\ k.ticks \in [Tasks -> 0..255]
  BY <1>1, StateFields
<1>3. /\ \A u \in Tasks : k.status[u] = "READY" => elem_find(k.ready, u)
      /\ NoDuplicates(k.ready)
      /\ \A u \in Tasks : elem_find(k.ready, u)
            => k.status[u] \in {"READY", "BLOCKED", "WAITING"}
  BY <1>1, QueueSoundDef
<1>4. ~elem_find(k.ready, t) /\ t # k.running
  BY <1>1, <1>3 DEF UniqueRunning
<1>5. ASSERT(k, ~elem_find(k.ready, t)) = k
  BY <1>1, <1>4 DEF ASSERT, SchedState
<1>6. n = [k EXCEPT !.status = [k.status EXCEPT ![t] = "READY"],
                    !.ticks  = [k.ticks EXCEPT ![t] = Prio],
                    !.ready  = list_append(k.ready, t)]
  BY <1>5, Zenon DEF create_task
<1> HIDE DEF n
<1>7. /\ n.running = k.running /\ n.status = [k.status EXCEPT ![t] = "READY"]
      /\ n.ready = list_append(k.ready, t)
      /\ n.ticks = [k.ticks EXCEPT ![t] = Prio] /\ n.panic = FALSE
      /\ n = [running |-> n.running, status |-> n.status, ready |-> n.ready,
              ticks |-> n.ticks, panic |-> n.panic]
  BY <1>6, <1>1 DEF SchedState
<1>8. n \in SchedState
  <2>1. n.status \in [Tasks -> Status]
    BY <1>2, <1>7 DEF Status
  <2>2. n.ready \in Seq(Tasks)
    BY <1>2, <1>7, AppendSeq
  <2>3. n.ticks \in [Tasks -> 0..255]
    <3>1. [k.ticks EXCEPT ![t] = Prio] \in [Tasks -> 0..255]
      BY <1>2, SchedAssumption
    <3>2. n.ticks = [k.ticks EXCEPT ![t] = Prio]
      BY <1>7
    <3> QED BY <3>1, <3>2
  <2> QED BY <2>1, <2>2, <2>3, <1>2, <1>7 DEF SchedState
<1>9. /\ NoDuplicates(n.ready)
      /\ \A u : elem_find(n.ready, u) <=> elem_find(k.ready, u) \/ u = t
  <2>1. NoDuplicates(n.ready)
    BY <1>2, <1>3, <1>4, <1>7, AppendNoDuplicates
  <2>2. \A u : elem_find(n.ready, u) <=> elem_find(k.ready, u) \/ u = t
    BY <1>2, <1>7, AppendElems
  <2> QED BY <2>1, <2>2
<1>10. \A u \in Tasks : n.status[u] = IF u = t THEN "READY" ELSE k.status[u]
  BY <1>2, <1>7
<1>11. QueueSound(n)
  <2>1. \A u \in Tasks : n.status[u] = "READY" => elem_find(n.ready, u)
    BY <1>3, <1>9, <1>10
  <2>2. \A u \in Tasks : elem_find(n.ready, u)
          => n.status[u] \in {"READY", "BLOCKED", "WAITING"}
    BY <1>3, <1>9, <1>10
  <2> QED BY <2>1, <2>2, <1>8, <1>9, QueueSoundDef
<1>12. UniqueRunning(n)
  <2>1. \A u \in Tasks : k.status[u] = "RUNNING" <=> u = k.running
    BY <1>1 DEF UniqueRunning
  <2>2. n.running = k.running
    BY <1>7
  <2>3. \A u \in Tasks : n.status[u] = "RUNNING" <=> u = k.running
    BY <1>4, <1>10, <2>1
  <2> QED BY <2>2, <2>3 DEF UniqueRunning
<1>13. IdleFallback(n)
  BY <1>1, <1>4, <1>7, <1>9, <1>10 DEF IdleFallback
<1> QED BY <1>7, <1>8, <1>9, <1>11, <1>12, <1>13 DEF SchedInv, n

\* Freeing the page of a task that hangs changes nothing the scheduler looks at.
LEMMA ReapFacts ==
    ASSUME NEW k, SchedInv(k), NEW t \in Tasks, k.status[t] = "HANGING"
    PROVE  LET n == [k EXCEPT !.status[t] = "DIED"]
           IN  /\ SchedInv(n) /\ n.running = k.running /\ n.ready = k.ready
               /\ n.status = [k.status EXCEPT ![t] = "DIED"]
<1> DEFINE n == [k EXCEPT !.status[t] = "DIED"]
<1>1. k \in SchedState /\ ~k.panic /\ QueueSound(k) /\ UniqueRunning(k) /\ IdleFallback(k)
  BY DEF SchedInv
<1>2. k.running \in Tasks /\ k.status \in [Tasks -> Status]
  BY <1>1, StateFields
<1>3. n = [k EXCEPT !.status = [k.status EXCEPT ![t] = "DIED"]]
  BY Zenon
<1> HIDE DEF n
<1>4. /\ n.running = k.running /\ n.status = [k.status EXCEPT ![t] = "DIED"]
      /\ n.ready = k.ready /\ n.ticks = k.ticks /\ n.panic = k.panic
      /\ n = [running |-> n.running, status |-> n.status, ready |-> n.ready,
              ticks |-> n.ticks, panic |-> n.panic]
  BY <1>1, <1>3 DEF SchedState
<1>5. n.status \in [Tasks -> Status]
  BY <1>2, <1>4 DEF Status
<1>6. n \in SchedState /\ ~n.panic
  BY <1>1, <1>4, <1>5, SMTT(60) DEF SchedState
<1>7. \A u \in Tasks : n.status[u] = IF u = t THEN "DIED" ELSE k.status[u]
  BY <1>2, <1>4
<1>8. /\ \A u \in Tasks : k.status[u] = "READY" => elem_find(k.ready, u)
      /\ NoDuplicates(k.ready)
      /\ \A u \in Tasks : elem_find(k.ready, u)
            => k.status[u] \in {"READY", "BLOCKED", "WAITING"}
  BY <1>1, QueueSoundDef
<1>9. QueueSound(n)
  <2>1. \A u \in Tasks : n.status[u] = "READY" => elem_find(n.ready, u)
    BY <1>4, <1>7, <1>8
  <2>2. \A u \in Tasks : elem_find(n.ready, u)
          => n.status[u] \in {"READY", "BLOCKED", "WAITING"}
    BY <1>4, <1>7, <1>8
  <2> QED BY <2>1, <2>2, <1>4, <1>6, <1>8, QueueSoundDef
<1>10. UniqueRunning(n)
  <2>1. \A u \in Tasks : k.status[u] = "RUNNING" <=> u = k.running
    BY <1>1 DEF UniqueRunning
  <2>2. n.running = k.running
    BY <1>4
  <2>3. \A u \in Tasks : n.status[u] = "RUNNING" <=> u = k.running
    BY <1>7, <2>1
  <2> QED BY <2>2, <2>3 DEF UniqueRunning
<1>11. IdleFallback(n)
  BY <1>1, <1>4, <1>7 DEF IdleFallback
<1> QED BY <1>4, <1>6, <1>9, <1>10, <1>11 DEF SchedInv, n

\* task_unblock() of a task other than the idle task, in a sound state.
LEMMA UnblockInv ==
    ASSUME NEW k, SchedInv(k), NEW t \in Tasks,
           k.status[t] \in {"BLOCKED", "WAITING"}, ~elem_find(k.ready, t)
    PROVE  LET n == task_unblock(k, t)
           IN  /\ SchedInv(n) /\ n.running = k.running /\ n.status = k.status
               /\ \A u : elem_find(n.ready, u) <=> elem_find(k.ready, u) \/ u = t
<1> DEFINE n == task_unblock(k, t)
<1>1. k \in SchedState /\ ~k.panic /\ QueueSound(k) /\ UniqueRunning(k) /\ IdleFallback(k)
  BY DEF SchedInv
<1>2. /\ n \in SchedState /\ ~n.panic /\ QueueSound(n)
      /\ n.running = k.running /\ n.status = k.status
      /\ \A u : elem_find(n.ready, u) <=> elem_find(k.ready, u) \/ u = t
  BY <1>1, UnblockFacts
<1> HIDE DEF n
<1>3. UniqueRunning(n) /\ IdleFallback(n)
  BY <1>1, <1>2 DEF UniqueRunning, IdleFallback
<1> QED BY <1>2, <1>3 DEF SchedInv, n

\* The state that task_init() leaves satisfies the invariant.
LEMMA TaskInitFacts == SchedInv(task_init)
<1>1. /\ task_init.running = init_proc /\ task_init.ready = <<idle_task>>
      /\ task_init.panic = FALSE /\ task_init.ticks = [t \in Tasks |-> Prio]
      /\ task_init.status = [t \in Tasks |-> CASE t = init_proc -> "RUNNING"
                                               [] t = idle_task -> "READY"
                                               [] OTHER         -> "DIED"]
      /\ task_init \in SchedState
  BY DEF task_init, SchedState, Status
<1>2. \A t \in Tasks : task_init.status[t] = IF t = init_proc THEN "RUNNING"
                          ELSE IF t = idle_task THEN "READY" ELSE "DIED"
  BY <1>1
<1>3. \A u : elem_find(task_init.ready, u) <=> u = idle_task
  BY <1>1 DEF elem_find
<1>4. NoDuplicates(task_init.ready)
  BY <1>1 DEF NoDuplicates
<1> QED BY <1>1, <1>2, <1>3, <1>4, QueueSoundDef
        DEF SchedInv, UniqueRunning, IdleFallback

-----------------------------------------------------------------------------
(* What a step of the scheduler leaves of the tasks that have no part in it *)

Kept(k, n, others) ==
    /\ \A u \in others :
          /\ u = n.running \/ elem_find(n.ready, u) <=> elem_find(k.ready, u)
          /\ ~elem_find(k.ready, u) => n.status[u] = k.status[u]
    /\ \A u \in Tasks : n.status[u] \in {k.status[u], "RUNNING", "READY", "BLOCKED"}

\* After a step in which the running task gave up the processor and stayed
\* runnable.
LEMMA KeptRequeued ==
    ASSUME NEW k, NEW n, SchedInv(k), SchedInv(n), Requeued(k, n)
    PROVE  /\ Kept(k, n, Tasks \ {idle_task, k.running})
           /\ k.running = n.running \/ elem_find(n.ready, k.running)
<1>1. /\ k.running \in Tasks /\ k.status \in [Tasks -> Status]
      /\ n.running \in Tasks /\ n.status \in [Tasks -> Status]
  BY StateFields DEF SchedInv
<1> QED BY <1>1, SchedAssumption DEF Requeued, Kept

\* After a step in which it blocked.
LEMMA KeptBlocked ==
    ASSUME NEW k, NEW n, SchedInv(k), SchedInv(n), Blocked(k, n, "BLOCKED")
    PROVE  /\ Kept(k, n, Tasks \ {idle_task, k.running})
           /\ k.running # idle_task =>
                /\ k.running # n.running /\ ~elem_find(n.ready, k.running)
                /\ n.status[k.running] = "BLOCKED"
<1>1. /\ k.running \in Tasks /\ k.status \in [Tasks -> Status]
      /\ n.running \in Tasks /\ n.status \in [Tasks -> Status]
      /\ ~elem_find(k.ready, k.running)
  BY StateFields, RunningNotQueued DEF SchedInv
<1> QED BY <1>1, SchedAssumption DEF Blocked, Kept

LEMMA AssertTrue ==
    ASSUME NEW k \in SchedState, NEW cond \in BOOLEAN, cond
    PROVE  ASSERT(k, cond) = k
BY DEF ASSERT, SchedState

-----------------------------------------------------------------------------
(* The semaphores of task/sync.c *)

\* sema_up() on a semaphore: the first waiter, if any, leaves the list.
LEMMA SemaUpFacts ==
    ASSUME NEW s \in SemaState, s.value = 0, NoDuplicates(s.waiters)
    PROVE  /\ sema_up(s) \in SemaState /\ sema_up(s).value = 1
           /\ NoDuplicates(sema_up(s).waiters)
           /\ s.waiters = <<>> => sema_up(s).waiters = s.waiters
           /\ s.waiters # <<>> =>
                /\ Head(s.waiters) \in Tasks /\ elem_find(s.waiters, Head(s.waiters))
                /\ \A u : elem_find(sema_up(s).waiters, u) <=>
                            elem_find(s.waiters, u) /\ u # Head(s.waiters)
<1>1. s.waiters \in Seq(Tasks)
  BY DEF SemaState
<1>2. /\ sema_up(s).value = 0 + 1
      /\ sema_up(s).waiters = IF s.waiters = <<>> THEN <<>> ELSE Tail(s.waiters)
      /\ sema_up(s) = [value |-> sema_up(s).value, waiters |-> sema_up(s).waiters]
  BY DEF sema_up
<1>3. CASE s.waiters = <<>>
  <2>1. sema_up(s).waiters = s.waiters /\ sema_up(s).value = 1
    BY <1>2, <1>3
  <2> QED BY <1>1, <1>2, <1>3, <2>1 DEF SemaState
<1>4. CASE s.waiters # <<>>
  <2>1. sema_up(s).waiters = Tail(s.waiters) /\ sema_up(s).value = 1
    BY <1>2, <1>4
  <2>2. /\ Head(s.waiters) \in Tasks /\ elem_find(s.waiters, Head(s.waiters))
        /\ Tail(s.waiters) \in Seq(Tasks) /\ NoDuplicates(Tail(s.waiters))
        /\ \A u : elem_find(Tail(s.waiters), u) <=>
                    elem_find(s.waiters, u) /\ u # Head(s.waiters)
    BY <1>1, <1>4, PopFacts
  <2>3. sema_up(s) \in SemaState
    <3>1. sema_up(s) = [value |-> 1, waiters |-> Tail(s.waiters)]
      BY <1>2, <2>1, Zenon
    <3>2. [value |-> 1, waiters |-> Tail(s.waiters)] \in SemaState
      BY <2>2 DEF SemaState
    <3> QED BY <3>1, <3>2
  <2> QED BY <1>4, <2>1, <2>2, <2>3
<1> QED BY <1>3, <1>4

\* sema_down() of a task that finds the value 0: the ASSERT holds, the task is
\* added to the waiters and blocks.
LEMMA SemaWaitFacts ==
    ASSUME NEW k \in SchedState, NEW s \in SemaState, NoDuplicates(s.waiters),
           ~elem_find(s.waiters, k.running)
    PROVE  /\ sema_wait_sched(k, s) = task_block(k, "BLOCKED")
           /\ LET n == sema_wait(s, k.running)
              IN  /\ n \in SemaState /\ n.value = s.value /\ NoDuplicates(n.waiters)
                  /\ n.waiters # <<>>
                  /\ \A u : elem_find(n.waiters, u) <=>
                              elem_find(s.waiters, u) \/ u = k.running
<1>1. k.running \in Tasks /\ s.waiters \in Seq(Tasks) /\ s.value \in 0..1
  BY StateFields DEF SemaState
<1>2. ASSERT(k, ~elem_find(s.waiters, k.running)) = k
  BY AssertTrue DEF elem_find
<1> DEFINE n == sema_wait(s, k.running)
<1>3. n = [value |-> s.value, waiters |-> list_append(s.waiters, k.running)]
  BY DEF sema_wait, SemaState
<1>4. n.value = s.value /\ n.waiters = list_append(s.waiters, k.running)
  BY <1>3
<1> HIDE DEF n
<1>8. list_append(s.waiters, k.running) \in Seq(Tasks) /\ n.waiters # <<>>
  BY <1>1, <1>4, AppendSeq
<1>5. n \in SemaState
  BY <1>1, <1>3, <1>8 DEF SemaState
<1>6. /\ NoDuplicates(n.waiters)
      /\ \A u : elem_find(n.waiters, u) <=> elem_find(s.waiters, u) \/ u = k.running
  BY <1>1, <1>4, AppendElems, AppendNoDuplicates
<1>7. sema_wait_sched(k, s) = task_block(k, "BLOCKED")
  BY <1>2 DEF sema_wait_sched
<1> QED BY <1>4, <1>5, <1>6, <1>7, <1>8 DEF n

\* sema_down() of a task that finds the value 1: the ASSERT holds.
LEMMA SemaTakeFacts ==
    ASSUME NEW k \in SchedState, NEW s \in SemaState, s.value # 0
    PROVE  /\ sema_take_sched(k, s) = k
           /\ sema_take(s) \in SemaState /\ sema_take(s).value = 0
           /\ sema_take(s).waiters = s.waiters
<1>1. s.value = 1 /\ s.waiters \in Seq(Tasks)
  BY DEF SemaState
<1>2. (s.value - 1 = 0) = TRUE
  BY <1>1
<1>3. ASSERT(k, TRUE) = k
  BY AssertTrue
<1>4. sema_take(s) = [value |-> 0, waiters |-> s.waiters]
  BY <1>1 DEF sema_take, SemaState
<1>5. sema_take_sched(k, s) = k
  BY <1>2, <1>3, Zenon DEF sema_take_sched
<1> QED BY <1>1, <1>4, <1>5 DEF SemaState

\* The scheduler's part of sema_up(): the first waiter, if any, is queued.
LEMMA SemaUpSched ==
    ASSUME NEW k, SchedInv(k), NEW s \in SemaState, s.value = 0,
           \A u \in Tasks : elem_find(s.waiters, u) =>
               k.status[u] = "BLOCKED" /\ ~elem_find(k.ready, u)
    PROVE  LET n == sema_up_sched(k, s)
           IN  /\ SchedInv(n) /\ n.running = k.running /\ n.status = k.status
               /\ \A u : elem_find(n.ready, u) <=>
                     elem_find(k.ready, u) \/ (s.waiters # <<>> /\ u = Head(s.waiters))
<1>1. k \in SchedState /\ s.waiters \in Seq(Tasks)
  BY DEF SchedInv, SemaState
<1>2. (s.value = 0) = TRUE
  OBVIOUS
<1>3. ASSERT(k, TRUE) = k
  BY <1>1, AssertTrue
<1>4. sema_up_sched(k, s) = IF s.waiters = <<>> THEN k ELSE task_unblock(k, Head(s.waiters))
  BY <1>2, <1>3 DEF sema_up_sched
<1>5. CASE s.waiters = <<>>
  BY <1>4, <1>5
<1>6. CASE s.waiters # <<>>
  <2>1. /\ Head(s.waiters) \in Tasks /\ elem_find(s.waiters, Head(s.waiters))
    BY <1>1, <1>6, PopFacts
  <2> QED BY <1>4, <1>6, <2>1, UnblockInv
<1> QED BY <1>5, <1>6

\* A task that blocks while others are ready hands the processor to the first.
LEMMA BlockHead ==
    ASSUME NEW k, SchedInv(k), NEW status \in {"BLOCKED", "HANGING", "WAITING"},
           k.ready # <<>>
    PROVE  task_block(k, status).running = Head(k.ready)
<1>1. k \in SchedState /\ k.running \in Tasks /\ k.status \in [Tasks -> Status]
  BY StateFields DEF SchedInv
<1> DEFINE m == [k EXCEPT !.status[k.running] = status]
<1>2. ASSERT(k, status \in {"BLOCKED", "HANGING", "WAITING"}) = k
  BY <1>1, AssertTrue
<1>3. task_block(k, status) = schedule(m)
  BY <1>2 DEF task_block
<1>4. m.ready = k.ready /\ m.running = k.running /\ m.status[m.running] = status
  BY <1>1 DEF SchedState
<1> HIDE DEF m
<1>5. schedule(m) = switch_to_next(m)
  BY <1>4 DEF schedule
<1>6. switch_to_next(m).running = Head(m.ready)
  <2>1. m \in SchedState
    BY <1>1 DEF SchedState, Status, m
  <2> QED BY <2>1 DEF switch_to_next, SchedState
<1> QED BY <1>3, <1>4, <1>5, <1>6

-----------------------------------------------------------------------------
(* The tasks in the list of a semaphore sleep *)

Asleep(k, list) ==
    /\ NoDuplicates(list)
    /\ \A t \in Tasks : elem_find(list, t) =>
          t # idle_task /\ k.status[t] = "BLOCKED" /\ ~elem_find(k.ready, t)

\* A task that blocks leaves them alone.
LEMMA AsleepBlocked ==
    ASSUME NEW k, NEW n, SchedInv(k), SchedInv(n), NEW status, Blocked(k, n, status),
           NEW list, Asleep(k, list)
    PROVE  Asleep(n, list)
<1>1. /\ k.running \in Tasks /\ k.status \in [Tasks -> Status] /\ n.running \in Tasks
      /\ k.status[k.running] = "RUNNING"
  BY StateFields, RunningNotQueued DEF SchedInv
<1>2. \A u \in Tasks : n.status[u] = IF u = n.running THEN "RUNNING"
                                    ELSE IF u = k.running THEN status ELSE k.status[u]
  BY <1>1 DEF Blocked
<1> QED BY <1>1, <1>2 DEF Blocked, Asleep

\* So does a task that yields or is preempted.
LEMMA AsleepRequeued ==
    ASSUME NEW k, NEW n, SchedInv(k), SchedInv(n), Requeued(k, n),
           NEW list, Asleep(k, list)
    PROVE  Asleep(n, list)
<1>1. /\ k.running \in Tasks /\ k.status \in [Tasks -> Status] /\ n.running \in Tasks
      /\ k.status[k.running] = "RUNNING"
  BY StateFields, RunningNotQueued DEF SchedInv
<1>2. \A u \in Tasks : n.status[u] = IF u = n.running THEN "RUNNING"
                                    ELSE IF u = k.running THEN "READY" ELSE k.status[u]
  BY <1>1 DEF Requeued
<1> QED BY <1>1, <1>2 DEF Requeued, Asleep

\* The timer does not wake them.
LEMMA AsleepTime ==
    ASSUME NEW k, SchedInv(k), NEW list, Asleep(k, list)
    PROVE  Asleep(intr_time_handle(k), list)
<1> DEFINE n == intr_time_handle(k)
<1>1. /\ SchedInv(n)
      /\ \/ Requeued(k, n)
         \/ n.running = k.running /\ n.status = k.status /\ n.ready = k.ready
  BY TimeFacts
<1> HIDE DEF n
<1>2. CASE Requeued(k, n)
  BY <1>1, <1>2, AsleepRequeued DEF n
<1>3. CASE n.running = k.running /\ n.status = k.status /\ n.ready = k.ready
  BY <1>3 DEF Asleep, n
<1> QED BY <1>1, <1>2, <1>3

\* Nor does a new task.
LEMMA AsleepCreate ==
    ASSUME NEW k, SchedInv(k), NEW t \in Tasks, k.status[t] = "DIED",
           NEW list, Asleep(k, list)
    PROVE  Asleep(create_task(k, t), list)
<1> DEFINE n == create_task(k, t)
<1>1. /\ k.status \in [Tasks -> Status]
      /\ n.status = [k.status EXCEPT ![t] = "READY"]
      /\ \A u : elem_find(n.ready, u) <=> elem_find(k.ready, u) \/ u = t
  BY CreateFacts, StateFields DEF SchedInv
<1> HIDE DEF n
<1>2. \A u \in Tasks : n.status[u] = IF u = t THEN "READY" ELSE k.status[u]
  BY <1>1
<1> QED BY <1>1, <1>2 DEF Asleep, n

\* sema_down() that finds the value 0 puts one more task to sleep.
LEMMA AsleepWait ==
    ASSUME NEW k, SchedInv(k), k.running # idle_task,
           NEW s \in SemaState, Asleep(k, s.waiters)
    PROVE  LET n == sema_wait_sched(k, s)
               m == sema_wait(s, k.running)
           IN  /\ SchedInv(n) /\ Blocked(k, n, "BLOCKED")
               /\ m \in SemaState /\ m.value = s.value /\ Asleep(n, m.waiters)
               /\ \A u : elem_find(m.waiters, u) <=> elem_find(s.waiters, u) \/ u = k.running
               /\ \A list : Asleep(k, list) => Asleep(n, list)
<1> DEFINE n == sema_wait_sched(k, s)
           m == sema_wait(s, k.running)
<1>1. k \in SchedState /\ k.running \in Tasks /\ k.status[k.running] = "RUNNING"
  BY StateFields, RunningNotQueued DEF SchedInv
<1>2. NoDuplicates(s.waiters) /\ ~elem_find(s.waiters, k.running)
  BY <1>1 DEF Asleep
<1>3. /\ n = task_block(k, "BLOCKED")
      /\ m \in SemaState /\ m.value = s.value /\ NoDuplicates(m.waiters)
      /\ \A u : elem_find(m.waiters, u) <=> elem_find(s.waiters, u) \/ u = k.running
  BY <1>1, <1>2, SemaWaitFacts
<1> HIDE DEF n, m
<1>4. SchedInv(n) /\ Blocked(k, n, "BLOCKED")
  BY <1>3, BlockFacts
<1>5. \A list : Asleep(k, list) => Asleep(n, list)
  BY <1>4, AsleepBlocked
<1>6. k.running # n.running /\ ~elem_find(n.ready, k.running) /\ n.status[k.running] = "BLOCKED"
  BY <1>4, KeptBlocked
<1>7. Asleep(n, s.waiters)
  BY <1>5
<1>8. Asleep(n, m.waiters)
  BY <1>3, <1>6, <1>7 DEF Asleep
<1> QED BY <1>3, <1>4, <1>5, <1>8 DEF n, m

\* sema_up() wakes the first of them and nobody else.
LEMMA AsleepUp ==
    ASSUME NEW k, SchedInv(k), NEW s \in SemaState, s.value = 0, Asleep(k, s.waiters)
    PROVE  LET n == sema_up_sched(k, s)
               m == sema_up(s)
           IN  /\ SchedInv(n) /\ n.running = k.running /\ n.status = k.status
               /\ m \in SemaState /\ m.value = 1 /\ Asleep(n, m.waiters)
               /\ \A u : elem_find(m.waiters, u) => elem_find(s.waiters, u)
               /\ \A list : Asleep(k, list)
                            /\ (\A u : elem_find(list, u) => ~elem_find(s.waiters, u))
                              => Asleep(n, list)
<1> DEFINE n == sema_up_sched(k, s)
           m == sema_up(s)
<1>1. /\ SchedInv(n) /\ n.running = k.running /\ n.status = k.status
      /\ \A u : elem_find(n.ready, u) <=>
            elem_find(k.ready, u) \/ (s.waiters # <<>> /\ u = Head(s.waiters))
  BY SemaUpSched DEF Asleep
<1>2. /\ m \in SemaState /\ m.value = 1 /\ NoDuplicates(m.waiters)
      /\ s.waiters = <<>> => m.waiters = s.waiters
      /\ s.waiters # <<>> =>
           /\ elem_find(s.waiters, Head(s.waiters))
           /\ \A u : elem_find(m.waiters, u) <=>
                       elem_find(s.waiters, u) /\ u # Head(s.waiters)
  BY SemaUpFacts DEF Asleep
<1> HIDE DEF n, m
<1>3. Asleep(n, m.waiters) /\ \A u : elem_find(m.waiters, u) => elem_find(s.waiters, u)
  BY <1>1, <1>2 DEF Asleep
<1>4. ASSUME NEW list, Asleep(k, list), \A u : elem_find(list, u) => ~elem_find(s.waiters, u)
      PROVE  Asleep(n, list)
  BY <1>1, <1>2, <1>4 DEF Asleep
<1> QED BY <1>1, <1>2, <1>3, <1>4 DEF n, m

-----------------------------------------------------------------------------
\* list_remove() takes out just its argument.
LEMMA RemoveFacts ==
    ASSUME NEW list \in Seq(Tasks), NoDuplicates(list), NEW t, elem_find(list, t)
    PROVE  /\ list_remove(list, t) \in Seq(Tasks)
           /\ \A u : elem_find(list_remove(list, t), u) <=> elem_find(list, u) /\ u # t
           /\ NoDuplicates(list_remove(list, t))
<1> DEFINE i == CHOOSE j \in DOMAIN list : list[j] = t
           a == SubSeq(list, 1, i - 1)
           b == SubSeq(list, i + 1, Len(list))
           n == list_remove(list, t)
<1>1. i \in 1..Len(list) /\ list[i] = t
  BY DEF elem_find
<1>2. n = a \o b
  BY DEF list_remove
<1>3. a \in Seq(Tasks) /\ Len(a) = i - 1 /\ \A j \in 1..i - 1 : a[j] = list[j]
  BY <1>1
<1>4. /\ b \in Seq(Tasks) /\ Len(b) = Len(list) - i
      /\ \A j \in 1..Len(list) - i : b[j] = list[i + j]
  BY <1>1
<1> HIDE DEF i, a, b, n
<1>5. /\ n \in Seq(Tasks) /\ Len(n) = Len(list) - 1
      /\ \A j \in 1..i - 1 : n[j] = list[j]
      /\ \A j \in i..Len(list) - 1 : n[j] = list[j + 1]
  <2>1. /\ n \in Seq(Tasks) /\ Len(n) = Len(a) + Len(b)
        /\ \A j \in 1..Len(a) : n[j] = a[j]
        /\ \A j \in Len(a) + 1..Len(a) + Len(b) : n[j] = b[j - Len(a)]
    <3>1. Len(a) \in Nat /\ Len(b) \in Nat
      BY <1>3, <1>4
    <3>2. /\ a \o b \in Seq(Tasks) /\ Len(a \o b) = Len(a) + Len(b)
          /\ \A j \in 1..Len(a) + Len(b) :
                (a \o b)[j] = IF j <= Len(a) THEN a[j] ELSE b[j - Len(a)]
      BY <1>3, <1>4, ConcatProperties, ZenonT(60)
    <3> QED BY <1>2, <3>1, <3>2
  <2>2. Len(list) \in Nat
    OBVIOUS
  <2>3. ASSUME NEW j \in i..Len(list) - 1 PROVE n[j] = list[j + 1]
    <3>1. j \in Len(a) + 1..Len(a) + Len(b) /\ j - Len(a) \in 1..Len(list) - i
          /\ i + (j - Len(a)) = j + 1
      BY <1>1, <1>3, <1>4, <2>2
    <3> QED BY <1>4, <2>1, <3>1
  <2> QED BY <1>1, <1>3, <1>4, <2>1, <2>2, <2>3
<1>6. DOMAIN n = 1..Len(list) - 1 /\ DOMAIN list = 1..Len(list) /\ Len(list) \in Nat
  BY <1>5
<1>7. ASSUME NEW u, elem_find(n, u) PROVE elem_find(list, u) /\ u # t
  <2>1. PICK j \in 1..Len(list) - 1 : n[j] = u
    BY <1>6, <1>7 DEF elem_find
  <2>2. CASE j < i
    <3>1. u = list[j] /\ j \in DOMAIN list /\ j # i /\ i \in DOMAIN list
      BY <1>1, <1>5, <1>6, <2>1, <2>2
    <3> QED BY <1>1, <3>1 DEF elem_find, NoDuplicates
  <2>3. CASE j >= i
    <3>1. u = list[j + 1] /\ j + 1 \in DOMAIN list /\ j + 1 # i
      BY <1>1, <1>5, <1>6, <2>1, <2>3
    <3> QED BY <1>1, <1>6, <3>1 DEF elem_find, NoDuplicates
  <2> QED BY <1>1, <2>1, <2>2, <2>3
<1>8. ASSUME NEW u, elem_find(list, u), u # t PROVE elem_find(n, u)
  <2>1. PICK j \in 1..Len(list) : list[j] = u
    BY <1>6, <1>8 DEF elem_find
  <2>2. j # i
    BY <1>1, <1>8, <2>1
  <2>3. CASE j < i
    <3>1. j \in DOMAIN n /\ n[j] = u
      BY <1>1, <1>5, <1>6, <2>1, <2>3
    <3> QED BY <3>1 DEF elem_find
  <2>4. CASE j > i
    <3>1. j - 1 \in i..Len(list) - 1 /\ n[j - 1] = list[(j - 1) + 1]
      BY <1>1, <1>5, <1>6, <2>1, <2>4
    <3> QED BY <1>1, <1>6, <2>1, <3>1 DEF elem_find
  <2> QED BY <1>1, <2>1, <2>2, <2>3, <2>4
<1>9. NoDuplicates(n)
  <2> DEFINE at(j) == IF j < i THEN j ELSE j + 1
  <2>1. \A j \in DOMAIN n : at(j) \in DOMAIN list /\ n[j] = list[at(j)]
    BY <1>1, <1>5, <1>6
  <2>2. \A j, k \in DOMAIN n : at(j) = at(k) => j = k
    BY <1>1, <1>6
  <2> HIDE DEF at
  <2> QED BY <2>1, <2>2 DEF NoDuplicates
<1> QED BY <1>5, <1>7, <1>8, <1>9 DEF n

-----------------------------------------------------------------------------
(* Which tasks sleep, exactly: the idle task apart, a step wakes nobody and  *)
(* puts nobody to sleep but those it is for                                  *)

Sleeps(k, t) == k.status[t] = "BLOCKED" /\ ~elem_find(k.ready, t)

\* The same tasks sleep in n as in k, but for those of woken and asleep.
SleepersMove(k, n, woken, asleep) ==
    \A u \in Tasks \ {idle_task} :
        Sleeps(n, u) <=> (Sleeps(k, u) /\ u \notin woken) \/ u \in asleep

\* The task that blocks falls asleep.
LEMMA SleepersBlocked ==
    ASSUME NEW k, NEW n, SchedInv(k), SchedInv(n), Blocked(k, n, "BLOCKED")
    PROVE  SleepersMove(k, n, {}, {k.running})
<1>1. /\ k.running \in Tasks /\ k.status \in [Tasks -> Status] /\ n.running \in Tasks
      /\ k.status[k.running] = "RUNNING" /\ ~elem_find(k.ready, k.running)
  BY StateFields, RunningNotQueued DEF SchedInv
<1>2. \A u \in Tasks : n.status[u] = IF u = n.running THEN "RUNNING"
                                    ELSE IF u = k.running THEN "BLOCKED" ELSE k.status[u]
  BY <1>1 DEF Blocked
<1>3. /\ elem_find(k.ready, n.running) \/ n.running = idle_task
      /\ \A u : elem_find(n.ready, u) <=> elem_find(k.ready, u) /\ u # n.running
  BY DEF Blocked
<1>4. ASSUME NEW u \in Tasks \ {idle_task}
      PROVE  Sleeps(n, u) <=> Sleeps(k, u) \/ u = k.running
  <2>1. CASE u = n.running
    BY <1>1, <1>2, <1>3, <2>1 DEF Sleeps
  <2>2. CASE u # n.running
    BY <1>1, <1>2, <1>3, <2>2 DEF Sleeps
  <2> QED BY <2>1, <2>2
<1> QED BY <1>4 DEF SleepersMove

\* The timer interrupt leaves all as they are.
LEMMA SleepersTime ==
    ASSUME NEW k, SchedInv(k)
    PROVE  SleepersMove(k, intr_time_handle(k), {}, {})
<1> DEFINE n == intr_time_handle(k)
<1>1. /\ SchedInv(n)
      /\ \/ Requeued(k, n)
         \/ n.running = k.running /\ n.status = k.status /\ n.ready = k.ready
  BY TimeFacts
<1>2. /\ k.running \in Tasks /\ k.status \in [Tasks -> Status]
      /\ k.status[k.running] = "RUNNING" /\ ~elem_find(k.ready, k.running)
  BY StateFields, RunningNotQueued DEF SchedInv
<1>3. n.running \in Tasks
  BY <1>1, StateFields DEF SchedInv
<1> HIDE DEF n
<1>4. CASE Requeued(k, n)
  <2>1. \A u \in Tasks : n.status[u] = IF u = n.running THEN "RUNNING"
                                      ELSE IF u = k.running THEN "READY" ELSE k.status[u]
    BY <1>2, <1>3, <1>4 DEF Requeued
  <2> QED BY <1>2, <1>4, <2>1 DEF Requeued, Sleeps, SleepersMove, n
<1>5. CASE n.running = k.running /\ n.status = k.status /\ n.ready = k.ready
  BY <1>5 DEF Sleeps, SleepersMove, n
<1> QED BY <1>1, <1>4, <1>5

\* So does create_task() in a free page.
LEMMA SleepersCreate ==
    ASSUME NEW k, SchedInv(k), NEW t \in Tasks, k.status[t] = "DIED"
    PROVE  SleepersMove(k, create_task(k, t), {}, {})
<1> DEFINE n == create_task(k, t)
<1>1. /\ k.status \in [Tasks -> Status]
      /\ n.status = [k.status EXCEPT ![t] = "READY"]
      /\ \A u : elem_find(n.ready, u) <=> elem_find(k.ready, u) \/ u = t
  BY CreateFacts, StateFields DEF SchedInv
<1> HIDE DEF n
<1>2. \A u \in Tasks : n.status[u] = IF u = t THEN "READY" ELSE k.status[u]
  BY <1>1
<1> QED BY <1>1, <1>2 DEF Sleeps, SleepersMove, n

\* task_unblock() wakes the task that it is for.
LEMMA SleepersUnblock ==
    ASSUME NEW k, SchedInv(k), NEW t \in Tasks, Sleeps(k, t)
    PROVE  LET n == task_unblock(k, t)
           IN  SchedInv(n) /\ n.running = k.running /\ SleepersMove(k, n, {t}, {})
<1> DEFINE n == task_unblock(k, t)
<1>1. /\ SchedInv(n) /\ n.running = k.running /\ n.status = k.status
      /\ \A u : elem_find(n.ready, u) <=> elem_find(k.ready, u) \/ u = t
  BY UnblockInv DEF Sleeps
<1> HIDE DEF n
<1> QED BY <1>1 DEF Sleeps, SleepersMove, n

\* sema_up() wakes the task that it takes out of the list.
LEMMA SleepersUp ==
    ASSUME NEW k, SchedInv(k), NEW s \in SemaState, s.value = 0, NoDuplicates(s.waiters),
           \A u \in Tasks : elem_find(s.waiters, u) => Sleeps(k, u)
    PROVE  LET n == sema_up_sched(k, s)
               m == sema_up(s)
               woken == {u \in Tasks : elem_find(s.waiters, u) /\ ~elem_find(m.waiters, u)}
           IN  /\ SchedInv(n) /\ n.running = k.running /\ SleepersMove(k, n, woken, {})
               /\ m \in SemaState /\ m.value = 1 /\ NoDuplicates(m.waiters)
               /\ \A u : elem_find(m.waiters, u) => elem_find(s.waiters, u)
<1> DEFINE n == sema_up_sched(k, s)
           m == sema_up(s)
           woken == {u \in Tasks : elem_find(s.waiters, u) /\ ~elem_find(m.waiters, u)}
<1>1. /\ SchedInv(n) /\ n.running = k.running /\ n.status = k.status
      /\ \A u : elem_find(n.ready, u) <=>
            elem_find(k.ready, u) \/ (s.waiters # <<>> /\ u = Head(s.waiters))
  BY SemaUpSched DEF Sleeps
<1>2. /\ m \in SemaState /\ m.value = 1 /\ NoDuplicates(m.waiters)
      /\ s.waiters = <<>> => m.waiters = s.waiters
      /\ s.waiters # <<>> =>
            /\ Head(s.waiters) \in Tasks /\ elem_find(s.waiters, Head(s.waiters))
            /\ \A u : elem_find(m.waiters, u) <=>
                        elem_find(s.waiters, u) /\ u # Head(s.waiters)
  BY SemaUpFacts
<1> HIDE DEF n, m
<1>3. \A u \in Tasks : u \in woken <=> s.waiters # <<>> /\ u = Head(s.waiters)
  BY <1>2
<1>4. SleepersMove(k, n, woken, {})
  <2> HIDE DEF woken
  <2> QED BY <1>1, <1>3 DEF Sleeps, SleepersMove
<1> QED BY <1>1, <1>2, <1>4 DEF n, m

\* sema_down() that finds the value 0 puts the task into the list and to sleep.
LEMMA SleepersWait ==
    ASSUME NEW k, SchedInv(k), k.running # idle_task, NEW s \in SemaState,
           NoDuplicates(s.waiters), \A u \in Tasks : elem_find(s.waiters, u) => Sleeps(k, u)
    PROVE  LET n == sema_wait_sched(k, s)
               m == sema_wait(s, k.running)
           IN  /\ SchedInv(n) /\ SleepersMove(k, n, {}, {k.running})
               /\ m \in SemaState /\ m.value = s.value /\ NoDuplicates(m.waiters)
               /\ \A u : elem_find(m.waiters, u) <=> elem_find(s.waiters, u) \/ u = k.running
<1> DEFINE n == sema_wait_sched(k, s)
           m == sema_wait(s, k.running)
<1>1. k \in SchedState /\ k.running \in Tasks /\ k.status[k.running] = "RUNNING"
  BY StateFields, RunningNotQueued DEF SchedInv
<1>2. ~elem_find(s.waiters, k.running)
  BY <1>1 DEF Sleeps
<1>3. /\ n = task_block(k, "BLOCKED")
      /\ m \in SemaState /\ m.value = s.value /\ NoDuplicates(m.waiters)
      /\ \A u : elem_find(m.waiters, u) <=> elem_find(s.waiters, u) \/ u = k.running
  BY <1>1, <1>2, SemaWaitFacts
<1> HIDE DEF n, m
<1>4. SchedInv(n) /\ Blocked(k, n, "BLOCKED")
  BY <1>3, BlockFacts
<1> QED BY <1>3, <1>4, SleepersBlocked DEF n, m

-----------------------------------------------------------------------------
(* The ring of device/ioqueue.c *)

\* A position before two turns of the ring are over.
Wrapped(x) == IF x < bufsize THEN x ELSE x - bufsize

LEMMA Wrap ==
    ASSUME NEW x \in 0..2 * bufsize - 1
    PROVE  x % bufsize = Wrapped(x)
BY IoQueueAssumption DEF Wrapped

LEMMA RingFields ==
    ASSUME NEW r \in RingState
    PROVE  /\ r.buf \in [0..bufsize - 1 -> Bytes]
           /\ r.head \in 0..bufsize - 1 /\ r.tail \in 0..bufsize - 1
           /\ bufsize \in Nat \ {0} /\ ioq_length(r) \in 0..bufsize - 1
BY IoQueueAssumption DEF RingState, ioq_length

LEMMA NextPos ==
    ASSUME NEW x \in 0..bufsize - 1
    PROVE  /\ next_pos(x) \in 0..bufsize - 1
           /\ next_pos(x) = IF x = bufsize - 1 THEN 0 ELSE x + 1
<1>1. x + 1 \in 0..2 * bufsize - 1 /\ bufsize \in Nat \ {0}
  BY IoQueueAssumption
<1>2. (x + 1) % bufsize = IF x + 1 < bufsize THEN x + 1 ELSE x + 1 - bufsize
  BY <1>1, Wrap DEF Wrapped
<1> QED BY <1>1, <1>2 DEF next_pos

\* The sequence that the ring stands for.
LEMMA ContentsFacts ==
    ASSUME NEW r \in RingState
    PROVE  /\ Contents(r) \in Seq(Bytes) /\ Len(Contents(r)) = ioq_length(r)
           /\ \A i \in 1..ioq_length(r) : Contents(r)[i] = r.buf[Wrapped(r.tail + i - 1)]
<1> DEFINE n == ioq_length(r)
<1>1. /\ r.buf \in [0..bufsize - 1 -> Bytes] /\ r.tail \in 0..bufsize - 1
      /\ bufsize \in Nat \ {0} /\ n \in 0..bufsize - 1
  BY RingFields
<1> HIDE DEF n
<1>2. ASSUME NEW i \in 1..n
      PROVE  /\ (r.tail + i - 1) % bufsize = Wrapped(r.tail + i - 1)
             /\ r.buf[Wrapped(r.tail + i - 1)] \in Bytes
  <2>1. PICK x \in 0..2 * bufsize - 1 : x = r.tail + i - 1
    BY <1>1
  <2>2. x % bufsize = Wrapped(x)
    BY Wrap
  <2>3. Wrapped(x) \in 0..bufsize - 1
    BY <1>1 DEF Wrapped
  <2> QED BY <1>1, <2>1, <2>2, <2>3
<1>3. Contents(r) = [i \in 1..n |-> r.buf[(r.tail + i - 1) % bufsize]]
  BY DEF Contents, n
<1>4. \A i \in 1..n : Contents(r)[i] = r.buf[Wrapped(r.tail + i - 1)]
  BY <1>2, <1>3
<1>5. Contents(r) \in [1..n -> Bytes]
  BY <1>2, <1>3
<1>6. Contents(r) \in Seq(Bytes) /\ Len(Contents(r)) = n
  BY <1>1, <1>5
<1> QED BY <1>4, <1>6 DEF n

LEMMA InitRing == ioqueue_init \in RingState /\ Contents(ioqueue_init) = <<>>
<1>1. (CHOOSE b \in Bytes : TRUE) \in Bytes
  BY IoQueueAssumption
<1>2. ioqueue_init \in RingState /\ ioqueue_init.head = 0 /\ ioqueue_init.tail = 0
  BY <1>1, IoQueueAssumption DEF ioqueue_init, RingState
<1>3. ioq_length(ioqueue_init) = 0
  BY <1>2 DEF ioq_length
<1> QED BY <1>2, <1>3, ContentsFacts

\* The end of ioq_putchar(): the byte is appended.
LEMMA RingPut ==
    ASSUME NEW r \in RingState, NEW b \in Bytes, ~ioq_full(r)
    PROVE  /\ ring_put(r, b) \in RingState
           /\ Contents(ring_put(r, b)) = Append(Contents(r), b)
           /\ Len(Contents(r)) < bufsize - 1
<1> DEFINE n == ring_put(r, b)
           l == ioq_length(r)
<1>1. /\ r.buf \in [0..bufsize - 1 -> Bytes]
      /\ r.head \in 0..bufsize - 1 /\ r.tail \in 0..bufsize - 1
      /\ bufsize \in Nat \ {0} /\ l \in 0..bufsize - 1
  BY RingFields
<1>2. /\ next_pos(r.head) \in 0..bufsize - 1
      /\ next_pos(r.head) = IF r.head = bufsize - 1 THEN 0 ELSE r.head + 1
  BY <1>1, NextPos
<1>3. /\ n.buf = [r.buf EXCEPT ![r.head] = b] /\ n.head = next_pos(r.head)
      /\ n.tail = r.tail /\ n \in RingState
  BY <1>1, <1>2 DEF ring_put, RingState
<1> HIDE DEF n
<1>4. next_pos(r.head) # r.tail
  BY DEF ioq_full
<1>5. l < bufsize - 1 /\ ioq_length(n) = l + 1
  BY <1>1, <1>2, <1>3, <1>4, SMTT(60) DEF ioq_length
<1>6. r.head = IF r.tail + l < bufsize THEN r.tail + l ELSE r.tail + l - bufsize
  BY <1>1, SMTT(60) DEF ioq_length
<1>7. /\ Contents(r) \in Seq(Bytes) /\ Len(Contents(r)) = l
      /\ \A i \in 1..l : Contents(r)[i] = r.buf[Wrapped(r.tail + i - 1)]
  BY ContentsFacts
<1>8. /\ Contents(n) \in Seq(Bytes) /\ Len(Contents(n)) = l + 1
      /\ \A i \in 1..l + 1 : Contents(n)[i] = n.buf[Wrapped(r.tail + i - 1)]
  BY <1>3, <1>5, ContentsFacts, ZenonT(60)
<1> HIDE DEF l
<1>9. /\ Wrapped(r.tail + (l + 1) - 1) = r.head
      /\ \A i \in 1..l : /\ Wrapped(r.tail + i - 1) \in 0..bufsize - 1
                         /\ Wrapped(r.tail + i - 1) # r.head
  BY <1>1, <1>5, <1>6, SMTT(60) DEF Wrapped
<1>10. Contents(n)[l + 1] = b
  <2>1. Contents(n)[l + 1] = n.buf[Wrapped(r.tail + (l + 1) - 1)]
    BY <1>1, <1>8
  <2> QED BY <1>1, <1>3, <1>9, <2>1
<1>11. ASSUME NEW i \in 1..l PROVE Contents(n)[i] = Contents(r)[i]
  <2>1. PICK x \in 0..bufsize - 1 : x = Wrapped(r.tail + i - 1) /\ x # r.head
    BY <1>9
  <2>2. n.buf[x] = r.buf[x]
    BY <1>1, <1>3, <2>1
  <2>3. i \in 1..l + 1
    BY <1>1
  <2> QED BY <1>7, <1>8, <2>1, <2>2, <2>3
<1>12. /\ Append(Contents(r), b) \in Seq(Bytes) /\ Len(Append(Contents(r), b)) = l + 1
       /\ Append(Contents(r), b)[l + 1] = b
       /\ \A i \in 1..l : Append(Contents(r), b)[i] = Contents(r)[i]
  BY <1>7, AppendProperties
<1>13. \A i \in 1..l + 1 : Contents(n)[i] = Append(Contents(r), b)[i]
  BY <1>1, <1>10, <1>11, <1>12
<1>14. Contents(n) = Append(Contents(r), b)
  BY <1>8, <1>12, <1>13, SeqEqual
<1> QED BY <1>3, <1>5, <1>7, <1>14 DEF n

\* The end of ioq_getchar(): the oldest byte is taken.
LEMMA RingGet ==
    ASSUME NEW r \in RingState, ~ioq_empty(r)
    PROVE  /\ ring_get(r) \in RingState /\ ring_byte(r) \in Bytes
           /\ Contents(r) # <<>> /\ ring_byte(r) = Head(Contents(r))
           /\ Contents(ring_get(r)) = Tail(Contents(r))
           /\ ioq_length(ring_get(r)) = ioq_length(r) - 1
<1> DEFINE n == ring_get(r)
           l == ioq_length(r)
<1>1. /\ r.buf \in [0..bufsize - 1 -> Bytes]
      /\ r.head \in 0..bufsize - 1 /\ r.tail \in 0..bufsize - 1
      /\ bufsize \in Nat \ {0} /\ l \in 0..bufsize - 1
  BY RingFields
<1>2. /\ next_pos(r.tail) \in 0..bufsize - 1
      /\ next_pos(r.tail) = IF r.tail = bufsize - 1 THEN 0 ELSE r.tail + 1
  BY <1>1, NextPos
<1>3. /\ n.buf = r.buf /\ n.head = r.head
      /\ n.tail = next_pos(r.tail) /\ n \in RingState
  BY <1>1, <1>2 DEF ring_get, RingState
<1> HIDE DEF n
<1>4. r.head # r.tail
  BY DEF ioq_empty
<1>5. l > 0 /\ ioq_length(n) = l - 1
  BY <1>1, <1>2, <1>3, <1>4, SMTT(60) DEF ioq_length
<1>6. /\ Contents(r) \in Seq(Bytes) /\ Len(Contents(r)) = l
      /\ \A i \in 1..l : Contents(r)[i] = r.buf[Wrapped(r.tail + i - 1)]
  BY ContentsFacts
<1>7. /\ Contents(n) \in Seq(Bytes) /\ Len(Contents(n)) = l - 1
      /\ \A i \in 1..l - 1 : Contents(n)[i] = r.buf[Wrapped(n.tail + i - 1)]
  BY <1>3, <1>5, ContentsFacts
<1> HIDE DEF l
<1>8. /\ Wrapped(r.tail + 1 - 1) = r.tail
      /\ \A i \in 1..l - 1 : Wrapped(n.tail + i - 1) = Wrapped(r.tail + (i + 1) - 1)
  BY <1>1, <1>2, <1>3 DEF Wrapped
<1>9. ring_byte(r) = Contents(r)[1] /\ ring_byte(r) \in Bytes
  BY <1>1, <1>5, <1>6, <1>8 DEF ring_byte
<1>10. Contents(r) # <<>> /\ Head(Contents(r)) = Contents(r)[1]
  BY <1>5, <1>6
<1>11. /\ Tail(Contents(r)) \in Seq(Bytes) /\ Len(Tail(Contents(r))) = l - 1
       /\ \A i \in 1..l - 1 : Tail(Contents(r))[i] = Contents(r)[i + 1]
  BY <1>6, <1>10, HeadTailProperties
<1>12. \A i \in 1..l - 1 : i + 1 \in 1..l
  BY <1>1
<1>13. \A i \in 1..l - 1 : Contents(n)[i] = Tail(Contents(r))[i]
  <2> SUFFICES ASSUME NEW i \in 1..l - 1 PROVE Contents(n)[i] = Tail(Contents(r))[i]
    OBVIOUS
  <2>1. Contents(n)[i] = r.buf[Wrapped(r.tail + (i + 1) - 1)]
    BY <1>7, <1>8
  <2>2. Contents(r)[i + 1] = r.buf[Wrapped(r.tail + (i + 1) - 1)]
    BY <1>6, <1>12
  <2>3. Tail(Contents(r))[i] = Contents(r)[i + 1]
    BY <1>11
  <2> QED BY <2>1, <2>2, <2>3
<1>14. Contents(n) = Tail(Contents(r))
  BY <1>7, <1>11, <1>13, SeqEqual
<1> QED BY <1>3, <1>5, <1>9, <1>10, <1>14 DEF n, l

-----------------------------------------------------------------------------
(* The scheduler under its most general client: module Task *)

\* The idle task is the only one in the loop of idle(); every other task is in
\* user mode or in a system call.
ClientPcOK ==
    /\ pc \in [Tasks -> {"user", "kernel"} \cup IdleLabels]
    /\ \A t \in Tasks : pc[t] \in IdleLabels <=> t = idle_task

\* The inductive invariant.
ClientInv == SchedInv(ks) /\ ClientPcOK

LEMMA ClientInit == TaskInit => ClientInv
<1> SUFFICES ASSUME TaskInit PROVE ClientInv
  OBVIOUS
<1>1. SchedInv(ks)
  BY TaskInitFacts DEF TaskInit, KernelInit
<1>2. ClientPcOK
  BY DEF TaskInit, KernelInit, ClientPcOK, IdleLabels
<1> QED BY <1>1, <1>2 DEF ClientInv

LEMMA ClientNext == ClientInv /\ [TaskNext]_task_vars => ClientInv'
<1> SUFFICES ASSUME ClientInv, [TaskNext]_task_vars PROVE SchedInv(ks') /\ ClientPcOK'
  BY DEF ClientInv
<1> USE DEF IdleLabels
<1>0. /\ SchedInv(ks) /\ ClientPcOK /\ ks.running \in Tasks
  BY StateFields DEF ClientInv, SchedInv
<1>1. CASE IntrTime
  <2>1. SchedInv(ks')
    BY <1>0, <1>1, TimeFacts DEF IntrTime
  <2>2. ClientPcOK'
    BY <1>0, <1>1 DEF IntrTime, IntrExit, ClientPcOK
  <2> QED BY <2>1, <2>2
<1>2. CASE IntrAny
  <2>1. SchedInv(ks')
    BY <1>0, <1>2, UnblockInv DEF IntrAny, MayUnblock
  <2>2. ClientPcOK'
    BY <1>0, <1>2 DEF IntrAny, IntrExit, ClientPcOK
  <2> QED BY <2>1, <2>2
<1>3. CASE IdleBlock
  <2>1. SchedInv(ks')
    BY <1>0, <1>3, BlockFacts DEF IdleBlock
  <2>2. ClientPcOK'
    BY <1>0, <1>3 DEF IdleBlock, ClientPcOK
  <2> QED BY <2>1, <2>2
<1>4. CASE IdleHlt
  BY <1>0, <1>4 DEF IdleHlt, ClientPcOK
<1>5. CASE EnterKernel
  BY <1>0, <1>5 DEF EnterKernel, Running, Goto, ClientPcOK
<1>6. CASE LeaveKernel
  BY <1>0, <1>6 DEF LeaveKernel, Running, Goto, ClientPcOK
<1>7. ASSUME NEW status \in {"BLOCKED", "HANGING", "WAITING"}, Block(status)
      PROVE  SchedInv(ks') /\ ClientPcOK'
  <2>1. ks.running # idle_task
    BY <1>0, <1>7 DEF Block, Running, ClientPcOK
  <2>2. SchedInv(ks')
    BY <1>0, <1>7, <2>1, BlockFacts DEF Block
  <2> QED BY <1>0, <1>7, <2>2 DEF Block, ClientPcOK
<1>8. CASE YieldCpu
  <2>1. SchedInv(ks')
    BY <1>0, <1>8, YieldFacts DEF YieldCpu
  <2> QED BY <1>0, <1>8, <2>1 DEF YieldCpu, ClientPcOK
<1>9. ASSUME NEW t \in Tasks, Unblock(t) PROVE SchedInv(ks') /\ ClientPcOK'
  <2>1. SchedInv(ks')
    BY <1>0, <1>9, UnblockInv DEF Unblock, MayUnblock
  <2> QED BY <1>0, <1>9, <2>1 DEF Unblock, ClientPcOK
<1>10. ASSUME NEW t \in Tasks, Create(t) PROVE SchedInv(ks') /\ ClientPcOK'
  <2>1. SchedInv(ks')
    BY <1>0, <1>10, CreateFacts DEF Create
  <2>2. t # idle_task
    BY <1>0, <1>10 DEF Create, SchedInv, IdleFallback, UniqueRunning, QueueSound,
                       elem_find
  <2> QED BY <1>0, <1>10, <2>1, <2>2 DEF Create, ClientPcOK
<1>11. ASSUME NEW t \in Tasks, Reap(t) PROVE SchedInv(ks') /\ ClientPcOK'
  <2>1. SchedInv(ks')
    BY <1>0, <1>11, ReapFacts DEF Reap
  <2> QED BY <1>0, <1>11, <2>1 DEF Reap, ClientPcOK
<1>12. CASE UNCHANGED task_vars
  BY <1>0, <1>12 DEF task_vars, ClientPcOK
<1> QED BY <1>1, <1>2, <1>3, <1>4, <1>5, <1>6, <1>7, <1>8, <1>9, <1>10, <1>11, <1>12
        DEF TaskNext

\* Type correctness and soundness of the scheduler's state in every reachable
\* state.
THEOREM TaskInvariant == TaskSpec => []ClientInv
<1>1. ClientInv /\ [TaskNext]_task_vars => ClientInv'
  BY ClientNext
<1> QED BY ClientInit, <1>1, PTL DEF TaskSpec

\* No ASSERT of task/task.c fails under any client that respects the contract,
\* and every variable keeps its type.
THEOREM TaskNoPanic == TaskSpec => []AssertsHold
<1>1. ClientInv => AssertsHold
  BY DEF ClientInv, SchedInv, ClientPcOK, TaskTypeOK, AssertsHold
<1> QED BY TaskInvariant, <1>1, PTL

\* The ready list neither loses nor duplicates a task, and exactly one task runs.
THEOREM TaskRunQueue == TaskSpec => []QueueOK
<1>1. ClientInv => QueueOK
  BY DEF ClientInv, SchedInv, QueueOK
<1> QED BY TaskInvariant, <1>1, PTL

\* When schedule() finds the ready list empty the idle task can be woken.
THEOREM TaskIdleAvailable == TaskSpec => []IdleAvailable
<1>1. ClientInv => IdleAvailable
  BY DEF ClientInv, SchedInv, IdleAvailable
<1> QED BY TaskInvariant, <1>1, PTL

-----------------------------------------------------------------------------
(* The delay of a queued task *)

\* The tasks queued behind c in a list.
After(q, c) ==
    {t \in Tasks : \E i, j \in DOMAIN q : i < j /\ q[i] = c /\ q[j] = t}

\* A task behind c is in the list.
LEMMA AfterQueued ==
    ASSUME NEW q \in Seq(Tasks), NEW c \in Tasks, NEW t \in After(q, c)
    PROVE  elem_find(q, t)
BY DEF After, elem_find

\* list_push() in front of c puts nobody behind it.
LEMMA AfterPush ==
    ASSUME NEW q \in Seq(Tasks), NEW t \in Tasks, NEW c \in Tasks
    PROVE  After(q, c) \subseteq After(list_push(q, t), c)
<1> DEFINE l == list_push(q, t)
<1>1. /\ l \in Seq(Tasks) /\ Len(l) = Len(q) + 1
      /\ \A i \in 1..Len(q) : l[i + 1] = q[i]
  BY DEF list_push
<1>2. DOMAIN l = 1..Len(q) + 1 /\ DOMAIN q = 1..Len(q) /\ Len(q) \in Nat
  BY <1>1
<1> HIDE DEF l
<1> SUFFICES ASSUME NEW u \in After(q, c) PROVE u \in After(l, c)
  BY DEF l
<1>3. PICK i \in 1..Len(q), j \in 1..Len(q) : i < j /\ q[i] = c /\ q[j] = u
  BY <1>2 DEF After
<1>4. i + 1 \in DOMAIN l /\ j + 1 \in DOMAIN l /\ i + 1 < j + 1
  BY <1>2, <1>3
<1>5. l[i + 1] = c /\ l[j + 1] = u
  BY <1>1, <1>3
<1> QED BY <1>4, <1>5 DEF After

\* list_append() puts its argument behind all that are queued.
LEMMA AfterAppend ==
    ASSUME NEW q \in Seq(Tasks), NEW t \in Tasks, NEW c \in Tasks, elem_find(q, c)
    PROVE  After(q, c) \cup {t} \subseteq After(list_append(q, t), c)
<1> DEFINE l == list_append(q, t)
<1>1. /\ l \in Seq(Tasks) /\ Len(l) = Len(q) + 1 /\ l[Len(q) + 1] = t
      /\ \A i \in 1..Len(q) : l[i] = q[i]
  BY DEF list_append
<1>2. DOMAIN l = 1..Len(q) + 1 /\ DOMAIN q = 1..Len(q) /\ Len(q) \in Nat
  BY <1>1
<1> HIDE DEF l
<1>3. t \in After(l, c)
  <2>1. PICK i \in 1..Len(q) : q[i] = c
    BY <1>2 DEF elem_find
  <2>2. i \in DOMAIN l /\ Len(q) + 1 \in DOMAIN l /\ i < Len(q) + 1
    BY <1>2, <2>1
  <2> QED BY <2>1, <2>2, <1>1 DEF After
<1>4. ASSUME NEW u \in After(q, c) PROVE u \in After(l, c)
  <2>1. PICK i \in 1..Len(q), j \in 1..Len(q) : i < j /\ q[i] = c /\ q[j] = u
    BY <1>2 DEF After
  <2>2. i \in DOMAIN l /\ j \in DOMAIN l
    BY <1>2, <2>1
  <2> QED BY <2>1, <2>2, <1>1 DEF After
<1> QED BY <1>3, <1>4 DEF l

\* Taking another task than c off the front leaves who is behind c.
LEMMA AfterPop ==
    ASSUME NEW q \in Seq(Tasks), q # <<>>, NEW c \in Tasks, c # Head(q)
    PROVE  After(q, c) \subseteq After(Tail(q), c)
<1> DEFINE l == Tail(q)
<1>1. /\ l \in Seq(Tasks) /\ Len(l) = Len(q) - 1 /\ Head(q) = q[1]
      /\ Len(q) \in Nat /\ Len(q) > 0
  OBVIOUS
<1>2. /\ DOMAIN l = 1..Len(q) - 1 /\ DOMAIN q = 1..Len(q)
      /\ \A i \in 2..Len(q) : l[i - 1] = q[i] /\ i - 1 \in 1..Len(q) - 1
  BY <1>1
<1> HIDE DEF l
<1> SUFFICES ASSUME NEW u \in After(q, c) PROVE u \in After(l, c)
  BY DEF l
<1>3. PICK i \in 1..Len(q), j \in 1..Len(q) : i < j /\ q[i] = c /\ q[j] = u
  BY <1>2 DEF After
<1>4. i # 1
  BY <1>1, <1>3
<1>5. i \in 2..Len(q) /\ j \in 2..Len(q) /\ i - 1 < j - 1
  BY <1>3, <1>4, <1>1
<1>6. i - 1 \in DOMAIN l /\ j - 1 \in DOMAIN l /\ l[i - 1] = c /\ l[j - 1] = u
  BY <1>2, <1>3, <1>5
<1> QED BY <1>5, <1>6 DEF After

\* Which ticks count for the delay of c.
LEMMA SlotsDef ==
    ASSUME NEW k \in SchedState, NEW c \in Tasks
    PROVE  /\ Slots(k, c) \subseteq Tasks \X (0..255)
           /\ \A t, n : <<t, n>> \in Slots(k, c) <=>
                /\ t \in Tasks /\ t \notin After(k.ready, c) /\ t # c
                /\ k.status[t] # "DIED" /\ n \in 0..k.ticks[t]
<1>1. Behind(k, c) = After(k.ready, c)
  BY Zenon DEF Behind, After
<1>2. \A p : p \in Slots(k, c) <=>
        \E t \in Tasks \ (After(k.ready, c) \cup {c}) :
           k.status[t] # "DIED" /\ p \in {t} \X (0..k.ticks[t])
  BY <1>1 DEF Slots
<1>3. \A t \in Tasks : k.ticks[t] \in 0..255
  BY DEF SchedState
<1>4. \A t \in Tasks : \A n \in 0..k.ticks[t] : n \in 0..255
  BY <1>3, SMTT(60)
<1>5. Slots(k, c) \subseteq Tasks \X (0..255)
  BY <1>2, <1>4
<1> QED BY <1>2, <1>5

\* The delay does not grow if nobody comes from behind c to before it, and
\* whoever is not behind it neither begins to live nor gets more ticks.
Shortens(k, n, c) ==
    /\ n \in SchedState
    /\ After(k.ready, c) \subseteq After(n.ready, c)
    /\ \A t \in Tasks : t \notin After(n.ready, c) =>
          /\ k.status[t] = "DIED" => n.status[t] = "DIED"
          /\ n.ticks[t] <= k.ticks[t]

LEMMA SlotsShrink ==
    ASSUME NEW k \in SchedState, NEW n, NEW c \in Tasks, Shortens(k, n, c)
    PROVE  Slots(n, c) \subseteq Slots(k, c)
<1>0. n \in SchedState
  BY DEF Shortens
<1> SUFFICES ASSUME NEW p \in Slots(n, c) PROVE p \in Slots(k, c)
  OBVIOUS
<1>1. PICK t \in Tasks, m \in 0..255 : p = <<t, m>>
  BY <1>0, SlotsDef
<1>2. /\ t \notin After(n.ready, c) /\ t # c /\ n.status[t] # "DIED"
      /\ m \in 0..n.ticks[t]
  BY <1>0, <1>1, SlotsDef
<1>3. /\ t \notin After(k.ready, c) /\ k.status[t] # "DIED" /\ n.ticks[t] <= k.ticks[t]
  BY <1>2 DEF Shortens
<1>4. n.ticks[t] \in 0..255 /\ k.ticks[t] \in 0..255
  BY <1>0 DEF SchedState
<1>5. ASSUME NEW a \in 0..255, NEW b \in 0..255, NEW x \in 0..a, a <= b PROVE x \in 0..b
  <2>1. x \in Nat /\ a \in Nat /\ b \in Nat /\ x <= a
    BY SMTT(60)
  <2> QED BY <1>5, <2>1
<1>6. m \in 0..k.ticks[t]
  BY <1>2, <1>3, <1>4, <1>5, ZenonT(60)
<1> QED BY <1>1, <1>2, <1>3, <1>6, SlotsDef

\* schedule() with c in the list before and after it.
LEMMA ScheduleShortens ==
    ASSUME NEW k \in SchedState, NoDuplicates(k.ready), NEW c \in Tasks,
           elem_find(k.ready, c),
           \A t \in Tasks : elem_find(k.ready, t) => k.status[t] # "DIED",
           k.status[k.running] = "RUNNING" => ~elem_find(k.ready, k.running),
           elem_find(schedule(k).ready, c)
    PROVE  /\ Shortens(k, schedule(k), c)
           /\ k.status[k.running] = "RUNNING" => k.running \in After(schedule(k).ready, c)
<1> DEFINE r  == k.running
           k1 == IF k.status[r] = "RUNNING" THEN preempt(k) ELSE k
           n  == schedule(k)
<1>0. /\ r \in Tasks /\ k.ready \in Seq(Tasks) /\ k.status \in [Tasks -> Status]
      /\ k.ticks \in [Tasks -> 0..255]
  BY DEF SchedState
<1>3. /\ k1 \in SchedState /\ k1.ready \in Seq(Tasks) /\ k1.ready # <<>>
      /\ NoDuplicates(k1.ready)
      /\ After(k.ready, c) \subseteq After(k1.ready, c)
      /\ k.status[r] = "RUNNING" => r \in After(k1.ready, c)
      /\ \A t \in Tasks : t \notin After(k1.ready, c) =>
            k1.status[t] = k.status[t] /\ k1.ticks[t] = k.ticks[t]
      /\ \A t \in Tasks : elem_find(k1.ready, t) => k.status[t] # "DIED"
  <2>1. CASE k.status[r] = "RUNNING"
    <3>1. /\ k1 \in SchedState /\ k1.ready = list_append(k.ready, r)
          /\ k1.status = [k.status EXCEPT ![r] = "READY"]
          /\ k1.ticks = [k.ticks EXCEPT ![r] = Prio]
      BY <1>0, <2>1, AppendSeq, ZenonT(60) DEF preempt, ASSERT, SchedState, Status
    <3> HIDE DEF k1
    <3>2. k1.ready \in Seq(Tasks) /\ k1.ready # <<>> /\ NoDuplicates(k1.ready)
      <4>1. ~elem_find(k.ready, r)
        BY <2>1
      <4> HIDE DEF r
      <4> QED BY <1>0, <3>1, <4>1, AppendSeq, AppendNoDuplicates
    <3>3. After(k.ready, c) \cup {r} \subseteq After(k1.ready, c)
      BY <1>0, <3>1, AfterAppend
    <3>4. \A t \in Tasks : t # r => k1.status[t] = k.status[t] /\ k1.ticks[t] = k.ticks[t]
      BY <1>0, <3>1
    <3>5. \A t \in Tasks : elem_find(k1.ready, t) => k.status[t] # "DIED"
      BY <1>0, <2>1, <3>1, AppendElems
    <3>6. r \in After(k1.ready, c) /\ After(k.ready, c) \subseteq After(k1.ready, c)
      BY <3>3
    <3>7. \A t \in Tasks : t \notin After(k1.ready, c) =>
             k1.status[t] = k.status[t] /\ k1.ticks[t] = k.ticks[t]
      BY <3>4, <3>6
    <3>8. k1 \in SchedState
      BY <3>1
    <3> HIDE DEF r
    <3> QED BY <3>2, <3>5, <3>6, <3>7, <3>8, Zenon
  <2>2. CASE k.status[r] # "RUNNING"
    <3>1. k1 = k
      BY <2>2
    <3>2. k.ready # <<>>
      BY DEF elem_find
    <3> QED BY <1>0, <2>2, <3>1, <3>2
  <2> QED BY <2>1, <2>2
<1>4. n = switch_to_next(k1)
  BY <1>3 DEF schedule
<1> HIDE DEF k1
<1> DEFINE h == Head(k1.ready)
<1>5. h \in Tasks /\ elem_find(k1.ready, h) /\ Tail(k1.ready) \in Seq(Tasks)
  BY <1>3, PopFacts
<1>6. /\ n \in SchedState /\ n.ready = Tail(k1.ready) /\ n.ticks = k1.ticks
      /\ n.status = [k1.status EXCEPT ![h] = "RUNNING"]
  <2>1. n = [k1 EXCEPT !.status[h] = "RUNNING", !.running = h, !.ready = Tail(k1.ready)]
    BY <1>4 DEF switch_to_next
  <2>2. "RUNNING" \in Status
    BY DEF Status
  <2>3. Tail(k1.ready) \in Seq(Tasks)
    BY <1>5
  <2> HIDE DEF n, h
  <2> QED BY <1>3, <1>5, <2>3, <2>1, <2>2, ZenonT(60) DEF SchedState
<1> HIDE DEF n
<1>7. c # h
  BY <1>3, <1>6, PopFacts DEF n
<1>8. After(k1.ready, c) \subseteq After(n.ready, c)
  BY <1>3, <1>6, <1>7, AfterPop
<1>9. k1.status \in [Tasks -> Status] /\ k1.ticks \in [Tasks -> 0..255]
  BY <1>3 DEF SchedState
<1> HIDE DEF h
<1>10. ASSUME NEW t \in Tasks, t \notin After(n.ready, c)
       PROVE  /\ k.status[t] = "DIED" => n.status[t] = "DIED"
              /\ n.ticks[t] <= k.ticks[t]
  <2>1. k1.status[t] = k.status[t] /\ k1.ticks[t] = k.ticks[t]
    BY <1>10, <1>3, <1>8
  <2>2. k.ticks[t] \in 0..255
    BY <1>0
  <2>3. k.status[h] # "DIED"
    BY <1>3, <1>5
  <2> QED BY <1>6, <1>9, <2>1, <2>2, <2>3, SMTT(60)
<1> QED BY <1>3, <1>6, <1>8, <1>10 DEF Shortens, n

\* What is left of a slice, before and after a tick.
LEMMA TicksOrder ==
    ASSUME NEW f \in [Tasks -> 0..255], NEW t \in Tasks
    PROVE  /\ f[t] \in 0..255 /\ f[t] <= f[t] /\ f[t] \in 0..f[t]
           /\ f[t] # 0 => f[t] - 1 <= f[t] /\ f[t] \notin 0..(f[t] - 1)
OBVIOUS

\* No step of the scheduler or of its clients lengthens the delay of c.
LEMMA ClientShortens ==
    ASSUME ClientInv, [TaskNext]_task_vars, NEW c \in Tasks,
           elem_find(ks.ready, c), elem_find(ks'.ready, c)
    PROVE  Shortens(ks, ks', c)
<1>0. SchedInv(ks) /\ ks \in SchedState
  BY DEF ClientInv, SchedInv
<1>1. /\ ks.running \in Tasks /\ ks.status \in [Tasks -> Status]
      /\ ks.ready \in Seq(Tasks) /\ ks.ticks \in [Tasks -> 0..255]
      /\ ks.status[ks.running] = "RUNNING" /\ ~elem_find(ks.ready, ks.running)
      /\ NoDuplicates(ks.ready)
      /\ \A t \in Tasks : elem_find(ks.ready, t) => ks.status[t] # "DIED"
  BY <1>0, StateFields, RunningNotQueued, QueueSoundDef, ZenonT(60) DEF SchedInv
<1>2. ks' \in SchedState
  BY ClientNext DEF ClientInv, SchedInv
<1>3. \A t \in Tasks : ks.ticks[t] <= ks.ticks[t]
  BY <1>1, TicksOrder, ZenonT(60)
<1>4. CASE ks' = ks
  BY <1>2, <1>3, <1>4 DEF Shortens
<1>5. ASSUME NEW t \in Tasks, MayUnblock(t), ks' = task_unblock(ks, t)
      PROVE  Shortens(ks, ks', c)
  <2>1. /\ ks'.ready = list_push(ks.ready, t) /\ ks'.status = ks.status
        /\ ks'.ticks = ks.ticks
    BY <1>0, <1>5, UnblockFacts DEF MayUnblock, SchedInv
  <2> QED BY <1>1, <1>2, <1>3, <2>1, AfterPush DEF Shortens
<1>6. ASSUME NEW status \in {"BLOCKED", "HANGING", "WAITING"}, ks' = task_block(ks, status)
      PROVE  Shortens(ks, ks', c)
  <2> DEFINE m == [ks EXCEPT !.status[ks.running] = status]
  <2>1. ks' = schedule(m)
    BY <1>0, <1>6, AssertTrue DEF task_block, SchedInv
  <2>2. /\ m \in SchedState /\ m.ready = ks.ready /\ m.ticks = ks.ticks
        /\ m.running = ks.running /\ m.status = [ks.status EXCEPT ![ks.running] = status]
    BY <1>0, <1>1 DEF SchedState, Status
  <2> HIDE DEF m
  <2>3. m.status[m.running] # "RUNNING" /\ \A t \in Tasks : t # ks.running => m.status[t] = ks.status[t]
    BY <1>1, <2>2
  <2>4. Shortens(m, ks', c)
    BY <1>1, <2>1, <2>2, <2>3, ScheduleShortens
  <2> QED BY <1>1, <2>2, <2>3, <2>4 DEF Shortens
<1>7. ASSUME ks' = task_yield(ks) PROVE Shortens(ks, ks', c)
  <2> DEFINE m == [ks EXCEPT !.ready = list_append(ks.ready, ks.running),
                             !.status[ks.running] = "READY"]
  <2>1. ks' = schedule(m)
    BY <1>0, <1>1, <1>7, AssertTrue DEF task_yield, SchedInv
  <2>2. list_append(ks.ready, ks.running) \in Seq(Tasks)
    BY <1>1, AppendSeq
  <2>3. /\ m \in SchedState /\ m.ready = list_append(ks.ready, ks.running)
        /\ m.ticks = ks.ticks
        /\ m.running = ks.running /\ m.status = [ks.status EXCEPT ![ks.running] = "READY"]
    BY <1>0, <1>1, <2>2 DEF SchedState, Status
  <2> HIDE DEF m
  <2>4. /\ NoDuplicates(m.ready) /\ elem_find(m.ready, c)
        /\ \A t \in Tasks : elem_find(m.ready, t) => elem_find(ks.ready, t) \/ t = ks.running
    BY <1>1, <2>3, AppendElems, AppendNoDuplicates
  <2>5. /\ m.status[m.running] # "RUNNING" /\ m.status[ks.running] # "DIED"
        /\ \A t \in Tasks : t # ks.running => m.status[t] = ks.status[t]
    BY <1>1, <2>3
  <2>6. Shortens(m, ks', c)
    <3>1. /\ m \in SchedState /\ NoDuplicates(m.ready) /\ elem_find(m.ready, c)
          /\ m.status[m.running] # "RUNNING" /\ elem_find(schedule(m).ready, c)
      BY <1>1, <2>1, <2>3, <2>4, <2>5
    <3>2. \A t \in Tasks : elem_find(m.ready, t) => m.status[t] # "DIED"
      BY <1>1, <2>4, <2>5
    <3> QED BY <1>1, <2>1, <3>1, <3>2, ScheduleShortens
  <2>7. After(ks.ready, c) \cup {ks.running} \subseteq After(m.ready, c)
    BY <1>1, <2>3, AfterAppend
  <2> QED BY <1>1, <2>3, <2>5, <2>6, <2>7 DEF Shortens
<1>8. ASSUME ks' = intr_time_handle(ks) PROVE Shortens(ks, ks', c)
  <2>1. CASE ks.ticks[ks.running] = 0
    BY <1>0, <1>1, <1>8, <2>1, ScheduleShortens DEF intr_time_handle
  <2>2. CASE ks.ticks[ks.running] # 0
    <3>1. ks' = [ks EXCEPT !.ticks[ks.running] = ks.ticks[ks.running] - 1]
      BY <1>8, <2>2 DEF intr_time_handle
    <3>2. /\ ks'.ready = ks.ready /\ ks'.status = ks.status
          /\ ks'.ticks = [ks.ticks EXCEPT ![ks.running] = ks.ticks[ks.running] - 1]
      BY <1>0, <3>1 DEF SchedState
    <3>3. \A t \in Tasks : ks'.ticks[t] <= ks.ticks[t]
      <4>1. ks.ticks[ks.running] - 1 <= ks.ticks[ks.running]
        BY <1>1, <2>2, TicksOrder
      <4> QED BY <1>1, <1>3, <3>2, <4>1
    <3> QED BY <1>2, <3>2, <3>3 DEF Shortens
  <2> QED BY <2>1, <2>2
<1>9. ASSUME NEW t \in Tasks, ks.status[t] = "DIED", ks' = create_task(ks, t)
      PROVE  Shortens(ks, ks', c)
  <2>1. ~elem_find(ks.ready, t)
    BY <1>1, <1>9
  <2>2. ks' = [ks EXCEPT !.status[t] = "READY", !.ticks[t] = Prio,
                         !.ready = list_append(ks.ready, t)]
    BY <1>0, <1>9, <2>1, AssertTrue DEF create_task, SchedInv
  <2>3. /\ ks'.ready = list_append(ks.ready, t)
        /\ ks'.status = [ks.status EXCEPT ![t] = "READY"]
        /\ ks'.ticks = [ks.ticks EXCEPT ![t] = Prio]
    BY <1>0, <2>2 DEF SchedState
  <2>4. After(ks.ready, c) \cup {t} \subseteq After(ks'.ready, c)
    BY <1>1, <2>3, AfterAppend
  <2>5. \A u \in Tasks : u # t => ks'.status[u] = ks.status[u] /\ ks'.ticks[u] = ks.ticks[u]
    BY <1>1, <2>3
  <2> QED BY <1>2, <1>3, <2>4, <2>5 DEF Shortens
<1>10. ASSUME NEW t \in Tasks, ks' = [ks EXCEPT !.status[t] = "DIED"]
       PROVE  Shortens(ks, ks', c)
  <2>1. /\ ks'.ready = ks.ready /\ ks'.ticks = ks.ticks
        /\ ks'.status = [ks.status EXCEPT ![t] = "DIED"]
    BY <1>0, <1>10 DEF SchedState
  <2>2. \A u \in Tasks : ks.status[u] = "DIED" => ks'.status[u] = "DIED"
    BY <1>1, <2>1
  <2> QED BY <1>2, <1>3, <2>1, <2>2 DEF Shortens
<1>11. CASE IntrTime
  BY <1>11, <1>8 DEF IntrTime
<1>12. CASE IntrAny
  BY <1>12, <1>4, <1>5 DEF IntrAny
<1>13. CASE IdleBlock
  BY <1>13, <1>6 DEF IdleBlock
<1>14. CASE IdleHlt \/ EnterKernel \/ LeaveKernel \/ UNCHANGED task_vars
  BY <1>14, <1>4 DEF IdleHlt, EnterKernel, LeaveKernel, task_vars
<1>15. ASSUME NEW status \in {"BLOCKED", "HANGING", "WAITING"}, Block(status)
       PROVE  Shortens(ks, ks', c)
  BY <1>15, <1>6 DEF Block
<1>16. CASE YieldCpu
  BY <1>16, <1>7 DEF YieldCpu
<1>17. ASSUME NEW t \in Tasks, Unblock(t) \/ Create(t) \/ Reap(t)
       PROVE  Shortens(ks, ks', c)
  BY <1>17, <1>5, <1>9, <1>10 DEF Unblock, Create, Reap
<1> QED BY <1>11, <1>12, <1>13, <1>14, <1>15, <1>16, <1>17 DEF TaskNext

\* A tick takes a pair away: the running task's last one when its slice is
\* used up and it goes behind c, its highest one otherwise.
LEMMA TickStrict ==
    ASSUME ClientInv, IntrTime, NEW c \in Tasks,
           elem_find(ks.ready, c), elem_find(ks'.ready, c)
    PROVE  Slots(ks', c) # Slots(ks, c)
<1> DEFINE r == ks.running
<1>0. SchedInv(ks) /\ ks \in SchedState
  BY DEF ClientInv, SchedInv
<1>1. /\ r \in Tasks /\ ks.ready \in Seq(Tasks) /\ ks.ticks \in [Tasks -> 0..255]
      /\ ks.status[r] = "RUNNING" /\ ~elem_find(ks.ready, r)
      /\ NoDuplicates(ks.ready)
      /\ \A t \in Tasks : elem_find(ks.ready, t) => ks.status[t] # "DIED"
  BY <1>0, StateFields, RunningNotQueued, QueueSoundDef, ZenonT(60) DEF SchedInv
<1>2. ks' \in SchedState /\ ks' = intr_time_handle(ks)
  BY <1>0, TimeFacts DEF IntrTime, SchedInv
<1>3. r # c /\ r \notin After(ks.ready, c)
  BY <1>1, AfterQueued
<1> DEFINE p == <<r, ks.ticks[r]>>
<1>4. ks.ticks[r] \in 0..ks.ticks[r]
  BY <1>1, TicksOrder, ZenonT(60)
<1>5. p \in Slots(ks, c)
  BY <1>0, <1>1, <1>3, <1>4, SlotsDef
<1>6. p \notin Slots(ks', c)
  <2>1. CASE ks.ticks[r] = 0
    <3>1. r \in After(ks'.ready, c)
      BY <1>0, <1>1, <1>2, <2>1, ScheduleShortens DEF intr_time_handle
    <3> QED BY <1>2, <3>1, SlotsDef
  <2>2. CASE ks.ticks[r] # 0
    <3>1. ks' = [ks EXCEPT !.ticks[r] = ks.ticks[r] - 1]
      BY <1>2, <2>2 DEF intr_time_handle
    <3>2. ks'.ticks = [ks.ticks EXCEPT ![r] = ks.ticks[r] - 1]
      BY <1>0, <3>1 DEF SchedState
    <3>3. ks.ticks[r] \notin 0..ks'.ticks[r]
      BY <1>1, <2>2, <3>2, TicksOrder
    <3> QED BY <1>2, <3>3, SlotsDef
  <2> QED BY <2>1, <2>2
<1> QED BY <1>5, <1>6

\* For any finite number of tasks and any slice: while a task is queued no step
\* lengthens its delay and every timer interrupt shortens it, so that wakeups at
\* the front of the ready list cannot starve it.
THEOREM TaskBoundedBypass ==
    ASSUME IsFiniteSet(Tasks)
    PROVE  TaskSpec => BoundedBypass
<1> DEFINE A == \A c \in Tasks :
                   elem_find(ks.ready, c) /\ elem_find(ks'.ready, c) =>
                      /\ Delay(c)' <= Delay(c)
                      /\ IntrTime => Delay(c)' < Delay(c)
<1>1. ASSUME ClientInv, [TaskNext]_task_vars PROVE A
  <2> SUFFICES ASSUME NEW c \in Tasks, elem_find(ks.ready, c),
                      elem_find(ks'.ready, c)
               PROVE  /\ Delay(c)' <= Delay(c)
                      /\ IntrTime => Delay(c)' < Delay(c)
    OBVIOUS
  <2> DEFINE S == Slots(ks, c)
             T == Slots(ks', c)
  <2>2. ks \in SchedState
    BY <1>1 DEF ClientInv, SchedInv
  <2>3. T \subseteq S
    BY <1>1, <2>2, ClientShortens, SlotsShrink
  <2>4. IsFiniteSet(S)
    <3>1. IsFiniteSet(0..255)
      BY ONLY FS_BoundedSetOfNaturals, 0..255 \in SUBSET Nat, 255 \in Nat,
              \A s \in 0..255 : s <= 255
    <3>2. IsFiniteSet(Tasks \X (0..255))
      BY <3>1, FS_Product
    <3> QED BY <2>2, <3>2, SlotsDef, FS_Subset
  <2>5. IntrTime => T # S
    BY <1>1, TickStrict
  <2>6. Delay(c) = Cardinality(S) /\ Delay(c)' = Cardinality(T)
    BY DEF Delay
  <2> HIDE DEF S, T
  <2>7. /\ Cardinality(T) <= Cardinality(S)
        /\ Cardinality(S) = Cardinality(T) => S = T
        /\ IsFiniteSet(T)
    BY <2>3, <2>4, FS_Subset
  <2>8. Cardinality(S) \in Nat /\ Cardinality(T) \in Nat
    BY <2>4, <2>7, FS_CardinalityType
  <2> QED BY <2>5, <2>6, <2>7, <2>8
<1>2. ClientInv /\ [TaskNext]_task_vars => [A]_task_vars
  BY <1>1
<1>3. TaskSpec => [][A]_task_vars
  <2> HIDE DEF A
  <2> QED BY <1>2, TaskInvariant, PTL DEF TaskSpec
<1> QED BY <1>3 DEF BoundedBypass
=============================================================================
