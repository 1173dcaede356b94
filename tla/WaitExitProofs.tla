--------------------------- MODULE WaitExitProofs ----------------------------
(***************************************************************************)
(* WaitExit: nothing that belongs to a process is lost, freed twice or     *)
(* reached after it is gone, from clone() to wait(), for any number of     *)
(* tasks, pages and pids, if no program asks for CLONE_VM.                 *)
(***************************************************************************)
EXTENDS WaitExit, SchedProofs, FiniteSetTheorems

USE SchedAssumption

\* What the programs in command/ do: nobody makes a thread.
ForkOnly == CloneFlags \subseteq {"fork"}

-----------------------------------------------------------------------------
(* The inductive invariant *)

PcOK ==
    /\ pc \in [Tasks -> {"user", "wait", "closing", "exited", "io"} \cup IdleLabels]
    /\ \A t \in Tasks : pc[t] \in IdleLabels <=> t = idle_task

ProcOK ==
    /\ parent_task \in [Tasks -> Tasks]
    /\ all_tasks \in Seq(Tasks)
    /\ pid \in [Tasks -> 0..NPids - 1]
    /\ pid_bitmap \in SUBSET (0..NPids - 1)
    /\ pml4 \in [Tasks -> Pages \cup {KERNEL_PML4}]
    /\ pool \in SUBSET Pages

\* The status of a task says where it stands.  A task that sleeps in sys_wait()
\* is not queued between two steps: ExitHang, which wakes it, also dispatches it.
StatusOK ==
    \A t \in Tasks :
        /\ ks.status[t] = "WAITING" => pc[t] = "wait" /\ ~elem_find(ks.ready, t)
        /\ ks.status[t] = "HANGING" => pc[t] = "exited"
        /\ pc[t] = "exited" => ks.status[t] \in {"HANGING", "DIED"}
        /\ pc[t] \in {"wait", "closing", "io"} => Alive(t)

\* Pid 0 and pid 1 are there for good.
RootsOK ==
    /\ Alive(idle_task) /\ Alive(init_proc)
    /\ pc[init_proc] \notin {"closing", "exited"}

\* all_tasks_list holds the tasks that are alive, once each.
ListOK ==
    /\ NoDuplicates(all_tasks)
    /\ \A t \in Tasks : elem_find(all_tasks, t) <=> Alive(t)

\* The bits of pid_bitmap are the pids of the tasks that are alive.
PidsOK ==
    /\ pid[idle_task] = 0 /\ pid[init_proc] = 1
    /\ \A t, u \in Tasks : Alive(t) /\ Alive(u) /\ pid[t] = pid[u] => t = u
    /\ \A n : n \in pid_bitmap <=> \E t \in Tasks : Alive(t) /\ pid[t] = n

\* A task has a page table of its own, but for the two that run on the kernel's,
\* and no other page table is allocated.
PagesOK ==
    /\ \A t \in Tasks : Alive(t) =>
          IF t \in {idle_task, init_proc} THEN pml4[t] = KERNEL_PML4
          ELSE /\ pml4[t] \in pool
               /\ \A u \in Tasks \ {t} : Alive(u) => pml4[u] # pml4[t]
    /\ \A page \in pool : \E t \in Tasks : Alive(t) /\ pml4[t] = page

\* Who sleeps in sys_wait() has a child, and none that hangs.
ChildrenOK ==
    \A p \in Tasks \ {init_proc} : ks.status[p] = "WAITING" =>
        /\ \E t \in Tasks : Alive(t) /\ parent_task[t] = p
        /\ \A t \in Tasks : ks.status[t] = "HANGING" => parent_task[t] # p

Inv ==
    /\ SchedInv(ks)
    /\ PcOK /\ ProcOK /\ StatusOK /\ RootsOK
    /\ ParentAlive /\ ListOK /\ PidsOK /\ PagesOK /\ ChildrenOK

LEMMA InitInv == Init => Inv
<1> SUFFICES ASSUME Init PROVE Inv
  OBVIOUS
<1>1. SchedInv(ks)
  BY TaskInitFacts DEF Init, KernelInit
<1>2. /\ ks.ready = <<idle_task>>
      /\ \A t \in Tasks : ks.status[t] = IF t = init_proc THEN "RUNNING"
                                        ELSE IF t = idle_task THEN "READY" ELSE "DIED"
  BY DEF Init, KernelInit, task_init
<1>3. PcOK
  BY DEF Init, KernelInit, PcOK, IdleLabels
<1>4. 2 <= NPids
  <2>1. {idle_task, init_proc} \subseteq Tasks /\ idle_task # init_proc
    OBVIOUS
  <2>2. IsFiniteSet({idle_task}) /\ Cardinality({idle_task}) = 1
    BY FS_Singleton
  <2>3. Cardinality({idle_task} \cup {init_proc}) = 2
    BY <2>1, <2>2, FS_AddElement
  <2>4. Cardinality({idle_task} \cup {init_proc}) <= Cardinality(Tasks)
    BY <2>1, FS_Subset, WaitExitAssumption
  <2>5. Cardinality(Tasks) \in Nat /\ NPids \in Nat /\ Cardinality(Tasks) <= NPids
    BY FS_CardinalityType, WaitExitAssumption
  <2> QED BY <2>3, <2>4, <2>5
<1>5. ProcOK
  BY <1>4, WaitExitAssumption DEF Init, ProcOK, KERNEL_PML4
<1>6. StatusOK /\ RootsOK /\ ChildrenOK
  BY <1>2 DEF StatusOK, RootsOK, ChildrenOK, Alive, Init, KernelInit, IdleLabels
<1>7. ParentAlive
  BY <1>2 DEF ParentAlive, Alive, Init, KernelInit
<1>8. ListOK
  <2>1. /\ DOMAIN all_tasks = {1, 2} /\ all_tasks[1] = idle_task
        /\ all_tasks[2] = init_proc
    BY DEF Init
  <2> QED BY <1>2, <2>1 DEF ListOK, Alive, NoDuplicates, elem_find
<1>9. PidsOK
  BY <1>2 DEF PidsOK, Alive, Init
<1>10. PagesOK
  BY <1>2 DEF PagesOK, Alive, Init
<1> QED BY <1>1, <1>3, <1>5, <1>6, <1>7, <1>8, <1>9, <1>10 DEF Inv

-----------------------------------------------------------------------------
(* Lemmas *)

\* A set of natural numbers has a least element.
LEMMA MinFacts ==
    ASSUME NEW S, S \subseteq Nat, S # {}
    PROVE  Min(S) \in S /\ \A y \in S : Min(S) <= y
<1>1. PICK x \in S : \A y \in S : ~(<<y, x>> \in OpToRel(<, Nat))
  BY NatLessThanWellFounded, WFMin
<1>2. \A y \in S : x <= y
  <2> SUFFICES ASSUME NEW y \in S PROVE x <= y
    OBVIOUS
  <2>1. ~(y < x)
    <3>1. <<y, x>> \in Nat \X Nat
      OBVIOUS
    <3> QED BY <1>1, <3>1 DEF OpToRel
  <2> QED BY <2>1
<1> QED BY <1>2 DEF Min

\* What the proofs of the steps need of the current state.
LEMMA Now ==
    ASSUME Inv
    PROVE  /\ ks \in SchedState /\ SchedInv(ks)
           /\ ks.running \in Tasks /\ ks.status \in [Tasks -> Status]
           /\ ks.status[ks.running] = "RUNNING" /\ ~elem_find(ks.ready, ks.running)
           /\ PcOK /\ ProcOK /\ StatusOK /\ RootsOK
           /\ ParentAlive /\ ListOK /\ PidsOK /\ PagesOK /\ ChildrenOK
BY StateFields, RunningNotQueued DEF Inv, SchedInv

\* What a step leaves of the status when nobody is created, reaped or exits.
Same(k, n) ==
    \A t \in Tasks :
        /\ n.status[t] = "DIED" <=> k.status[t] = "DIED"
        /\ n.status[t] = "HANGING" <=> k.status[t] = "HANGING"
        /\ n.status[t] = "WAITING" =>
              k.status[t] = "WAITING" /\ (elem_find(n.ready, t) => elem_find(k.ready, t))

LEMMA SameRequeued ==
    ASSUME NEW k, NEW n, SchedInv(k), SchedInv(n), Requeued(k, n),
           k.status[idle_task] \notin {"DIED", "HANGING"}
    PROVE  Same(k, n)
<1>1. /\ k \in SchedState /\ k.running \in Tasks /\ k.status \in [Tasks -> Status]
      /\ n.running \in Tasks /\ k.status[k.running] = "RUNNING"
  BY StateFields, RunningNotQueued DEF SchedInv
<1>2. \A u \in Tasks : elem_find(k.ready, u) =>
          k.status[u] \in {"READY", "BLOCKED", "WAITING"}
  BY <1>1, QueueSoundDef DEF SchedInv
<1>3. \A u \in Tasks : n.status[u] = IF u = n.running THEN "RUNNING"
                                    ELSE IF u = k.running THEN "READY" ELSE k.status[u]
  BY <1>1 DEF Requeued
<1> QED BY <1>1, <1>2, <1>3 DEF Requeued, Same

LEMMA SameBlocked ==
    ASSUME NEW k, NEW n, SchedInv(k), SchedInv(n), Blocked(k, n, "BLOCKED"),
           k.status[idle_task] \notin {"DIED", "HANGING"}
    PROVE  Same(k, n)
<1>1. /\ k \in SchedState /\ k.running \in Tasks /\ k.status \in [Tasks -> Status]
      /\ n.running \in Tasks /\ k.status[k.running] = "RUNNING"
  BY StateFields, RunningNotQueued DEF SchedInv
<1>2. \A u \in Tasks : elem_find(k.ready, u) =>
          k.status[u] \in {"READY", "BLOCKED", "WAITING"}
  BY <1>1, QueueSoundDef DEF SchedInv
<1>3. \A u \in Tasks : n.status[u] = IF u = n.running THEN "RUNNING"
                                    ELSE IF u = k.running THEN "BLOCKED" ELSE k.status[u]
  BY <1>1 DEF Blocked
<1> QED BY <1>1, <1>2, <1>3 DEF Blocked, Same

\* The idle task neither exits nor is reaped.
LEMMA IdleLives ==
    ASSUME Inv
    PROVE  ks.status[idle_task] \notin {"DIED", "HANGING"}
BY Now DEF RootsOK, Alive, StatusOK, PcOK, IdleLabels

\* Steps in which nobody is created, reaped or exits, nor falls asleep in
\* sys_wait(), and the running task stays away from sys_exit().
LEMMA QuietInv ==
    ASSUME Inv, SchedInv(ks'), PcOK', UNCHANGED proc, Same(ks, ks'),
           \A t \in Tasks \ {idle_task} :
               pc'[t] = pc[t] \/ (t = ks.running /\ pc'[t] \in {"user", "wait", "io"})
    PROVE  Inv'
<1> USE DEF Alive
<1>1. /\ ProcOK' /\ ks.running \in Tasks /\ ks.status[ks.running] = "RUNNING"
      /\ UNCHANGED <<parent_task, all_tasks, pid, pid_bitmap, pml4, pool>>
  BY Now DEF proc, ProcOK
<1>2. StatusOK'
  <2> SUFFICES ASSUME NEW t \in Tasks
               PROVE  /\ ks'.status[t] = "WAITING" => pc'[t] = "wait" /\ ~elem_find(ks'.ready, t)
                      /\ ks'.status[t] = "HANGING" => pc'[t] = "exited"
                      /\ pc'[t] = "exited" => ks'.status[t] \in {"HANGING", "DIED"}
                      /\ pc'[t] \in {"wait", "closing", "io"} => Alive(t)'
    BY DEF StatusOK
  <2>1. CASE t = idle_task
    <3>1. pc[t] \in IdleLabels /\ pc'[t] \in IdleLabels
      BY <2>1, Now DEF PcOK
    <3> QED BY <3>1, Now DEF Same, StatusOK, IdleLabels
  <2>2. CASE t # idle_task /\ pc'[t] = pc[t]
    BY <2>2, Now DEF Same, StatusOK
  <2>3. CASE t = ks.running /\ pc'[t] \in {"user", "wait", "io"}
    BY <1>1, <2>3 DEF Same
  <2> QED BY <2>1, <2>2, <2>3
<1>3. \A t \in Tasks : pc'[t] \in {"closing", "exited"} => pc[t] \in {"closing", "exited"}
  BY <1>1 DEF PcOK, IdleLabels
<1>4. RootsOK' /\ ParentAlive'
  BY <1>1, <1>3, Now, ZenonT(60) DEF RootsOK, ParentAlive, Same, ProcOK
<1>5. ListOK' /\ PidsOK' /\ PagesOK'
  BY <1>1, Now DEF ListOK, PidsOK, PagesOK, Same
<1>6. ChildrenOK'
  BY <1>1, Now DEF ChildrenOK, Same
<1> QED BY <1>1, <1>2, <1>4, <1>5, <1>6 DEF Inv

LEMMA TimerInv == ASSUME Inv, Timer PROVE Inv'
<1>1. ks' = intr_time_handle(ks) /\ pc' = IntrExit /\ UNCHANGED proc
  BY DEF Timer, IntrTime
<1>2. /\ SchedInv(ks')
      /\ \/ Requeued(ks, ks')
         \/ ks'.running = ks.running /\ ks'.status = ks.status /\ ks'.ready = ks.ready
  BY <1>1, Now, TimeFacts
<1>3. Same(ks, ks')
  BY <1>2, Now, IdleLives, SameRequeued DEF Same
<1>4. PcOK' /\ \A t \in Tasks \ {idle_task} : pc'[t] = pc[t]
  BY <1>1, Now DEF IntrExit, PcOK, IdleLabels
<1> QED BY <1>1, <1>2, <1>3, <1>4, QuietInv

LEMMA IdleStepsInv == ASSUME Inv, IdleSteps PROVE Inv'
<1>1. UNCHANGED proc /\ PcOK' /\ \A t \in Tasks \ {idle_task} : pc'[t] = pc[t]
  BY Now DEF IdleSteps, IdleBlock, IdleHlt, PcOK, IdleLabels
<1>2. SchedInv(ks') /\ Same(ks, ks')
  <2>1. CASE IdleHlt
    BY <2>1, Now DEF IdleHlt, Same
  <2>2. CASE IdleBlock
    <3>1. SchedInv(ks') /\ Blocked(ks, ks', "BLOCKED")
      BY <2>2, Now, BlockFacts DEF IdleBlock
    <3> QED BY <3>1, Now, IdleLives, SameBlocked
  <2> QED BY <2>1, <2>2 DEF IdleSteps
<1> QED BY <1>1, <1>2, QuietInv

LEMMA IntrDeviceInv == ASSUME Inv, NEW c \in Tasks, IntrDevice(c) PROVE Inv'
<1>1. /\ ks.status[c] = "BLOCKED" /\ ~elem_find(ks.ready, c)
      /\ ks' = task_unblock(ks, c) /\ pc' = IntrExit /\ UNCHANGED proc
  BY DEF IntrDevice
<1>2. /\ SchedInv(ks') /\ ks'.status = ks.status
      /\ \A u : elem_find(ks'.ready, u) <=> elem_find(ks.ready, u) \/ u = c
  BY <1>1, Now, UnblockInv
<1>3. Same(ks, ks')
  BY <1>1, <1>2 DEF Same
<1>4. PcOK' /\ \A t \in Tasks \ {idle_task} : pc'[t] = pc[t]
  BY <1>1, Now DEF IntrExit, PcOK, IdleLabels
<1> QED BY <1>1, <1>2, <1>3, <1>4, QuietInv

\* The steps that only move on.
LEMMA MoveInv == ASSUME Inv, CallWait \/ WaitNoChild \/ IoDone PROVE Inv'
<1>1. /\ ks' = ks /\ UNCHANGED proc /\ pc[ks.running] \in {"user", "wait", "io"}
      /\ \/ pc' = [pc EXCEPT ![ks.running] = "user"]
         \/ pc' = [pc EXCEPT ![ks.running] = "wait"]
  BY DEF CallWait, WaitNoChild, IoDone, Running, Goto
<1>2. /\ PcOK'
      /\ \A t \in Tasks \ {ks.running} : pc'[t] = pc[t]
      /\ pc'[ks.running] \in {"user", "wait"}
  BY <1>1, Now DEF PcOK, IdleLabels
<1>3. SchedInv(ks') /\ Same(ks, ks')
  BY <1>1, Now DEF Same
<1> QED BY <1>1, <1>2, <1>3, QuietInv

\* The steps in which the running task waits for a device or a lock.
LEMMA BlockInv == ASSUME Inv, CloseBlock \/ CallIo PROVE Inv'
<1>1. /\ ks' = task_block(ks, "BLOCKED") /\ UNCHANGED proc
      /\ \/ pc[ks.running] = "closing" /\ pc' = pc
         \/ pc[ks.running] = "user" /\ pc' = [pc EXCEPT ![ks.running] = "io"]
  BY DEF CloseBlock, CallIo, Running, Goto
<1>2. PcOK' /\ ks.running # idle_task
      /\ \A t \in Tasks : pc'[t] = pc[t] \/ (t = ks.running /\ pc'[t] = "io")
  BY <1>1, Now DEF PcOK, IdleLabels
<1>3. SchedInv(ks') /\ Blocked(ks, ks', "BLOCKED")
  BY <1>1, Now, BlockFacts
<1>4. Same(ks, ks')
  BY <1>3, Now, IdleLives, SameBlocked
<1> QED BY <1>1, <1>2, <1>3, <1>4, QuietInv

-----------------------------------------------------------------------------
(* sys_wait() *)

\* Under the invariant the searches of all_tasks_list find what they look for.
LEMMA SearchFacts ==
    ASSUME Inv, NEW p \in Tasks
    PROVE  /\ HasChild(p) <=> \E t \in Tasks : Alive(t) /\ parent_task[t] = p
           /\ HasHangingChild(p) <=>
                \E t \in Tasks : ks.status[t] = "HANGING" /\ parent_task[t] = p
           /\ HasHangingChild(p) =>
                /\ FirstHanging(p) \in Tasks
                /\ ks.status[FirstHanging(p)] = "HANGING"
                /\ parent_task[FirstHanging(p)] = p
<1>1. \A t : t \in ToSet(all_tasks) <=> t \in Tasks /\ Alive(t)
  <2>1. \A t : t \in ToSet(all_tasks) <=> elem_find(all_tasks, t)
    BY DEF ToSet, elem_find
  <2>2. \A t : elem_find(all_tasks, t) => t \in Tasks
    BY Now DEF ProcOK, elem_find
  <2> QED BY <2>1, <2>2, Now DEF ListOK
<1>2. HasChild(p) <=> \E t \in Tasks : Alive(t) /\ parent_task[t] = p
  BY <1>1 DEF HasChild, find_child
<1>3. HasHangingChild(p) <=>
        \E t \in Tasks : ks.status[t] = "HANGING" /\ parent_task[t] = p
  BY <1>1 DEF HasHangingChild, find_hanging_child, Alive
<1>4. ASSUME HasHangingChild(p)
      PROVE  /\ FirstHanging(p) \in Tasks
             /\ ks.status[FirstHanging(p)] = "HANGING"
             /\ parent_task[FirstHanging(p)] = p
  <2> DEFINE I == {i \in 1..Len(all_tasks) : find_hanging_child(all_tasks[i], p)}
  <2>1. all_tasks \in Seq(Tasks) /\ DOMAIN all_tasks = 1..Len(all_tasks)
    BY Now DEF ProcOK
  <2>2. I # {} /\ I \subseteq Nat
    BY <1>4, <2>1 DEF HasHangingChild, ToSet
  <2>3. Min(I) \in I
    BY <2>2, MinFacts
  <2>4. FirstHanging(p) = all_tasks[Min(I)]
    BY <2>2 DEF FirstHanging, SelectInSeq
  <2> HIDE DEF I
  <2>5. Min(I) \in 1..Len(all_tasks) /\ find_hanging_child(all_tasks[Min(I)], p)
    BY <2>3 DEF I
  <2> QED BY <2>1, <2>4, <2>5 DEF find_hanging_child
<1> QED BY <1>2, <1>3, <1>4

LEMMA WaitBlockInv == ASSUME Inv, WaitBlock PROVE Inv'
<1> USE DEF Alive
<1> DEFINE r == ks.running
<1>1. /\ pc[r] = "wait" /\ ks' = task_block(ks, "WAITING") /\ pc' = pc /\ UNCHANGED proc
      /\ ~HasHangingChild(r) /\ HasChild(r)
  BY DEF WaitBlock, Running
<1>2. r \in Tasks /\ r # idle_task
  BY <1>1, Now DEF PcOK, IdleLabels
<1>3. SchedInv(ks') /\ Blocked(ks, ks', "WAITING")
  BY <1>1, <1>2, Now, BlockFacts
<1>4. /\ ks'.running \in Tasks /\ ks'.running # r /\ ks'.status \in [Tasks -> Status]
      /\ \A u \in Tasks : ks'.status[u] = IF u = ks'.running THEN "RUNNING"
                                        ELSE IF u = r THEN "WAITING" ELSE ks.status[u]
      /\ \A u \in Tasks : elem_find(ks'.ready, u) => elem_find(ks.ready, u)
  <2>1. ks'.running \in Tasks /\ ks'.status \in [Tasks -> Status]
    BY <1>3, StateFields DEF SchedInv
  <2> QED BY <1>2, <1>3, <2>1, Now DEF Blocked
<1>5. \A u \in Tasks : elem_find(ks.ready, u) =>
          ks.status[u] \in {"READY", "BLOCKED", "WAITING"}
  BY Now, QueueSoundDef DEF SchedInv
<1>6. ks.status[ks'.running] \notin {"DIED", "HANGING"}
  BY <1>3, <1>4, <1>5, Now, IdleLives DEF Blocked
<1> HIDE DEF r
<1>7. /\ \A u \in Tasks : ks'.status[u] = "DIED" <=> ks.status[u] = "DIED"
      /\ \A u \in Tasks : ks'.status[u] = "HANGING" <=> ks.status[u] = "HANGING"
  <2>1. ks.status[r] = "RUNNING"
    BY Now DEF r
  <2> QED BY <1>2, <1>4, <1>6, <2>1
<1>8. UNCHANGED <<pc, parent_task, all_tasks, pid, pid_bitmap, pml4, pool>>
  BY <1>1 DEF proc
<1>9. PcOK' /\ ProcOK' /\ ListOK' /\ PidsOK' /\ PagesOK'
  <2>1. PcOK' /\ ProcOK'
    BY <1>8, Now DEF PcOK, ProcOK
  <2>2. ListOK'
    BY <1>7, <1>8, Now DEF ListOK
  <2>3. PidsOK'
    BY <1>7, <1>8, Now DEF PidsOK
  <2>4. PagesOK'
    BY <1>7, <1>8, Now DEF PagesOK
  <2> QED BY <2>1, <2>2, <2>3, <2>4
<1>10. RootsOK' /\ ParentAlive' /\ StatusOK'
  <2>1. RootsOK'
    BY <1>7, <1>8, Now DEF RootsOK
  <2>2. ParentAlive'
    BY <1>7, <1>8, Now DEF ParentAlive, ProcOK
  <2>3. pc[r] = "wait" /\ ~elem_find(ks.ready, r)
    BY <1>1, Now DEF r
  <2>4. \A u \in Tasks : ks'.status[u] = "WAITING" => u = r \/ ks.status[u] = "WAITING"
    BY <1>4
  <2>5. StatusOK'
    BY <1>4, <1>7, <1>8, <2>3, <2>4, Now DEF StatusOK
  <2> QED BY <2>1, <2>2, <2>5
<1>11. ChildrenOK'
  <2>1. /\ \E t \in Tasks : Alive(t) /\ parent_task[t] = r
        /\ \A t \in Tasks : ks.status[t] = "HANGING" => parent_task[t] # r
    BY <1>1, <1>2, SearchFacts
  <2>2. \A u \in Tasks : ks'.status[u] = "WAITING" => u = r \/ ks.status[u] = "WAITING"
    BY <1>4
  <2> QED BY <1>7, <1>8, <2>1, <2>2, Now DEF ChildrenOK
<1> QED BY <1>3, <1>9, <1>10, <1>11 DEF Inv

\* A child is reaped: what belonged to it goes, and nobody refers to it.
LEMMA WaitReapInv == ASSUME Inv, WaitReap PROVE Inv'
<1> USE DEF Alive
<1> DEFINE r == ks.running
           c == FirstHanging(r)
<1>1. /\ pc[r] = "wait" /\ HasHangingChild(r) /\ pc' = [pc EXCEPT ![r] = "user"]
      /\ pool' = pool \ FreedPml4(r, c) /\ all_tasks' = list_remove(all_tasks, c)
      /\ pid_bitmap' = pid_bitmap \ {pid[c]} /\ UNCHANGED <<parent_task, pid, pml4>>
      /\ ks' = [ASSERT(ks, FreedPml4(r, c) \subseteq pool)
                   EXCEPT !.status[c] = "DIED",
                          !.ready     = IF elem_find(@, c) THEN list_remove(@, c) ELSE @]
  BY DEF WaitReap, Running, Goto, release_pid
<1>2. /\ r \in Tasks /\ r # idle_task /\ ks.status[r] = "RUNNING"
      /\ c \in Tasks /\ ks.status[c] = "HANGING" /\ parent_task[c] = r /\ pc[c] = "exited"
  BY <1>1, Now, SearchFacts DEF PcOK, IdleLabels, StatusOK
<1> HIDE DEF c, r
<1>3. c \notin {r, idle_task, init_proc}
  BY <1>2, Now DEF PcOK, IdleLabels, RootsOK
<1>4. FreedPml4(r, c) = {pml4[c]} /\ pml4[c] \in pool
  BY <1>2, <1>3, Now DEF PagesOK, FreedPml4
<1>5. ks' = [ks EXCEPT !.status[c] = "DIED"]
  <2>1. ASSERT(ks, FreedPml4(r, c) \subseteq pool) = ks
    BY <1>4, Now, AssertTrue
  <2>2. ~elem_find(ks.ready, c)
    BY <1>2, Now, QueueSoundDef DEF SchedInv
  <2>3. ks' = [ks EXCEPT !.status[c] = "DIED", !.ready = ks.ready]
    BY <1>1, <2>1, <2>2
  <2> QED BY <2>3, Now DEF SchedState
<1>6. /\ SchedInv(ks') /\ ks'.running = ks.running /\ ks'.ready = ks.ready
      /\ ks'.status = [ks.status EXCEPT ![c] = "DIED"]
  BY <1>2, <1>5, Now, ReapFacts
<1>7. /\ ks'.status[c] = "DIED"
      /\ \A u \in Tasks \ {c} : ks'.status[u] = ks.status[u]
  BY <1>2, <1>6, Now
<1>8. /\ pc'[r] = "user" /\ \A u \in Tasks \ {r} : pc'[u] = pc[u]
  BY <1>1, <1>2, Now DEF PcOK
<1>9. PcOK'
  BY <1>1, <1>2, Now DEF PcOK, IdleLabels
<1>10. /\ all_tasks' \in Seq(Tasks) /\ NoDuplicates(all_tasks')
       /\ \A u : elem_find(all_tasks', u) <=> elem_find(all_tasks, u) /\ u # c
  <2>1. all_tasks \in Seq(Tasks) /\ NoDuplicates(all_tasks) /\ elem_find(all_tasks, c)
    BY <1>2, Now DEF ProcOK, ListOK
  <2> QED BY <1>1, <2>1, RemoveFacts
<1>11. ProcOK'
  BY <1>1, <1>10, Now DEF ProcOK
<1>12. StatusOK'
  BY <1>2, <1>6, <1>7, <1>8, Now DEF StatusOK
<1>13. RootsOK'
  BY <1>3, <1>7, <1>8, Now DEF RootsOK
<1>14. ParentAlive'
  <2> SUFFICES ASSUME NEW t \in Tasks, ks'.status[t] # "DIED"
               PROVE  /\ ks'.status[parent_task'[t]] # "DIED"
                      /\ pc'[parent_task'[t]] \notin {"closing", "exited"}
    BY DEF ParentAlive
  <2> DEFINE p == parent_task[t]
  <2>1. t # c /\ Alive(t) /\ parent_task'[t] = p
    BY <1>1, <1>7
  <2>2. p \in Tasks /\ Alive(p) /\ pc[p] \notin {"closing", "exited"}
    BY <2>1, Now DEF ParentAlive, ProcOK
  <2>3. p # c
    BY <1>2, <2>2
  <2> HIDE DEF p
  <2> QED BY <1>7, <1>8, <2>1, <2>2, <2>3
<1>15. ListOK'
  BY <1>7, <1>10, Now DEF ListOK
<1>16. PidsOK'
  BY <1>1, <1>2, <1>3, <1>7, Now DEF PidsOK
<1>17. PagesOK'
  BY <1>1, <1>2, <1>3, <1>4, <1>7, Now DEF PagesOK
<1>18. ChildrenOK'
  BY <1>1, <1>2, <1>7, Now DEF ChildrenOK
<1> QED BY <1>6, <1>9, <1>11, <1>12, <1>13, <1>14, <1>15, <1>16, <1>17, <1>18 DEF Inv

-----------------------------------------------------------------------------
(* sys_exit() *)

LEMMA CallExitInv == ASSUME Inv, CallExit PROVE Inv'
<1> USE DEF Alive
<1> DEFINE r == ks.running
<1>1. /\ pc[r] = "user" /\ r # init_proc /\ pc' = [pc EXCEPT ![r] = "closing"]
      /\ ks' = ASSERT(ks, pid[r] > 1)
      /\ parent_task' = [c \in Tasks |-> init_adopt_a_child(c, r)]
      /\ UNCHANGED <<all_tasks, pid, pid_bitmap, pml4, pool>>
  BY DEF CallExit, Running, Goto
<1>2. r \in Tasks /\ r # idle_task /\ ks.status[r] = "RUNNING"
  BY <1>1, Now DEF PcOK, IdleLabels
<1> HIDE DEF r
<1>3. pid[r] > 1
  <2>1. pid[r] \in Nat /\ pid[r] # 0 /\ pid[r] # 1
    BY <1>1, <1>2, Now, WaitExitAssumption DEF PidsOK, RootsOK, ProcOK
  <2> QED BY <2>1
<1>4. ks' = ks
  <2>1. (pid[r] > 1) = TRUE
    BY <1>3
  <2>2. ASSERT(ks, TRUE) = ks
    BY Now, AssertTrue
  <2> QED BY <1>1, <2>1, <2>2
<1>5. \A u \in Tasks : Alive(u) =>
        parent_task'[u] = IF parent_task[u] = r THEN init_proc ELSE parent_task[u]
  BY <1>1, Now DEF init_adopt_a_child, ListOK
<1>6. parent_task' \in [Tasks -> Tasks]
  BY <1>1, Now DEF init_adopt_a_child, ProcOK
<1>7. /\ pc'[r] = "closing" /\ \A u \in Tasks \ {r} : pc'[u] = pc[u]
  BY <1>1, <1>2, Now DEF PcOK
<1>8. PcOK'
  BY <1>1, <1>2, Now DEF PcOK, IdleLabels
<1>9. ProcOK' /\ ListOK' /\ PidsOK' /\ PagesOK'
  <2>1. ProcOK' /\ ListOK'
    BY <1>1, <1>4, <1>6, Now DEF ProcOK, ListOK
  <2>2. PidsOK'
    BY <1>1, <1>4, Now DEF PidsOK
  <2>3. PagesOK'
    BY <1>1, <1>4, Now DEF PagesOK
  <2> QED BY <2>1, <2>2, <2>3
<1>10. StatusOK' /\ RootsOK'
  BY <1>1, <1>2, <1>4, <1>7, Now DEF StatusOK, RootsOK
<1>11. ParentAlive'
  <2> SUFFICES ASSUME NEW t \in Tasks, ks'.status[t] # "DIED"
               PROVE  /\ ks'.status[parent_task'[t]] # "DIED"
                      /\ pc'[parent_task'[t]] \notin {"closing", "exited"}
    BY DEF ParentAlive
  <2>1. Alive(t) /\ t \in Tasks
    BY <1>4
  <2>2. parent_task'[t] = IF parent_task[t] = r THEN init_proc ELSE parent_task[t]
    BY <1>5, <2>1
  <2>3. CASE parent_task[t] = r
    <3>1. parent_task'[t] = init_proc /\ init_proc \in Tasks \ {r}
      BY <1>1, <2>2, <2>3, WaitExitAssumption
    <3> QED BY <1>4, <1>7, <3>1, Now DEF RootsOK
  <2>4. CASE parent_task[t] # r
    <3> DEFINE p == parent_task[t]
    <3>1. parent_task'[t] = p /\ p \in Tasks \ {r}
      BY <2>2, <2>4, Now DEF ProcOK
    <3>2. Alive(p) /\ pc[p] \notin {"closing", "exited"}
      BY <2>1, Now DEF ParentAlive
    <3> HIDE DEF p
    <3> QED BY <1>4, <1>7, <3>1, <3>2
  <2> QED BY <2>3, <2>4
<1>12. ChildrenOK'
  <2>1. ASSUME NEW p \in Tasks \ {init_proc}, ks'.status[p] = "WAITING"
        PROVE  /\ \E t \in Tasks : Alive(t)' /\ parent_task'[t] = p
               /\ \A t \in Tasks : ks'.status[t] = "HANGING" => parent_task'[t] # p
    <3>1. p # r
      BY <1>2, <1>4, <2>1
    <3> QED BY <1>4, <1>5, <2>1, <3>1, Now DEF ChildrenOK
  <2> QED BY <2>1 DEF ChildrenOK
<1> QED BY <1>4, <1>8, <1>9, <1>10, <1>11, <1>12, Now DEF Inv

\* The last step of sys_exit(): a parent that sleeps in sys_wait() is dispatched.
LEMMA ExitHangInv == ASSUME Inv, ExitHang PROVE Inv'
<1> USE DEF Alive
<1> DEFINE r == ks.running
           p == parent_task[r]
           k == WakeParent(ks, p)
<1>1. /\ pc[r] = "closing" /\ pc' = [pc EXCEPT ![r] = "exited"]
      /\ ks' = task_block(k, "HANGING")
      /\ UNCHANGED <<parent_task, all_tasks, pid, pid_bitmap, pml4, pool>>
  BY DEF ExitHang, Running, Goto, proc
<1>2. /\ r \in Tasks /\ r \notin {idle_task, init_proc} /\ ks.status[r] = "RUNNING"
      /\ p \in Tasks /\ Alive(p) /\ p # r
  BY <1>1, Now DEF PcOK, IdleLabels, RootsOK, ProcOK, ParentAlive
<1>3. /\ SchedInv(k) /\ k.running = r /\ k.status = ks.status
      /\ \A u : elem_find(k.ready, u) <=>
                  elem_find(ks.ready, u) \/ (ks.status[p] = "WAITING" /\ u = p)
      /\ ks.status[p] = "WAITING" => k.ready # <<>> /\ Head(k.ready) = p
  <2>1. CASE ks.status[p] = "WAITING"
    <3>1. k = task_unblock(ks, p)
      BY <2>1 DEF WakeParent
    <3>2. ~elem_find(ks.ready, p)
      BY <1>2, <2>1, Now DEF StatusOK
    <3>3. k.ready = list_push(ks.ready, p) /\ k.ready # <<>>
      BY <1>2, <2>1, <3>1, <3>2, Now, UnblockFacts DEF SchedInv
    <3>4. ks.ready \in Seq(Tasks)
      BY Now, StateFields
    <3>5. Head(list_push(ks.ready, p)) = p
      BY <3>4, <1>2 DEF list_push
    <3>6. LET n == task_unblock(ks, p)
          IN  /\ SchedInv(n) /\ n.running = ks.running /\ n.status = ks.status
              /\ \A u : elem_find(n.ready, u) <=> elem_find(ks.ready, u) \/ u = p
      BY <1>2, <2>1, <3>2, Now, UnblockInv
    <3>7. Head(k.ready) = p
      BY <3>3, <3>5
    <3> HIDE DEF k, p
    <3> QED BY <2>1, <3>1, <3>3, <3>6, <3>7 DEF r
  <2>2. CASE ks.status[p] # "WAITING"
    BY <2>2, Now DEF WakeParent
  <2> QED BY <2>1, <2>2
<1> HIDE DEF k, p, r
<1>4. SchedInv(ks') /\ Blocked(k, ks', "HANGING")
  BY <1>1, <1>2, <1>3, BlockFacts
<1>5. ks.status[p] = "WAITING" => ks'.running = p
  BY <1>1, <1>3, BlockHead
<1>6. /\ ks'.running \in Tasks /\ ks'.status \in [Tasks -> Status]
      /\ elem_find(ks.ready, ks'.running) \/ ks'.running \in {p, idle_task}
      /\ \A u \in Tasks : ks'.status[u] = IF u = ks'.running THEN "RUNNING"
                                        ELSE IF u = r THEN "HANGING" ELSE ks.status[u]
      /\ \A u \in Tasks : elem_find(ks'.ready, u) => elem_find(ks.ready, u)
  <2>1. ks'.running \in Tasks /\ ks'.status \in [Tasks -> Status]
    BY <1>4, StateFields DEF SchedInv
  <2>2. \A u : elem_find(ks'.ready, u) <=> elem_find(k.ready, u) /\ u # ks'.running
    BY <1>4 DEF Blocked
  <2> QED BY <1>2, <1>3, <1>4, <1>5, <2>1, <2>2, Now DEF Blocked
<1>7. \A u \in Tasks : elem_find(ks.ready, u) =>
          ks.status[u] \in {"READY", "BLOCKED", "WAITING"}
  BY Now, QueueSoundDef DEF SchedInv
<1>8. /\ ks'.running # r /\ Alive(ks'.running)
      /\ ks.status[ks'.running] # "HANGING" \/ ks'.running = p
  BY <1>2, <1>6, <1>7, Now, IdleLives
<1>8a. ks.status[p] # "HANGING"
  BY <1>1, <1>2, Now DEF ParentAlive, StatusOK, p, r
<1>9. /\ \A u \in Tasks : ks'.status[u] = "DIED" <=> ks.status[u] = "DIED"
      /\ \A u \in Tasks : ks'.status[u] = "HANGING" <=> (u = r \/ ks.status[u] = "HANGING")
      /\ \A u \in Tasks : ks'.status[u] = "WAITING" =>
            /\ ks.status[u] = "WAITING" /\ u # p /\ u # r /\ ~elem_find(ks'.ready, u)
  <2>1. ks.status[ks'.running] # "HANGING" /\ ks.status[ks'.running] # "DIED"
    BY <1>8, <1>8a
  <2>2. \A u \in Tasks : ks'.status[u] = "DIED" <=> ks.status[u] = "DIED"
    BY <1>2, <1>6, <2>1
  <2>3. \A u \in Tasks : ks'.status[u] = "HANGING" <=> (u = r \/ ks.status[u] = "HANGING")
    BY <1>2, <1>6, <1>8, <2>1
  <2>4. \A u \in Tasks : ks.status[u] = "WAITING" => ~elem_find(ks.ready, u)
    BY Now DEF StatusOK
  <2>5. ASSUME NEW u \in Tasks, ks'.status[u] = "WAITING"
        PROVE  ks.status[u] = "WAITING" /\ u # p /\ u # r /\ ~elem_find(ks'.ready, u)
    <3>1. u # ks'.running /\ u # r /\ ks.status[u] = "WAITING"
      BY <1>6, <2>5
    <3>2. ~elem_find(ks'.ready, u)
      BY <1>6, <2>4, <3>1
    <3> QED BY <1>5, <3>1, <3>2
  <2> QED BY <2>2, <2>3, <2>5
<1>10. /\ pc'[r] = "exited" /\ \A u \in Tasks \ {r} : pc'[u] = pc[u]
  BY <1>1, <1>2, Now DEF PcOK
<1>11. PcOK'
  BY <1>1, <1>2, Now DEF PcOK, IdleLabels
<1>11a. UNCHANGED <<parent_task, all_tasks, pid, pid_bitmap, pml4, pool>>
  BY <1>1
<1>12. ProcOK' /\ ListOK' /\ PidsOK' /\ PagesOK'
  <2>1. ProcOK'
    BY <1>11a, Now DEF ProcOK
  <2>2. ListOK'
    BY <1>9, <1>11a, Now DEF ListOK
  <2>3. PidsOK'
    BY <1>9, <1>11a, Now DEF PidsOK
  <2>4. PagesOK'
    BY <1>9, <1>11a, Now DEF PagesOK
  <2> QED BY <2>1, <2>2, <2>3, <2>4
<1>13. StatusOK'
  BY <1>2, <1>9, <1>10, Now DEF StatusOK
<1>14. RootsOK'
  BY <1>2, <1>9, <1>10, Now DEF RootsOK
<1>15. ParentAlive'
  <2>1. \A u \in Tasks : Alive(u) => parent_task[u] # r
    BY <1>1, Now DEF ParentAlive
  <2> QED BY <1>9, <1>10, <1>11a, <2>1, Now, ZenonT(60) DEF ParentAlive, ProcOK
<1>16. ChildrenOK'
  <2> SUFFICES ASSUME NEW q \in Tasks \ {init_proc}, ks'.status[q] = "WAITING"
               PROVE  /\ \E t \in Tasks : Alive(t)' /\ parent_task'[t] = q
                      /\ \A t \in Tasks : ks'.status[t] = "HANGING" => parent_task'[t] # q
    BY DEF ChildrenOK
  <2>1. ks.status[q] = "WAITING" /\ q # parent_task[r]
    BY <1>9 DEF p
  <2> QED BY <1>9, <1>11a, <2>1, Now DEF ChildrenOK
<1> QED BY <1>4, <1>11, <1>12, <1>13, <1>14, <1>15, <1>16 DEF Inv

-----------------------------------------------------------------------------
(* sys_clone() *)

\* There are more pids than tasks, so a pid is left for a page that is free.
LEMMA NewPidFacts ==
    ASSUME Inv, NEW t \in Tasks, ~Alive(t)
    PROVE  /\ NewPid \in 0..NPids - 1 /\ NewPid \notin pid_bitmap /\ NewPid > 1
           /\ \A u \in Tasks : Alive(u) => pid[u] # NewPid
<1> DEFINE A == {u \in Tasks : Alive(u)}
           f == [u \in A |-> pid[u]]
           R == 0..NPids - 1
<1>1. /\ IsFiniteSet(Tasks) /\ Cardinality(Tasks) \in Nat /\ NPids \in Nat
      /\ Cardinality(Tasks) <= NPids
  BY WaitExitAssumption, FS_CardinalityType
<1>2. IsFiniteSet(Tasks \ {t}) /\ Cardinality(Tasks \ {t}) = Cardinality(Tasks) - 1
  BY <1>1, FS_RemoveElement
<1>3. A \in SUBSET (Tasks \ {t})
  OBVIOUS
<1>4. /\ IsFiniteSet(A) /\ Cardinality(A) \in Nat
      /\ Cardinality(A) <= Cardinality(Tasks) - 1
  BY <1>2, <1>3, FS_Subset, FS_CardinalityType
<1>5. f \in Surjection(A, pid_bitmap)
  <2>1. \A n : n \in pid_bitmap <=> \E u \in Tasks : Alive(u) /\ pid[u] = n
    BY Now DEF PidsOK
  <2>2. f \in [A -> pid_bitmap]
    BY <2>1
  <2>3. \A n \in pid_bitmap : \E u \in A : f[u] = n
    BY <2>1
  <2> QED BY <2>2, <2>3 DEF Surjection
<1>6. /\ IsFiniteSet(pid_bitmap) /\ Cardinality(pid_bitmap) \in Nat
      /\ Cardinality(pid_bitmap) <= Cardinality(A)
  BY <1>4, <1>5, FS_Surjection, FS_CardinalityType
<1>7. IsFiniteSet(R) /\ Cardinality(R) = NPids
  <2>1. 0 \in Int /\ NPids - 1 \in Int
    BY <1>1
  <2>2. IsFiniteSet(R) /\ Cardinality(R) = IF 0 > NPids - 1 THEN 0 ELSE NPids - 1 - 0 + 1
    BY <2>1, FS_Interval
  <2> QED BY <1>1, <2>2
<1>8. R \ pid_bitmap # {}
  <2> SUFFICES ASSUME R \ pid_bitmap = {} PROVE FALSE
    OBVIOUS
  <2>1. R \in SUBSET pid_bitmap
    OBVIOUS
  <2>2. Cardinality(R) <= Cardinality(pid_bitmap)
    BY <1>6, <2>1, FS_Subset
  <2> QED BY <1>1, <1>4, <1>6, <1>7, <2>2
<1>9. R \ pid_bitmap \subseteq Nat
  BY <1>1
<1>10. NewPid \in R \ pid_bitmap
  BY <1>8, <1>9, MinFacts DEF NewPid, bitmap_alloc
<1>11. \A u \in Tasks : Alive(u) => pid[u] \in pid_bitmap
  BY Now DEF PidsOK
<1>12. 0 \in pid_bitmap /\ 1 \in pid_bitmap
  BY <1>11, Now DEF PidsOK, RootsOK
<1>13. NewPid \in Nat /\ NewPid # 0 /\ NewPid # 1
  BY <1>9, <1>10, <1>12
<1> QED BY <1>10, <1>11, <1>13

LEMMA CloneInv ==
    ASSUME Inv, NEW t \in Tasks, sys_clone(t, "fork")
    PROVE  Inv'
<1> USE DEF Alive
<1> DEFINE r == ks.running
           n == NewPid
           page == bitmap_alloc(pool, Pages)
<1>1. /\ pc[r] = "user" /\ ks.status[t] = "DIED" /\ Pages \ pool # {}
      /\ ks' = create_task(ASSERT(ks, ~elem_find(all_tasks, t)), t)
      /\ pid' = [pid EXCEPT ![t] = n] /\ pid_bitmap' = pid_bitmap \cup {n}
      /\ parent_task' = [parent_task EXCEPT ![t] = IF n > 1 THEN r ELSE t]
      /\ all_tasks' = list_append(all_tasks, t)
      /\ pml4' = [pml4 EXCEPT ![t] = page] /\ pool' = pool \cup {page}
      /\ pc' = [pc EXCEPT ![t] = "user"]
  BY DEF sys_clone, Running
<1>2. /\ n \in 0..NPids - 1 /\ n \notin pid_bitmap /\ n > 1
      /\ \A u \in Tasks : ks.status[u] # "DIED" => pid[u] # n
  BY <1>1, NewPidFacts
<1>3. page \in Pages \ pool
  <2>1. Pages \ pool \subseteq Nat
    BY WaitExitAssumption
  <2> QED BY <1>1, <2>1, MinFacts DEF bitmap_alloc
<1>4. r \in Tasks /\ ks.status[r] = "RUNNING" /\ r # t /\ t \notin {idle_task, init_proc}
  BY <1>1, Now DEF RootsOK
<1> HIDE DEF r, n, page
<1>5. ~elem_find(all_tasks, t)
  BY <1>1, Now DEF ListOK
<1>6. ks' = create_task(ks, t)
  <2>1. (~elem_find(all_tasks, t)) = TRUE
    BY <1>5
  <2>2. ASSERT(ks, TRUE) = ks
    BY Now, AssertTrue
  <2> QED BY <1>1, <2>1, <2>2
<1>7. /\ SchedInv(ks') /\ ks'.status = [ks.status EXCEPT ![t] = "READY"]
      /\ \A u : elem_find(ks'.ready, u) <=> elem_find(ks.ready, u) \/ u = t
  <2>1. SchedInv(ks) /\ ks.status[t] = "DIED"
    BY <1>1, Now
  <2> QED BY <1>6, <2>1, CreateFacts
<1>8. /\ ks'.status[t] = "READY"
      /\ \A u \in Tasks \ {t} : ks'.status[u] = ks.status[u]
  BY <1>7, Now
<1>9. /\ pc'[t] = "user" /\ \A u \in Tasks \ {t} : pc'[u] = pc[u]
  BY <1>1, Now DEF PcOK
<1>10. PcOK'
  BY <1>1, <1>4, Now DEF PcOK, IdleLabels
<1>11. /\ parent_task'[t] = r /\ \A u \in Tasks \ {t} : parent_task'[u] = parent_task[u]
       /\ parent_task' \in [Tasks -> Tasks]
  BY <1>1, <1>2, <1>4, Now DEF ProcOK
<1>12. /\ pid'[t] = n /\ \A u \in Tasks \ {t} : pid'[u] = pid[u]
       /\ pid' \in [Tasks -> 0..NPids - 1]
  BY <1>1, <1>2, Now DEF ProcOK
<1>13. /\ pml4'[t] = page /\ \A u \in Tasks \ {t} : pml4'[u] = pml4[u]
       /\ pml4' \in [Tasks -> Pages \cup {KERNEL_PML4}]
  BY <1>1, <1>3, Now DEF ProcOK
<1>14. /\ all_tasks' \in Seq(Tasks) /\ NoDuplicates(all_tasks')
       /\ \A u : elem_find(all_tasks', u) <=> elem_find(all_tasks, u) \/ u = t
  BY <1>1, <1>5, Now, AppendFacts DEF ProcOK, ListOK
<1>15. ProcOK'
  BY <1>1, <1>2, <1>3, <1>11, <1>12, <1>13, <1>14, Now DEF ProcOK
<1>16. StatusOK'
  BY <1>7, <1>8, <1>9, Now DEF StatusOK
<1>17. RootsOK'
  BY <1>4, <1>8, <1>9, Now DEF RootsOK
<1>18. ParentAlive'
  <2>1. \A u \in Tasks : Alive(u) => parent_task[u] # t
    BY <1>1, Now DEF ParentAlive
  <2>2. ASSUME NEW u \in Tasks, Alive(u)'
        PROVE  Alive(parent_task[u])' /\ pc'[parent_task'[u]] \notin {"closing", "exited"}
    <3>1. CASE u = t
      <4>1. pc'[r] = "user" /\ ks'.status[r] = "RUNNING" /\ parent_task'[u] = r
        BY <1>1, <1>4, <1>8, <1>9, <1>11, <3>1
      <4> QED BY <4>1
    <3>2. CASE u # t
      <4>1. /\ Alive(u) /\ parent_task'[u] = parent_task[u] /\ parent_task[u] \in Tasks \ {t}
        BY <1>8, <1>11, <2>1, <2>2, <3>2, Now DEF ProcOK
      <4> QED BY <1>8, <1>9, <4>1, Now DEF ParentAlive
    <3> QED BY <3>1, <3>2
  <2> QED BY <2>2 DEF ParentAlive
<1>19. ListOK'
  BY <1>8, <1>14, Now DEF ListOK
<1>20. PidsOK'
  <2>1. pid'[idle_task] = 0 /\ pid'[init_proc] = 1
    BY <1>4, <1>12, Now DEF PidsOK
  <2>2. \A u, v \in Tasks : Alive(u)' /\ Alive(v)' /\ pid'[u] = pid'[v] => u = v
    BY <1>2, <1>8, <1>12, Now DEF PidsOK
  <2>3. \A m : m \in pid_bitmap' <=> \E u \in Tasks : Alive(u)' /\ pid'[u] = m
    <3>1. ASSUME NEW m, m \in pid_bitmap' PROVE \E u \in Tasks : Alive(u)' /\ pid'[u] = m
      <4>1. CASE m = n
        BY <1>8, <1>12, <4>1
      <4>2. CASE m \in pid_bitmap
        BY <1>1, <1>8, <1>12, <4>2, Now DEF PidsOK
      <4> QED BY <1>1, <3>1, <4>1, <4>2
    <3>2. ASSUME NEW m, NEW u \in Tasks, Alive(u)', pid'[u] = m PROVE m \in pid_bitmap'
      BY <1>1, <1>8, <1>12, <3>2, Now DEF PidsOK
    <3> QED BY <3>1, <3>2
  <2> QED BY <2>1, <2>2, <2>3 DEF PidsOK
<1>21. PagesOK'
  <2>1. \A u \in Tasks \ {t} : Alive(u) => pml4[u] # page
    <3>1. page # KERNEL_PML4
      BY <1>3, WaitExitAssumption DEF KERNEL_PML4
    <3> QED BY <1>3, <3>1, Now DEF PagesOK
  <2> QED BY <1>1, <1>3, <1>4, <1>8, <1>13, <2>1, Now DEF PagesOK
<1>22. ChildrenOK'
  <2> SUFFICES ASSUME NEW p \in Tasks \ {init_proc}, ks'.status[p] = "WAITING"
               PROVE  /\ \E u \in Tasks : Alive(u)' /\ parent_task'[u] = p
                      /\ \A u \in Tasks : ks'.status[u] = "HANGING" => parent_task'[u] # p
    BY DEF ChildrenOK
  <2>1. p # t /\ ks.status[p] = "WAITING"
    BY <1>8
  <2>2. PICK u \in Tasks : Alive(u) /\ parent_task[u] = p
    BY <2>1, Now DEF ChildrenOK
  <2>3. u # t /\ Alive(u)' /\ parent_task'[u] = p
    BY <1>1, <1>8, <1>11, <2>2
  <2>4. \A v \in Tasks : ks'.status[v] = "HANGING" => parent_task'[v] # p
    BY <1>8, <1>11, <2>1, Now DEF ChildrenOK
  <2> QED BY <2>3, <2>4
<1> QED BY <1>7, <1>10, <1>15, <1>16, <1>17, <1>18, <1>19, <1>20, <1>21, <1>22 DEF Inv

-----------------------------------------------------------------------------
(* The theorems *)

LEMMA NextInv == ASSUME ForkOnly, Inv, [Next]_vars PROVE Inv'
<1>1. CASE Timer
  BY <1>1, TimerInv
<1>2. CASE IdleSteps
  BY <1>2, IdleStepsInv
<1>3. CASE UserStep
  <2>1. CASE \E t \in Tasks, flag \in CloneFlags : sys_clone(t, flag)
    <3>1. PICK t \in Tasks, flag \in CloneFlags : sys_clone(t, flag)
      BY <2>1
    <3>2. flag = "fork"
      BY DEF ForkOnly
    <3> QED BY <3>1, <3>2, CloneInv
  <2> QED BY <1>3, <2>1, MoveInv, CallExitInv, BlockInv DEF UserStep
<1>4. CASE KernelStep
  BY <1>4, WaitReapInv, WaitBlockInv, ExitHangInv, MoveInv, BlockInv DEF KernelStep
<1>5. CASE \E t \in Tasks : IntrDevice(t)
  BY <1>5, IntrDeviceInv
<1>6. CASE UNCHANGED vars
  <2>1. UNCHANGED <<ks, pc, parent_task, all_tasks, pid, pid_bitmap, pml4, pool>>
    BY <1>6 DEF vars
  <2>2. SchedInv(ks') /\ PcOK' /\ ProcOK'
    BY <2>1, Now DEF PcOK, ProcOK
  <2>3. StatusOK' /\ RootsOK' /\ ParentAlive'
    BY <2>1, Now DEF StatusOK, RootsOK, ParentAlive, Alive
  <2>4. ListOK' /\ PidsOK'
    BY <2>1, Now DEF ListOK, PidsOK, Alive
  <2>5. PagesOK' /\ ChildrenOK'
    BY <2>1, Now DEF PagesOK, ChildrenOK, Alive
  <2> QED BY <2>2, <2>3, <2>4, <2>5 DEF Inv
<1> QED BY <1>1, <1>2, <1>3, <1>4, <1>5, <1>6 DEF Next

\* Inv is an invariant of the life of processes.
THEOREM WaitExitInvariant == ASSUME ForkOnly PROVE Spec => []Inv
<1>1. Init => Inv
  BY InitInv
<1>2. Inv /\ [Next]_vars => Inv'
  BY NextInv
<1> QED BY <1>1, <1>2, PTL DEF Spec

\* No ASSERT of clone(), wait() or exit() fails, for any number of tasks: the
\* parent is in no list when sys_exit() wakes it (task.c:95), and sys_wait()
\* frees a page table that is allocated (memory.c:56).
THEOREM WaitExitNoPanic == ASSUME ForkOnly PROVE Spec => []NoPanic
<1>1. Inv => NoPanic
  BY Now DEF NoPanic, TypeOK, SchedInv, PcOK, ProcOK
<1> QED BY <1>1, WaitExitInvariant, PTL

\* A task_struct that a parent_task points to is never freed, and its owner has
\* not begun to exit: init_adopt_a_child() sees every child in time.
THEOREM WaitExitParentAlive == ASSUME ForkOnly PROVE Spec => []ParentAlive
<1>1. Inv => ParentAlive
  BY Now
<1> QED BY <1>1, WaitExitInvariant, PTL

\* all_tasks_list, pid_bitmap and the page tables are exactly those of the tasks
\* that are alive: neither clone() nor wait() leaks one or frees one twice.
THEOREM WaitExitAllTasksExact == ASSUME ForkOnly PROVE Spec => []AllTasksExact
<1>1. ASSUME Inv PROVE AllTasksExact
  <2>1. all_tasks \in Seq(Tasks) /\ DOMAIN all_tasks = 1..Len(all_tasks)
        /\ Len(all_tasks) \in Nat
    BY <1>1, Now DEF ProcOK
  <2>2. IsInjective(all_tasks)
    BY <1>1, Now DEF ListOK, NoDuplicates, IsInjective
  <2>3. \A t : t \in ToSet(all_tasks) <=> t \in Tasks /\ Alive(t)
    <3>1. \A t : t \in ToSet(all_tasks) <=> elem_find(all_tasks, t)
      BY DEF ToSet, elem_find
    <3>2. \A t : elem_find(all_tasks, t) => t \in Tasks
      BY <1>1, Now DEF ProcOK, elem_find
    <3> QED BY <3>1, <3>2, <1>1, Now DEF ListOK
  <2>4. ToSet(all_tasks) = {t \in Tasks : Alive(t)}
    BY <2>3
  <2>5. pid_bitmap = {pid[t] : t \in ToSet(all_tasks)}
    BY <2>3, <1>1, Now DEF PidsOK
  <2>6. Cardinality(pid_bitmap) = Len(all_tasks)
    <3> DEFINE D == 1..Len(all_tasks)
               f == [i \in D |-> pid[all_tasks[i]]]
    <3>1. \A i \in D : all_tasks[i] \in Tasks /\ Alive(all_tasks[i])
      BY <2>1, <2>3 DEF ToSet
    <3>2. f \in [D -> pid_bitmap]
      BY <3>1, <1>1, Now DEF PidsOK
    <3>3. \A i, j \in D : f[i] = f[j] => i = j
      BY <2>1, <2>2, <3>1, <1>1, Now DEF PidsOK, IsInjective
    <3>4. \A n \in pid_bitmap : \E i \in D : f[i] = n
      BY <2>1, <2>5 DEF ToSet
    <3>5. f \in Bijection(D, pid_bitmap)
      BY <3>2, <3>3, <3>4 DEF Bijection, Surjection, Injection, IsInjective
    <3>6. IsFiniteSet(D) /\ Cardinality(D) = Len(all_tasks)
      BY <2>1, FS_Interval, SMTT(60)
    <3> QED BY <3>5, <3>6, FS_Bijection DEF ExistsBijection
  <2>7. \A t \in Tasks \ {idle_task, init_proc} : Alive(t) =>
          /\ pml4[t] \in pool
          /\ \A u \in Tasks \ {t} : Alive(u) => pml4[u] # pml4[t]
    BY <1>1, Now DEF PagesOK
  <2>8. \A page \in pool : \E t \in Tasks : Alive(t) /\ pml4[t] = page
    BY <1>1, Now DEF PagesOK
  <2> QED BY <2>2, <2>4, <2>5, <2>6, <2>7, <2>8 DEF AllTasksExact
<1> QED BY <1>1, WaitExitInvariant, PTL

\* A task other than pid 1 that sleeps in sys_wait() has a child that will wake
\* it: sys_exit() wakes the parent in the step in which the child hangs, and the
\* children that a task adopts go to pid 1 only.
THEOREM WaitExitNoMissedExit == ASSUME ForkOnly PROVE Spec => []NoMissedExit
<1>1. ASSUME Inv PROVE NoMissedExit
  <2> SUFFICES ASSUME NEW p \in Tasks \ {init_proc}, ks.status[p] = "WAITING"
               PROVE  HasChild(p) /\ ~HasHangingChild(p)
    BY DEF NoMissedExit
  <2> QED BY <1>1, Now, SearchFacts DEF ChildrenOK
<1> QED BY <1>1, WaitExitInvariant, PTL
=============================================================================
