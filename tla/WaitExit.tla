------------------------------ MODULE WaitExit -------------------------------
(***************************************************************************)
(* The life of a process: sys_clone() of task/task.c, sys_wait() and       *)
(* sys_exit() of userprog/wait_exit.c, with the pid pool and the page      *)
(* tables that they allocate and free.                                     *)
(*                                                                         *)
(* Labels: "wait" is the head of the loop in sys_wait(), "closing" is      *)
(* release_prog_resource(), "exited" the point after the last task_block() *)
(* of sys_exit(), "io" any other system call that blocks.                  *)
(***************************************************************************)
EXTENDS Kernel, SequencesExt

CONSTANTS
    Pages,      \* the pages that hold top level page tables
    NPids,      \* the number of bits of pid_bitmap
    CloneFlags, \* the flags that programs pass to clone()
    Blocking    \* the labels at which a task may wait for a device or a lock

\* pid_bitmap has 1024 bits and the kernel's memory pool 252 pages, of which a
\* task takes at least one: pages run out before pids do.
ASSUME WaitExitAssumption ==
    /\ Pages \subseteq Nat \ {0}
    /\ CloneFlags \subseteq {"fork", "CLONE_VM"}
    /\ Blocking \subseteq {"closing", "io"}
    /\ IsFiniteSet(Tasks) /\ NPids \in Nat /\ Cardinality(Tasks) <= NPids

VARIABLES
    parent_task,  \* task_struct.parent_task
    all_tasks,    \* all_tasks_list
    pid,          \* task_struct.pid
    pid_bitmap,   \* the pids that are taken
    pml4,         \* task_struct.pml4
    pool          \* the pages of Pages that are allocated

proc == <<parent_task, all_tasks, pid, pid_bitmap, pml4, pool>>
vars == <<ks, pc, parent_task, all_tasks, pid, pid_bitmap, pml4, pool>>

KERNEL_PML4 == 0

\* bitmap_alloc(btmp, 1): the lowest bit of range that is not set.
bitmap_alloc(set, range) == Min(range \ set)

NewPid == bitmap_alloc(pid_bitmap, 0..NPids - 1)

\* sys_clone() with create_task() and init_task(): a page for the task_struct,
\* a pid, a place in both lists and, unless the address space is shared, a page
\* for the page table; the descriptors are in module FileTable.  The kernel
\* panics when no page is left; the model stops creating tasks.
sys_clone(t, flag) ==
    /\ Running("user")
    /\ ks.status[t] = "DIED"
    /\ flag = "fork" => Pages \ pool # {}
    /\ ks' = create_task(ASSERT(ks, ~elem_find(all_tasks, t)), t)
    /\ pid' = [pid EXCEPT ![t] = NewPid]
    /\ pid_bitmap' = pid_bitmap \cup {NewPid}
    /\ parent_task' = [parent_task EXCEPT ![t] = IF NewPid > 1 THEN ks.running ELSE t]
    /\ all_tasks' = list_append(all_tasks, t)
    /\ LET page == IF flag = "fork" THEN bitmap_alloc(pool, Pages)
                                    ELSE pml4[ks.running]
       IN  /\ pml4' = [pml4 EXCEPT ![t] = page]
           /\ pool' = IF flag = "fork" THEN pool \cup {page} ELSE pool
    /\ pc' = [pc EXCEPT ![t] = "user"]

-----------------------------------------------------------------------------
(* sys_wait() *)

find_hanging_child(t, p) == parent_task[t] = p /\ ks.status[t] = "HANGING"

find_child(t, p) == parent_task[t] = p

\* list_traversal(): the first child in all_tasks_list that hangs.
FirstHanging(p) ==
    all_tasks[SelectInSeq(all_tasks, LAMBDA t : find_hanging_child(t, p))]

HasHangingChild(p) == \E t \in ToSet(all_tasks) : find_hanging_child(t, p)
HasChild(p)        == \E t \in ToSet(all_tasks) : find_child(t, p)

CallWait ==
    /\ Running("user")
    /\ Goto("wait")
    /\ UNCHANGED <<ks, proc>>

\* The page table that is freed with child c of p: none if they share it.
FreedPml4(p, c) == IF pml4[p] # pml4[c] THEN {pml4[c]} ELSE {}

\* Mutant: the pid stays taken.
release_pid_leak(n) == UNCHANGED pid_bitmap

release_pid(n) == pid_bitmap' = pid_bitmap \ {n}

\* A child hangs: its page table, its pid and its page are freed.
WaitReap ==
    LET p == ks.running
        c == FirstHanging(p)
    IN  /\ Running("wait")
        /\ HasHangingChild(p)
        /\ ks' = [ASSERT(ks, FreedPml4(p, c) \subseteq pool)
                    EXCEPT !.status[c] = "DIED",
                           !.ready     = IF elem_find(@, c) THEN list_remove(@, c) ELSE @]
        /\ pool' = pool \ FreedPml4(p, c)
        /\ all_tasks' = list_remove(all_tasks, c)
        /\ release_pid(pid[c])
        /\ Goto("user")
        /\ UNCHANGED <<parent_task, pid, pml4>>

\* No child at all: the call returns -1.
WaitNoChild ==
    /\ Running("wait")
    /\ ~HasChild(ks.running)
    /\ Goto("user")
    /\ UNCHANGED <<ks, proc>>

\* Children, but none of them hangs.
WaitBlock ==
    /\ Running("wait")
    /\ ~HasHangingChild(ks.running)
    /\ HasChild(ks.running)
    /\ ks' = task_block(ks, "WAITING")
    /\ UNCHANGED <<pc, proc>>

-----------------------------------------------------------------------------
(* sys_exit() *)

\* Mutant: the children keep their parent.
init_adopt_a_child_not(c, t) == parent_task[c]

init_adopt_a_child(c, t) ==
    IF elem_find(all_tasks, c) /\ parent_task[c] = t THEN init_proc ELSE parent_task[c]

\* The children go to init; then release_prog_resource() starts.  The program
\* of pid 1, command/init.c, never exits.
CallExit ==
    LET t == ks.running
    IN  /\ Running("user")
        /\ t # init_proc
        /\ ks' = ASSERT(ks, pid[t] > 1)
        /\ parent_task' = [c \in Tasks |-> init_adopt_a_child(c, t)]
        /\ Goto("closing")
        /\ UNCHANGED <<all_tasks, pid, pid_bitmap, pml4, pool>>

\* sys_close() waits for a lock or for the disk.
CloseBlock ==
    /\ Running("closing") /\ "closing" \in Blocking
    /\ ks' = task_block(ks, "BLOCKED")
    /\ UNCHANGED <<pc, proc>>

\* Mutants: the parent is woken whatever it does; it is never woken.
WakeParent_always(k, p) == task_unblock(k, p)
WakeParent_never(k, p)  == k

WakeParent(k, p) == IF k.status[p] = "WAITING" THEN task_unblock(k, p) ELSE k

\* The parent is woken if it is in sys_wait(), and the task hangs.
ExitHang ==
    /\ Running("closing")
    /\ ks' = task_block(WakeParent(ks, parent_task[ks.running]), "HANGING")
    /\ Goto("exited")
    /\ UNCHANGED proc

-----------------------------------------------------------------------------
\* Any other system call that blocks for a device or a lock.
CallIo ==
    /\ Running("user") /\ "io" \in Blocking
    /\ Goto("io")
    /\ ks' = task_block(ks, "BLOCKED")
    /\ UNCHANGED proc

IoDone ==
    /\ Running("io")
    /\ Goto("user")
    /\ UNCHANGED <<ks, proc>>

IntrDevice(t) ==
    /\ IntrOn
    /\ pc[t] \in {"io", "closing"}
    /\ ks.status[t] = "BLOCKED" /\ ~elem_find(ks.ready, t)
    /\ ks' = task_unblock(ks, t)
    /\ pc' = IntrExit
    /\ UNCHANGED proc

Timer     == IntrTime /\ UNCHANGED proc
IdleSteps == (IdleBlock \/ IdleHlt) /\ UNCHANGED proc

Init ==
    /\ KernelInit
    /\ parent_task = [t \in Tasks |-> t]
    /\ all_tasks = <<idle_task, init_proc>>
    /\ pid = [t \in Tasks |-> IF t = init_proc THEN 1 ELSE 0]
    /\ pid_bitmap = {0, 1}
    /\ pml4 = [t \in Tasks |-> KERNEL_PML4]
    /\ pool = {}

UserStep ==
    \/ CallWait \/ CallExit \/ CallIo
    \/ \E t \in Tasks, flag \in CloneFlags : sys_clone(t, flag)

KernelStep ==
    WaitReap \/ WaitNoChild \/ WaitBlock \/ CloseBlock \/ ExitHang \/ IoDone

Next ==
    \/ Timer \/ IdleSteps \/ UserStep \/ KernelStep
    \/ \E t \in Tasks : IntrDevice(t)

Spec == Init /\ [][Next]_vars

-----------------------------------------------------------------------------
(* Properties *)

TypeOK ==
    /\ ks \in SchedState
    /\ pc \in [Tasks -> {"user", "wait", "closing", "exited", "io"} \cup IdleLabels]
    /\ parent_task \in [Tasks -> Tasks]
    /\ all_tasks \in Seq(Tasks)
    /\ pid \in [Tasks -> 0..NPids - 1]
    /\ pid_bitmap \in SUBSET (0..NPids - 1)
    /\ pml4 \in [Tasks -> Pages \cup {KERNEL_PML4}]
    /\ pool \in SUBSET Pages

Alive(t) == ks.status[t] # "DIED"

\* No ASSERT fails on the way from clone() to wait(): two children that exit
\* one after the other do not wake their parent twice, and no page is freed
\* twice (wait_exit.c:103,110, task.c:95,128,269,272, memory.c:56); and every
\* variable keeps its type.
NoPanic == TypeOK /\ ~ks.panic

\* A parent_task pointer never dangles: sys_exit() reads the status of the
\* parent, which may itself have exited while the child was closing its files.
\* Whoever has begun to exit is nobody's parent.
ParentAlive ==
    \A t \in Tasks : Alive(t) =>
        /\ Alive(parent_task[t])
        /\ pc[parent_task[t]] \notin {"closing", "exited"}

\* What belongs to a task is there as long as the task is: all_tasks_list holds
\* exactly the tasks whose page is allocated, once each, and so do the pids; the
\* address space that a task is dispatched on is allocated and, for tasks that
\* clone() made without CLONE_VM, nobody else's; and no page table outlives its task.
AllTasksExact ==
    /\ IsInjective(all_tasks)
    /\ ToSet(all_tasks) = {t \in Tasks : Alive(t)}
    /\ pid_bitmap = {pid[t] : t \in ToSet(all_tasks)}
    /\ Cardinality(pid_bitmap) = Len(all_tasks)
    /\ \A t \in Tasks \ {idle_task, init_proc} : Alive(t) =>
          /\ pml4[t] \in pool
          /\ \A u \in Tasks \ {t} : Alive(u) => pml4[u] # pml4[t]
    /\ \A page \in pool : \E t \in Tasks : Alive(t) /\ pml4[t] = page

\* No exit is missed: a task that sleeps in sys_wait() and has not been woken
\* has a child, and none that hangs: wait() will return, as lib/syscall.h:42
\* promises.  Not so for pid 1: sys_exit() hands over children that hang already
\* and wakes only its own parent.
NoMissedExit ==
    \A p \in Tasks \ {init_proc} :
        ks.status[p] = "WAITING" /\ ~elem_find(ks.ready, p) =>
            HasChild(p) /\ ~HasHangingChild(p)
=============================================================================
