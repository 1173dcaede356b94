-------------------------------- MODULE Sema ---------------------------------
(***************************************************************************)
(* The binary semaphores of task/sync.c as functions on their state.  Each *)
(* call changes the semaphore s and the scheduler state k; the two effects *)
(* are separate operators, the second with the suffix _sched.              *)
(***************************************************************************)
EXTENDS Sched

SemaState == [value : 0..1, waiters : Seq(Tasks)]

sema_init(v) == [value |-> v, waiters |-> <<>>]

\* sema_down(), one turn of the while loop that finds value 0: the running task
\* queues up and blocks.  It tests the value again when it is woken.
sema_wait(s, t) == [s EXCEPT !.waiters = list_append(@, t)]

\* Mutant: the wrong status.
sema_wait_sched_hanging(k, s) ==
    task_block(ASSERT(k, ~elem_find(s.waiters, k.running)), "HANGING")

sema_wait_sched(k, s) ==
    task_block(ASSERT(k, ~elem_find(s.waiters, k.running)), "BLOCKED")

\* Mutant: the value is not decremented.
sema_take_free(s) == s

\* sema_down(), after the loop.
sema_take(s) == [s EXCEPT !.value = @ - 1]

sema_take_sched(k, s) == ASSERT(k, s.value - 1 = 0)

\* Mutant: the waiter stays in the list.
sema_up_peek(s) == [s EXCEPT !.value = @ + 1]

\* sema_up(): the first waiter is woken and the value is there for whoever
\* tests it first.
sema_up(s) ==
    [value   |-> s.value + 1,
     waiters |-> IF s.waiters = <<>> THEN <<>> ELSE Tail(s.waiters)]

\* Mutant: the waiter is not woken.
sema_up_sched_silent(k, s) == ASSERT(k, s.value = 0)

sema_up_sched(k, s) ==
    LET k1 == ASSERT(k, s.value = 0)
    IN  IF s.waiters = <<>> THEN k1 ELSE task_unblock(k1, Head(s.waiters))
=============================================================================
