------------------------------- MODULE Console -------------------------------
(***************************************************************************)
(* Reading the keyboard: intr_keyboard_hdl() puts bytes into kbd_buf, tasks*)
(* in sys_read() of a character device take them out (console_read(),      *)
(* ioq_getchar()).                                                         *)
(*                                                                         *)
(* Labels: "get" is the test of the loop in ioq_getchar(), "down" the loop *)
(* of sema_down(&ioq->iosema), "slept" the return from ioq_wait().         *)
(***************************************************************************)
EXTENDS Kernel, Sema, IoQueue

CONSTANTS
    Readers,  \* the tasks that read the keyboard
    MaxCount  \* bound on the count argument of read()

ASSUME ConsoleAssumption ==
    Readers \subseteq Tasks \ {idle_task} /\ MaxCount \in Nat \ {0}

VARIABLES
    kbd_buf,   \* the ring of kbd_buf
    iosema,    \* kbd_buf.iosema
    consumer,  \* kbd_buf.consumer: the set of the task it points to, or {}
    need,      \* need[t]: the bytes that t's console_read() still has to get
    got        \* got[t]: the last byte that ioq_getchar() returned to t

vars == <<ks, pc, kbd_buf, iosema, consumer, need, got>>

\* sys_read() of the console.  It takes and gives back file_table_lock on the way,
\* without a sleep between the two; here nobody else has that lock (see Pipe).
CallRead(n) ==
    /\ Running("user")
    /\ ks.running \in Readers
    /\ need' = [need EXCEPT ![ks.running] = n]
    /\ Goto("get")
    /\ UNCHANGED <<ks, kbd_buf, iosema, consumer, got>>

\* ioq_getchar() finds the ring empty and goes for iosema.
GetEmpty ==
    /\ Running("get")
    /\ ioq_empty(kbd_buf)
    /\ Goto("down")
    /\ UNCHANGED <<ks, kbd_buf, iosema, consumer, need, got>>

\* ioq_getchar() takes a byte; console_read() returns or goes on.  kbd_buf has
\* no producer to wake: the keyboard handler never waits.
GetByte ==
    LET t == ks.running
    IN  /\ Running("get")
        /\ ~ioq_empty(kbd_buf)
        /\ got' = [got EXCEPT ![t] = ring_byte(kbd_buf)]
        /\ kbd_buf' = ring_get(kbd_buf)
        /\ need' = [need EXCEPT ![t] = @ - 1]
        /\ Goto(IF need[t] = 1 THEN "user" ELSE "get")
        /\ UNCHANGED <<ks, iosema, consumer>>

DownWait ==
    /\ Running("down")
    /\ iosema.value = 0
    /\ iosema' = sema_wait(iosema, ks.running)
    /\ ks' = sema_wait_sched(ks, iosema)
    /\ UNCHANGED <<pc, kbd_buf, consumer, need, got>>

\* The rest of sema_down() and ioq_wait(): the ring is not looked at again.
ioq_wait ==
    /\ Running("down")
    /\ iosema.value # 0
    /\ iosema' = sema_take(iosema)
    /\ consumer' = {ks.running}
    /\ ks' = task_block(ASSERT(sema_take_sched(ks, iosema), consumer = {}), "BLOCKED")
    /\ Goto("slept")
    /\ UNCHANGED <<kbd_buf, need, got>>

\* Back from ioq_wait(): sema_up() and the test of the loop again.
Slept ==
    /\ Running("slept")
    /\ iosema' = sema_up(iosema)
    /\ ks' = sema_up_sched(ks, iosema)
    /\ Goto("get")
    /\ UNCHANGED <<kbd_buf, consumer, need, got>>

\* Mutant: the consumer pointer is not cleared.
KeyStored_stale(b) ==
    /\ IntrOn
    /\ ~ioq_full(kbd_buf)
    /\ kbd_buf' = ring_put(kbd_buf, b)
    /\ ks' = wakeup(ks, consumer)
    /\ pc' = IntrExit
    /\ UNCHANGED <<iosema, consumer, need, got>>

\* intr_keyboard_hdl() with a key that has a character: the byte is dropped when
\* the ring is full, else ioq_putchar() stores it and wakes the consumer.
KeyDropped ==
    /\ IntrOn
    /\ ioq_full(kbd_buf)
    /\ pc' = IntrExit
    /\ UNCHANGED <<ks, kbd_buf, iosema, consumer, need, got>>

KeyStored(b) ==
    /\ IntrOn
    /\ ~ioq_full(kbd_buf)
    /\ kbd_buf' = ring_put(kbd_buf, b)
    /\ ks' = wakeup(ks, consumer)
    /\ consumer' = {}
    /\ pc' = IntrExit
    /\ UNCHANGED <<iosema, need, got>>

\* The other tasks come into being and run.
Clone(t) ==
    /\ Running("user")
    /\ ks.status[t] = "DIED"
    /\ ks' = create_task(ks, t)
    /\ UNCHANGED <<pc, kbd_buf, iosema, consumer, need, got>>

Timer     == IntrTime /\ UNCHANGED <<kbd_buf, iosema, consumer, need, got>>
IdleSteps == (IdleBlock \/ IdleHlt) /\ UNCHANGED <<kbd_buf, iosema, consumer, need, got>>

Init ==
    /\ KernelInit
    /\ kbd_buf = ioqueue_init
    /\ iosema = sema_init(1)
    /\ consumer = {}
    /\ need = [t \in Readers |-> 0]
    /\ got = [t \in Readers |-> CHOOSE b \in Bytes : TRUE]

KernelStep == GetEmpty \/ GetByte \/ DownWait \/ ioq_wait \/ Slept

Next ==
    \/ Timer \/ IdleSteps \/ KernelStep
    \/ \E n \in 1..MaxCount : CallRead(n)
    \/ \E t \in Tasks : Clone(t)
    \/ KeyDropped \/ \E b \in Bytes : KeyStored(b)

Spec == Init /\ [][Next]_vars

-----------------------------------------------------------------------------
(* Properties *)

TypeOK ==
    /\ ks \in SchedState
    /\ pc \in [Tasks -> {"user", "get", "down", "slept"} \cup IdleLabels]
    /\ kbd_buf \in RingState
    /\ iosema \in SemaState
    /\ consumer \in SUBSET Readers
    /\ need \in [Readers -> 0..MaxCount]
    /\ got \in [Readers -> Bytes]

\* Whoever consumer points to is asleep in ioq_wait() and holds iosema, and a
\* reader that is asleep without having been woken is the consumer or queued at
\* iosema: the keyboard handler always finds whom to wake.  (With two readers
\* the one that comes second may sleep although there are bytes in the ring.)
\* No ASSERT of ioqueue.c, sync.c or task.c fails on the way, and every variable
\* keeps its type.
SleeperReachable ==
    /\ TypeOK /\ ~ks.panic
    /\ \A t \in consumer : /\ pc[t] = "slept" /\ ks.status[t] = "BLOCKED"
                           /\ ~elem_find(ks.ready, t) /\ iosema.value = 0
    /\ \A t \in Readers : ks.status[t] = "BLOCKED" /\ ~elem_find(ks.ready, t) =>
          IF pc[t] = "slept" THEN t \in consumer ELSE elem_find(iosema.waiters, t)

\* The ring delivers every accepted byte once, in order, and never holds more
\* than bufsize - 1 of them.
Fifo ==
    INSTANCE BoundedFifo WITH queue <- Contents(kbd_buf), Capacity <- bufsize - 1

RefinesFifo == Fifo!Spec
=============================================================================
