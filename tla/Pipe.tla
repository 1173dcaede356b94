-------------------------------- MODULE Pipe ---------------------------------
(***************************************************************************)
(* A pipe between processes: sys_write() and sys_read() of fs/file.c on a  *)
(* FT_FIFO file, pipe_write() and pipe_read() of userprog/pipe.c, on the   *)
(* ring of device/ioqueue.c.  sys_write() holds file_table_lock around the *)
(* whole pipe_write(); sys_read() takes and releases it before pipe_read().*)
(*                                                                         *)
(* Labels: "wlock" and "rlock" are the loops of sema_down(&file_table_lock)*)
(* in sys_write() and sys_read(), "put" and "take" the tests of the loops  *)
(* in pipe_write() and pipe_read(), "iodown" the loop of sema_down(&ioq->  *)
(* iosema) in ioq_putchar(), "slept" the return from its ioq_wait().       *)
(***************************************************************************)
EXTENDS Kernel, Sema, IoQueue, FiniteSets

CONSTANTS
    Writers, Readers,  \* the tasks at the two ends of the pipe
    MaxCount,          \* bound on the count argument of read() and write()
    open_cnts_pos      \* the position in buf that overlays inode.open_cnts

\* In the code a byte has 256 values, buf has 2048 positions and open_cnts, at
\* offset 112 of struct inode, overlays position 56 of buf.
ASSUME PipeAssumption ==
    /\ Writers \cup Readers \subseteq Tasks \ {idle_task}
    /\ MaxCount \in Nat \ {0}
    /\ open_cnts_pos \in Nat
    /\ IsFiniteSet(Bytes) /\ Bytes = 0..Cardinality(Bytes) - 1

VARIABLES
    q,                \* the ring of the pipe
    iosema,           \* its iosema
    producer,         \* its producer: the set of the task it points to, or {}
    file_table_lock,
    left,             \* left[t]: the bytes that t's call still has to transfer
    got               \* got[t]: the last byte that ioq_getchar() returned to t

pipe == <<q, iosema, producer, file_table_lock, left, got>>
vars == <<ks, pc, q, iosema, producer, file_table_lock, left, got>>

SetLeft(n) == left' = [left EXCEPT ![ks.running] = n]

-----------------------------------------------------------------------------
(* sys_write() *)

CallWrite(n) ==
    /\ Running("user")
    /\ ks.running \in Writers
    /\ SetLeft(n)
    /\ Goto("wlock")
    /\ UNCHANGED <<ks, q, iosema, producer, file_table_lock, got>>

LockWait ==
    /\ Running("wlock") \/ Running("rlock")
    /\ file_table_lock.value = 0
    /\ file_table_lock' = sema_wait(file_table_lock, ks.running)
    /\ ks' = sema_wait_sched(ks, file_table_lock)
    /\ UNCHANGED <<pc, q, iosema, producer, left, got>>

\* pipe_write() computes how much it writes from the room that is left.
ioq_left == bufsize - ioq_length(q)

WriteLocked ==
    LET count == left[ks.running]
    IN  /\ Running("wlock")
        /\ file_table_lock.value # 0
        /\ file_table_lock' = sema_take(file_table_lock)
        /\ ks' = sema_take_sched(ks, file_table_lock)
        /\ SetLeft(IF ioq_left > count THEN count ELSE ioq_left)
        /\ Goto("put")
        /\ UNCHANGED <<q, iosema, producer, got>>

\* ioq_putchar() with room in the ring.  No consumer ever sleeps on a pipe.
PutByte(b) ==
    /\ Running("put")
    /\ left[ks.running] > 0
    /\ ~ioq_full(q)
    /\ q' = ring_put(q, b)
    /\ SetLeft(left[ks.running] - 1)
    /\ UNCHANGED <<ks, pc, iosema, producer, file_table_lock, got>>

PutFull ==
    /\ Running("put")
    /\ left[ks.running] > 0
    /\ ioq_full(q)
    /\ Goto("iodown")
    /\ UNCHANGED <<ks, pipe>>

\* Mutant: the writer lets others in while it sleeps.
ioq_wait_unlocked ==
    /\ Running("iodown")
    /\ iosema' = sema_take(iosema)
    /\ producer' = {ks.running}
    /\ file_table_lock' = sema_up(file_table_lock)
    /\ ks' = task_block(sema_up_sched(ks, file_table_lock), "BLOCKED")
    /\ Goto("slept")
    /\ UNCHANGED <<q, left, got>>

\* ioq_putchar() takes iosema, which is free, and ioq_wait(&ioq->producer) blocks
\* the writer.  No action follows "slept", and none waits for iosema: the sleeper
\* holds file_table_lock, without which nobody else gets to the ring.
ioq_wait ==
    /\ Running("iodown")
    /\ iosema' = sema_take(iosema)
    /\ producer' = {ks.running}
    /\ ks' = task_block(ASSERT(sema_take_sched(ks, iosema), producer = {}), "BLOCKED")
    /\ Goto("slept")
    /\ UNCHANGED <<q, file_table_lock, left, got>>

\* pipe_write() is done; sys_write() releases file_table_lock and returns.
WriteRet ==
    /\ Running("put")
    /\ left[ks.running] = 0
    /\ file_table_lock' = sema_up(file_table_lock)
    /\ ks' = sema_up_sched(ks, file_table_lock)
    /\ Goto("user")
    /\ UNCHANGED <<q, iosema, producer, left, got>>

-----------------------------------------------------------------------------
(* sys_read() *)

CallRead(n) ==
    /\ Running("user")
    /\ ks.running \in Readers
    /\ SetLeft(n)
    /\ Goto("rlock")
    /\ UNCHANGED <<ks, q, iosema, producer, file_table_lock, got>>

\* Mutant: the count is not bounded by what the pipe holds.
ReadSize_unbounded(count) == count

ReadSize(count) == IF ioq_length(q) > count THEN count ELSE ioq_length(q)

\* sys_read() takes and releases file_table_lock, then pipe_read() computes how
\* much it reads: no more than there is.
ReadLocked ==
    LET locked == sema_take(file_table_lock)
    IN  /\ Running("rlock")
        /\ file_table_lock.value # 0
        /\ ks' = sema_up_sched(sema_take_sched(ks, file_table_lock), locked)
        /\ file_table_lock' = sema_up(locked)
        /\ SetLeft(ReadSize(left[ks.running]))
        /\ Goto("take")
        /\ UNCHANGED <<q, iosema, producer, got>>

\* ioq_getchar(), with the wakeup of a producer that sleeps.
TakeByte ==
    /\ Running("take")
    /\ left[ks.running] > 0
    /\ ~ioq_empty(q)
    /\ got' = [got EXCEPT ![ks.running] = ring_byte(q)]
    /\ q' = ring_get(q)
    /\ ks' = wakeup(ks, producer)
    /\ producer' = {}
    /\ SetLeft(left[ks.running] - 1)
    /\ UNCHANGED <<pc, iosema, file_table_lock>>

ReadRet ==
    /\ Running("take")
    /\ left[ks.running] = 0
    /\ Goto("user")
    /\ UNCHANGED <<ks, pipe>>

-----------------------------------------------------------------------------
\* sys_clone(): the child inherits the pipe.  For an FT_FIFO file the loop over
\* fd_table also executes ++f_inode->open_cnts, although f_inode points to the
\* pipe's ioqueue: twice, for the two descriptors that every task keeps (the carry
\* into the next position is left out).
Clone(t) ==
    /\ Running("user")
    /\ ks.status[t] = "DIED"
    /\ ks' = create_task(ks, t)
    /\ q' = IF open_cnts_pos < bufsize
            THEN [q EXCEPT !.buf[open_cnts_pos] = (@ + 2) % Cardinality(Bytes)]
            ELSE q
    /\ UNCHANGED <<pc, iosema, producer, file_table_lock, left, got>>

Timer     == IntrTime /\ UNCHANGED pipe
IdleSteps == (IdleBlock \/ IdleHlt) /\ UNCHANGED pipe

Init ==
    /\ KernelInit
    /\ q = ioqueue_init
    /\ iosema = sema_init(1)
    /\ producer = {}
    /\ file_table_lock = sema_init(1)
    /\ left = [t \in Writers \cup Readers |-> 0]
    /\ got = [t \in Readers |-> CHOOSE b \in Bytes : TRUE]

KernelStep ==
    \/ LockWait \/ WriteLocked \/ PutFull \/ ioq_wait
    \/ WriteRet \/ ReadLocked \/ TakeByte \/ ReadRet
    \/ \E b \in Bytes : PutByte(b)

Call == \E n \in 1..MaxCount : CallWrite(n) \/ CallRead(n)

Next ==
    \/ Timer \/ IdleSteps \/ KernelStep \/ Call
    \/ \E t \in Tasks : Clone(t)

Spec == Init /\ [][Next]_vars

\* The processor executes the task that has it, the timer ticks, the tasks come
\* into being, and the readers read again and again.
FairSpec ==
    /\ Spec
    /\ WF_vars(KernelStep) /\ WF_vars(IdleSteps) /\ SF_vars(Timer)
    /\ \A t \in Tasks : SF_vars(Clone(t))
    /\ \A t \in Readers :
          SF_vars(ks.running = t /\ \E n \in 1..MaxCount : CallRead(n))

-----------------------------------------------------------------------------
(* Properties *)

Labels == {"user", "wlock", "put", "iodown", "slept", "rlock", "take"}

TypeOK ==
    /\ ks \in SchedState
    /\ pc \in [Tasks -> Labels \cup IdleLabels]
    /\ q \in RingState
    /\ iosema \in SemaState /\ file_table_lock \in SemaState
    /\ producer \in SUBSET Writers
    /\ left \in [Writers \cup Readers -> 0..MaxCount]
    /\ got \in [Readers -> Bytes]

Fifo ==
    INSTANCE BoundedFifo WITH queue <- Contents(q), Capacity <- bufsize - 1

\* What read(), write() and clone() promise (lib/syscall.h:28,30,38): the pipe delivers
\* the bytes in the order in which they were written, each of them once and unchanged.
RefinesFifo == Fifo!Spec

\* A clone() changes the unread byte that lies at open_cnts_pos, and no other.
ByteCloned ==
    /\ \E t \in Tasks : ks.status[t] = "DIED" /\ ks'.status[t] # "DIED"
    /\ ioq_length(q') = ioq_length(q)
    /\ \A i \in 1..ioq_length(q) :
          (q.tail + i - 1) % bufsize # open_cnts_pos => Contents(q')[i] = Contents(q)[i]
    /\ UNCHANGED got

\* With one exception the pipe is a first-in first-out queue of bufsize - 1 bytes: bytes
\* are neither lost, repeated, reordered nor changed by writers and readers at any
\* position of the ring (ioqueue.c:13-75, pipe.c:33-65).  The exception is the byte that
\* sys_clone() takes for the open_cnts of an inode (task.c:239).
QueueButForClone ==
    Fifo!Init /\ [][Fifo!Next \/ ByteCloned]_<<Contents(q), got>>

\* pipe_read() never gets into the waiting loop of ioq_getchar(): what it reads
\* was there when it looked, and nobody takes it away before.  No ASSERT fails,
\* however writers and readers are preempted, and every variable keeps its type.
ReadNeverWaits ==
    /\ TypeOK /\ ~ks.panic
    /\ \A t \in Readers : pc[t] = "take" => left[t] <= ioq_length(q)

\* The bytes of two writes are not mixed: between the first and the last byte of
\* a write, sleep included, its task is the only one inside pipe_write().
WritesNotMixed ==
    \A t, u \in Writers :
        pc[t] \in {"put", "iodown", "slept"} /\ pc[u] \in {"put", "iodown", "slept"}
            => t = u

\* write() returns as long as somebody reads the pipe: lib/syscall.h:30.
WriteReturns ==
    \A t \in Writers : pc[t] = "wlock" ~> pc[t] = "user"
=============================================================================
