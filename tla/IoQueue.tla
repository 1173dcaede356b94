------------------------------- MODULE IoQueue -------------------------------
(***************************************************************************)
(* The ring buffer of device/ioqueue.c as functions on its state: the array*)
(* and the two positions.  One slot stays empty, so that a full ring can   *)
(* be told from an empty one.                                              *)
(***************************************************************************)
EXTENDS Sched

CONSTANTS
    bufsize,  \* ioqueue.h: bufsize
    Bytes     \* the values of a byte that the model tells apart

ASSUME IoQueueAssumption == bufsize \in Nat \ {0} /\ Bytes # {}

RingState ==
    [buf : [0..bufsize - 1 -> Bytes], head : 0..bufsize - 1, tail : 0..bufsize - 1]

ioqueue_init ==
    [buf |-> [i \in 0..bufsize - 1 |-> CHOOSE b \in Bytes : TRUE], head |-> 0, tail |-> 0]

next_pos(pos) == (pos + 1) % bufsize

\* Mutant: a full ring that has not wrapped is taken for one with room.
ioq_full_straight(q) == q.head + 1 = q.tail

ioq_full(q)  == next_pos(q.head) = q.tail
ioq_empty(q) == q.head = q.tail

\* The end of ioq_putchar() and of ioq_getchar().
ring_put(q, b) == [q EXCEPT !.buf[q.head] = b, !.head = next_pos(@)]
ring_byte(q)   == q.buf[q.tail]
ring_get(q)    == [q EXCEPT !.tail = next_pos(@)]

ioq_length(q) ==
    IF q.head >= q.tail THEN q.head - q.tail ELSE bufsize - (q.tail - q.head)

\* wakeup(), when *waiter, the set of the task it points to, is not NULL.
wakeup(k, waiter) ==
    IF waiter = {} THEN k ELSE task_unblock(k, CHOOSE t \in waiter : TRUE)

\* The bytes in the ring, oldest first.
Contents(q) == [i \in 1..ioq_length(q) |-> q.buf[(q.tail + i - 1) % bufsize]]
=============================================================================
