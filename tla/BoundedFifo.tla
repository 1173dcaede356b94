----------------------------- MODULE BoundedFifo -----------------------------
(***************************************************************************)
(* What a queue of bytes promises: at most Capacity bytes, delivered in    *)
(* the order in which they were accepted, each to one reader.              *)
(***************************************************************************)
EXTENDS Naturals, Sequences

CONSTANTS Bytes, Readers, Capacity

VARIABLES
    queue,  \* the bytes accepted and not yet delivered
    got     \* got[r]: the last byte delivered to reader r

Put(b) ==
    /\ Len(queue) < Capacity
    /\ queue' = Append(queue, b)
    /\ UNCHANGED got

Get(r) ==
    /\ queue # <<>>
    /\ got' = [got EXCEPT ![r] = Head(queue)]
    /\ queue' = Tail(queue)

Init == queue = <<>> /\ got \in [Readers -> Bytes]

Next == (\E b \in Bytes : Put(b)) \/ (\E r \in Readers : Get(r))

Spec == Init /\ [][Next]_<<queue, got>>
=============================================================================
