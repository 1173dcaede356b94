---------------------------- MODULE PrivateMemory ----------------------------
(***************************************************************************)
(* What lib/syscall.h promises of the memory of processes: clone() "is     *)
(* like fork", execv() "replaces the address space" and brk() "changes the *)
(* size of the heap".  Every process has a memory of its own.  The heap is *)
(* not inherited, and what it holds before it is written is not specified: *)
(* content is Zero there, as it is wherever a process has no memory.       *)
(***************************************************************************)
EXTENDS Integers

CONSTANTS
    Procs,
    init_proc,
    Zero,
    Images,        \* what executables put where: functions of addresses
    StackStart,
    DEFAULT_STACK

VARIABLES
    content,  \* content[p][a]: what p finds at address a
    heap,     \* heap[p]: the addresses of its heap
    status    \* "user", "open" and "load" in execv(), "HANGING" or "DIED"

vars == <<content, heap, status>>

Addresses == 0..DEFAULT_STACK - 1
Nothing == [a \in Addresses |-> Zero]

OthersKeep(p) == \A q \in Procs \ {p} : content'[q] = content[q]

\* A store of p changes one place of its own memory.
Store(p) ==
    /\ status[p] = "user"
    /\ UNCHANGED <<status, heap>>
    /\ \E a \in {b \in Addresses : content'[p][b] # content[p][b]} :
          content'[p] = [content[p] EXCEPT ![a] = p]
    /\ OthersKeep(p)

\* The heap of p gets another size: what stays in it, or outside, is kept.
Resize(p) ==
    /\ UNCHANGED status
    /\ heap' # heap /\ \A q \in Procs \ {p} : heap'[q] = heap[q]
    /\ OthersKeep(p)
    /\ \A a \in Addresses :
          (a \in heap[p] <=> a \in heap'[p]) => content'[p][a] = content[p][a]

\* The child finds what its parent has, but for the heap.
Fork(p, c) ==
    /\ status[p] = "user" /\ status[c] = "DIED"
    /\ status' = [status EXCEPT ![c] = "user"]
    /\ heap' = [heap EXCEPT ![c] = heap[p]]
    /\ content' = [content EXCEPT ![c] =
          [a \in Addresses |-> IF a \in heap[p] THEN Zero ELSE content[p][a]]]

\* execv() gives up the heap, tries the file and may fail.
Open(p) ==
    /\ status[p] = "user"
    /\ status' = [status EXCEPT ![p] = "open"]
    /\ heap' = [heap EXCEPT ![p] = {}]
    /\ content' = [content EXCEPT ![p] =
          [a \in Addresses |-> IF a \in heap[p] THEN Zero ELSE content[p][a]]]

OpenFails(p) ==
    /\ status[p] = "open"
    /\ status' = [status EXCEPT ![p] = "user"]
    /\ UNCHANGED <<content, heap>>

\* While the program is loaded the memory below the stack is in flux.
Load(p) ==
    /\ status[p] \in {"open", "load"}
    /\ status' = [status EXCEPT ![p] = "load"]
    /\ OthersKeep(p)
    /\ \A a \in StackStart..DEFAULT_STACK - 1 : content'[p][a] = content[p][a]
    /\ UNCHANGED heap

\* In the end it is the image, and the stack is as it was.
Start(p) ==
    /\ status[p] = "load"
    /\ status' = [status EXCEPT ![p] = "user"]
    /\ \E image \in Images : \A a \in DOMAIN image : content[p][a] = image[a]
    /\ UNCHANGED <<content, heap>>

Exit(p) ==
    /\ status[p] = "user"
    /\ status' = [status EXCEPT ![p] = "HANGING"]
    /\ content' = [content EXCEPT ![p] = Nothing]
    /\ heap' = [heap EXCEPT ![p] = {}]

Reap(p) ==
    /\ status[p] = "HANGING"
    /\ status' = [status EXCEPT ![p] = "DIED"]
    /\ UNCHANGED <<content, heap>>

Init ==
    /\ content = [p \in Procs |-> Nothing]
    /\ heap = [p \in Procs |-> {}]
    /\ status = [p \in Procs |-> IF p = init_proc THEN "open" ELSE "DIED"]

Next ==
    \E p \in Procs :
        \/ \E c \in Procs : Fork(p, c)
        \/ Store(p) \/ Resize(p) \/ Open(p) \/ OpenFails(p) \/ Load(p) \/ Start(p) \/ Exit(p) \/ Reap(p)

Spec == Init /\ [][Next]_vars
=============================================================================
