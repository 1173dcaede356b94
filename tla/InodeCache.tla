----------------------------- MODULE InodeCache ------------------------------
(***************************************************************************)
(* The cache of open inodes of fs/inode.c: inode_open() and inode_close()  *)
(* with the lock of the list, the lock of each inode and the reference     *)
(* counts, under clients that open, lock, read and close inodes, the same  *)
(* ones and each as often as they like.                                    *)
(*                                                                         *)
(* A call is cut where it can block, and which task goes on from there is  *)
(* left open; between those points the kernel is not preempted.  Labels:   *)
(* "list" waits for open_inodes_lock and "inode" for inode_lock in         *)
(* inode_open(), "fetch" is its block_read(); "remove" waits for           *)
(* open_inodes_lock in inode_close(), and "release" is its sema_up() of    *)
(* the inode_lock that kfree() has just freed, which nobody can precede;   *)
(* "io" reads or writes with inode_lock held.                              *)
(*                                                                         *)
(* inode_open() can return a struct inode that was freed while it waited   *)
(* for its lock.  astray tells that this has happened; what the kernel     *)
(* does from there, with freed memory, is not modelled.                    *)
(***************************************************************************)
EXTENDS Naturals, FiniteSets

CONSTANTS
    Tasks,    \* the tasks
    INos,     \* the inode numbers
    Blocks,   \* the blocks of memory that kalloc() returns for a struct inode
    Handles,  \* the variables of a task that can hold an inode
    NIL

ASSUME InodeCacheAssumption ==
    /\ IsFiniteSet(Tasks) /\ IsFiniteSet(Handles)
    /\ INos # {} /\ Blocks # {}
    /\ NIL \notin Tasks /\ NIL \notin Blocks

VARIABLES
    inode,             \* inode[b]: i_no, open_cnts and the holder of inode_lock
    allocated,         \* the blocks that are allocated
    open_inodes,       \* the blocks that are in the list open_inodes
    open_inodes_lock,  \* its holder, or NIL
    pc,
    want,              \* want[p]: the inode number that p's inode_open() is for
    cur,               \* cur[p]: the struct inode that p's call works on
    refs,              \* refs[p][h]: the inode that p has in its variable h, or NIL
    astray             \* observer: inode_open() has returned another inode than the file's

vars == <<inode, allocated, open_inodes, open_inodes_lock, pc, want, cur, refs, astray>>

Goto(p, from, to) ==
    /\ ~astray
    /\ \A q \in Tasks \ {p} : pc[q] # "release"
    /\ pc[p] = from /\ pc' = [pc EXCEPT ![p] = to]

\* find_inode() on the list.
Found(i) == {b \in open_inodes : inode[b].i_no = i}

\* inode_open() returns b to p.  The reference that path_prase() takes to the directory
\* it returns is one that is never closed.
Returned(p, b) ==
    \E h \in Handles :
        refs[p][h] = NIL /\ refs' = [refs EXCEPT ![p][h] = b]

-----------------------------------------------------------------------------
(* inode_open() *)

CallOpen(p, i) ==
    /\ \E h \in Handles : refs[p][h] = NIL
    /\ Goto(p, "user", "list")
    /\ want' = [want EXCEPT ![p] = i]
    /\ UNCHANGED <<inode, allocated, open_inodes, open_inodes_lock, cur, refs, astray>>

\* The inode is in the list and its lock is free.
OpenFound(p) ==
    \E b \in Found(want[p]) :
        /\ Goto(p, "list", "user")
        /\ open_inodes_lock = NIL
        /\ inode[b].lock = NIL
        /\ inode' = [inode EXCEPT ![b].open_cnts = @ + 1]
        /\ Returned(p, b)
        /\ UNCHANGED <<allocated, open_inodes, open_inodes_lock, want, cur, astray>>

\* The inode is in the list and somebody holds its lock.
OpenWait(p) ==
    \E b \in Found(want[p]) :
        /\ Goto(p, "list", "inode")
        /\ open_inodes_lock = NIL
        /\ inode[b].lock # NIL
        /\ cur' = [cur EXCEPT ![p] = b]
        /\ UNCHANGED <<inode, allocated, open_inodes, open_inodes_lock, want, refs, astray>>

\* The lock is free.  The block may have been freed meanwhile.
OpenCount(p) ==
    /\ Goto(p, "inode", "user")
    /\ inode[cur[p]].lock = NIL
    /\ inode' = [inode EXCEPT ![cur[p]].open_cnts = @ + 1]
    /\ Returned(p, cur[p])
    /\ astray' = (cur[p] \notin Found(want[p]))
    /\ UNCHANGED <<allocated, open_inodes, open_inodes_lock, want, cur>>

\* Mutant: the list is unlocked while the inode is read.
OpenMiss_unlocked(p, b) ==
    /\ Goto(p, "list", "fetch")
    /\ open_inodes_lock = NIL
    /\ Found(want[p]) = {}
    /\ b \notin allocated
    /\ allocated' = allocated \cup {b}
    /\ cur' = [cur EXCEPT ![p] = b]
    /\ UNCHANGED <<inode, open_inodes, open_inodes_lock, want, refs, astray>>

\* The inode is not in the list: it is read from the disk, with the list locked.
OpenMiss(p, b) ==
    /\ Goto(p, "list", "fetch")
    /\ open_inodes_lock = NIL
    /\ Found(want[p]) = {}
    /\ b \notin allocated
    /\ allocated' = allocated \cup {b}
    /\ open_inodes_lock' = p
    /\ cur' = [cur EXCEPT ![p] = b]
    /\ UNCHANGED <<inode, open_inodes, want, refs, astray>>

\* The inode enters the list, with its lock free, and is counted at once.
OpenFetched(p) ==
    /\ Goto(p, "fetch", "user")
    /\ inode' = [inode EXCEPT ![cur[p]] =
                    [i_no |-> want[p], open_cnts |-> 1, lock |-> NIL]]
    /\ open_inodes' = open_inodes \cup {cur[p]}
    /\ open_inodes_lock' = NIL
    /\ Returned(p, cur[p])
    /\ UNCHANGED <<allocated, want, cur, astray>>

-----------------------------------------------------------------------------
(* inode_close() *)

Forget(p, h) == refs[p][h] # NIL /\ refs' = [refs EXCEPT ![p][h] = NIL]

\* Mutant: a reference that is not the last one is given up without counting.
CloseShared_uncounted(p, h) ==
    LET b == refs[p][h]
    IN  /\ Forget(p, h)
        /\ Goto(p, "user", "user")
        /\ inode[b].lock = NIL
        /\ inode[b].open_cnts > 1
        /\ UNCHANGED <<inode, allocated, open_inodes, open_inodes_lock, want, cur, astray>>

\* There are other references.
CloseShared(p, h) ==
    LET b == refs[p][h]
    IN  /\ Forget(p, h)
        /\ Goto(p, "user", "user")
        /\ inode[b].lock = NIL
        /\ inode[b].open_cnts > 1
        /\ inode' = [inode EXCEPT ![b].open_cnts = @ - 1]
        /\ UNCHANGED <<allocated, open_inodes, open_inodes_lock, want, cur, astray>>

\* The last reference: the inode leaves the list and its memory is freed.
CloseLast(p, h) ==
    LET b == refs[p][h]
    IN  /\ Forget(p, h)
        /\ Goto(p, "user", "release")
        /\ inode[b].lock = NIL /\ open_inodes_lock = NIL
        /\ inode[b].open_cnts = 1
        /\ inode' = [inode EXCEPT ![b].open_cnts = 0, ![b].lock = p]
        /\ cur' = [cur EXCEPT ![p] = b]
        /\ open_inodes' = open_inodes \ {b}
        /\ allocated' = allocated \ {b}
        /\ UNCHANGED <<open_inodes_lock, want, astray>>

\* Mutant: the inode is removed and freed before the list is locked.
CloseWait_unlocked(p, h) ==
    LET b == refs[p][h]
    IN  /\ Forget(p, h)
        /\ Goto(p, "user", "remove")
        /\ inode[b].lock = NIL /\ open_inodes_lock # NIL
        /\ inode[b].open_cnts = 1
        /\ inode' = [inode EXCEPT ![b].open_cnts = 0, ![b].lock = p]
        /\ cur' = [cur EXCEPT ![p] = b]
        /\ open_inodes' = open_inodes \ {b}
        /\ allocated' = allocated \ {b}
        /\ UNCHANGED <<open_inodes_lock, want, astray>>

\* The last reference while somebody has the list: the task waits with
\* inode_lock held.
CloseWait(p, h) ==
    LET b == refs[p][h]
    IN  /\ Forget(p, h)
        /\ Goto(p, "user", "remove")
        /\ inode[b].lock = NIL /\ open_inodes_lock # NIL
        /\ inode[b].open_cnts = 1
        /\ inode' = [inode EXCEPT ![b].open_cnts = 0, ![b].lock = p]
        /\ cur' = [cur EXCEPT ![p] = b]
        /\ UNCHANGED <<allocated, open_inodes, open_inodes_lock, want, astray>>

CloseRemove(p) ==
    /\ Goto(p, "remove", "release")
    /\ open_inodes_lock = NIL
    /\ open_inodes' = open_inodes \ {cur[p]}
    /\ allocated' = allocated \ {cur[p]}
    /\ UNCHANGED <<inode, open_inodes_lock, want, cur, refs, astray>>

\* sema_up() of the lock in the freed block.
CloseRelease(p) ==
    /\ Goto(p, "release", "user")
    /\ inode' = [inode EXCEPT ![cur[p]].lock = NIL]
    /\ UNCHANGED <<allocated, open_inodes, open_inodes_lock, want, cur, refs, astray>>

-----------------------------------------------------------------------------
\* sys_read(), sys_write() and the directory operations hold inode_lock while
\* they wait for the disk.
CallIo(p, h) ==
    LET b == refs[p][h]
    IN  /\ b # NIL
        /\ Goto(p, "user", "io")
        /\ inode[b].lock = NIL
        /\ inode' = [inode EXCEPT ![b].lock = p]
        /\ cur' = [cur EXCEPT ![p] = b]
        /\ UNCHANGED <<allocated, open_inodes, open_inodes_lock, want, refs, astray>>

IoDone(p) ==
    /\ Goto(p, "io", "user")
    /\ inode' = [inode EXCEPT ![cur[p]].lock = NIL]
    /\ UNCHANGED <<allocated, open_inodes, open_inodes_lock, want, cur, refs, astray>>

Init ==
    /\ inode = [b \in Blocks |-> [i_no |-> CHOOSE i \in INos : TRUE,
                                  open_cnts |-> 0, lock |-> NIL]]
    /\ allocated = {} /\ open_inodes = {}
    /\ open_inodes_lock = NIL
    /\ pc = [p \in Tasks |-> "user"]
    /\ want = [p \in Tasks |-> CHOOSE i \in INos : TRUE]
    /\ cur = [p \in Tasks |-> CHOOSE b \in Blocks : TRUE]
    /\ refs = [p \in Tasks |-> [h \in Handles |-> NIL]]
    /\ astray = FALSE

Step(p) ==
    \/ \E i \in INos : CallOpen(p, i)
    \/ OpenFound(p) \/ OpenWait(p) \/ OpenCount(p) \/ OpenFetched(p)
    \/ \E b \in Blocks : OpenMiss(p, b)
    \/ \E h \in Handles :
          CloseShared(p, h) \/ CloseLast(p, h) \/ CloseWait(p, h) \/ CallIo(p, h)
    \/ CloseRemove(p) \/ CloseRelease(p) \/ IoDone(p)

\* Nothing is said of what follows the use of a freed inode.
Undefined == astray /\ UNCHANGED vars

Next == Undefined \/ \E p \in Tasks : Step(p)

Spec == Init /\ [][Next]_vars

-----------------------------------------------------------------------------
(* Properties *)

TypeOK ==
    /\ inode \in [Blocks -> [i_no : INos, open_cnts : Nat, lock : Tasks \cup {NIL}]]
    /\ allocated \subseteq Blocks /\ open_inodes \subseteq allocated
    /\ open_inodes_lock \in Tasks \cup {NIL}
    /\ pc \in [Tasks -> {"user", "list", "inode", "fetch", "remove", "release", "io"}]
    /\ want \in [Tasks -> INos] /\ cur \in [Tasks -> Blocks]
    /\ refs \in [Tasks -> [Handles -> Blocks \cup {NIL}]]
    /\ astray \in BOOLEAN

\* A file never has two struct inodes, although the list is searched, the inode
\* read from the disk and then inserted: two would cache two file sizes.  And
\* every variable keeps its type.
OneInodePerFile ==
    /\ TypeOK
    /\ \A b, c \in open_inodes : inode[b].i_no = inode[c].i_no => b = c

\* open_cnts is the number of references that the tasks have, those included that
\* path_prase() leaves behind, also while one of them waits in inode_close() or
\* inode_open().
RefsCounted ==
    \A b \in open_inodes :
        inode[b].open_cnts = Cardinality({w \in Tasks \X Handles : refs[w[1]][w[2]] = b})

\* Up to the first inode_open() that goes astray, whoever opens and closes the same
\* file: an inode that a task has open, reads, writes or is closing is in the list.  A
\* freed one is touched at two places only: by the sema_up() behind kfree() in
\* inode_close(), before anybody else runs (inode.c:61-63), and by an inode_open() that
\* had found it in the list and waited for its lock (inode.c:44-48).
NoUseAfterFree ==
    ~astray =>
    \A p \in Tasks :
        /\ \A h \in Handles : refs[p][h] \in open_inodes \cup {NIL}
        /\ pc[p] \in {"io", "remove"} => cur[p] \in open_inodes
        /\ pc[p] = "release" =>
              /\ cur[p] \notin allocated
              /\ \A q \in Tasks \ {p} : cur[q] = cur[p] => pc[q] \notin {"fetch", "io", "remove"}

\* What open() promises (syscall.h): the inode that inode_open() returns is that of the
\* file.
OpensTheFile == ~astray
=============================================================================
