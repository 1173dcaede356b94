------------------------------ MODULE FileTable ------------------------------
(***************************************************************************)
(* The file table of fs/file.c and the descriptors of the tasks: sys_open()*)
(* and sys_close(), sys_pipe() and sys_dup2() of userprog/pipe.c, the part *)
(* of sys_clone() that shares the open files and the part of sys_exit()    *)
(* that closes them.                                                       *)
(*                                                                         *)
(* A slot of the table counts its descriptors in f_pos for a character     *)
(* device or a pipe; for a regular file or a directory f_pos is the file   *)
(* position, which is left out, and the descriptors are counted in the     *)
(* open_cnts of the inode.                                                 *)
(*                                                                         *)
(* A system call is cut at the points where it can block; which task goes  *)
(* on from there is left open.  Labels: "open" and "close" wait for        *)
(* file_table_lock, "iclose" is inode_close() and "io" a read or write,    *)
(* both with the lock held; "exit" is release_prog_resource().             *)
(*                                                                         *)
(* Two calls make descriptors that their slot does not count: sys_dup2(),  *)
(* and sys_clone() for a regular file, which the first sys_close() takes   *)
(* out of the table.  Such a slot is spoilt: variable spoilt only observes.*)
(***************************************************************************)
EXTENDS Naturals, FiniteSets, FiniteSetsExt

CONSTANTS
    Procs, init_proc,         \* the processes, and the one that boots
    MAX_FILES_OPEN_PER_PROC,
    FILE_TABLE_SIZE,
    Inodes,                   \* the numbers of the regular files
    Pages,                    \* the pages that hold pipes
    MaxOpens, MaxPos,         \* bounds on the open_cnts of an inode and the f_pos of a slot
    MaxDups,                  \* bound on the calls of dup2() that change something
    NULL, console

ASSUME FileTableAssumption ==
    /\ init_proc \in Procs
    /\ MAX_FILES_OPEN_PER_PROC \in Nat \ {0} /\ FILE_TABLE_SIZE \in Nat \ {0}
    /\ Inodes \subseteq Nat /\ Pages \subseteq Nat /\ Inodes \cap Pages = {}
    /\ {NULL, console} \cap (Inodes \cup Pages) = {} /\ NULL # console
    /\ NULL \notin Procs /\ {MaxOpens, MaxPos, MaxDups} \subseteq Nat

Fds   == 0..MAX_FILES_OPEN_PER_PROC - 1
Slots == 0..FILE_TABLE_SIZE - 1
Free  == FILE_TABLE_SIZE   \* stands for -1 in fd_table

VARIABLES
    file_table,       \* file_table[i]: f_inode, f_type and f_pos of the slot
    file_table_lock,  \* the process that holds it, or NULL
    fd_table,         \* fd_table[p][fd]: a slot, or Free
    open_cnts,        \* open_cnts[i]: inode.open_cnts
    pages,            \* the pages of Pages that are allocated
    file_pc,          \* where a process is in its system call, or "dead"
    fdno,             \* the descriptor that the call of a process is about
    target,           \* what sys_open() of a process has found
    exiting,          \* the processes that are in sys_exit()
    panic,            \* "assert" or "fault" when the kernel has stopped
    spoilt,           \* observer: the slots whose count is wrong, see Spoil
    dups              \* the calls of dup2() so far that changed something

file_vars == <<file_table, file_table_lock, fd_table, open_cnts, pages, file_pc, fdno,
          target, exiting, panic, spoilt, dups>>

Enter(p, from, to) ==
    panic = "none" /\ file_pc[p] = from /\ file_pc' = [file_pc EXCEPT ![p] = to]

\* The observer: the slots of S get a wrong count in this step.  A slot stays spoilt
\* as long as a descriptor points to it.
Spoil(S) ==
    spoilt' = {i \in spoilt \cup S : \E p \in Procs, fd \in Fds : fd_table'[p][fd] = i}

\* The locals of a call are dropped when it returns.
DropLocals(p) ==
    /\ fdno' = [fdno EXCEPT ![p] = 0]
    /\ target' = [target EXCEPT ![p] = console]

\* Where sys_close() returns to.
Caller(p) == IF p \in exiting THEN "exit" ELSE "user"

FreeFds(p) == {fd \in Fds : fd_table[p][fd] = Free}
FreeSlots  == {i \in Slots : file_table[i].f_inode = NULL}

\* The first free one; the callers test for none beforehand.
free_fd_alloc(p) == Min(FreeFds(p))
get_free_slot    == Min(FreeSlots)

Refs(p, i) == Cardinality({fd \in Fds : fd_table[p][fd] = i})

-----------------------------------------------------------------------------
(* sys_open() *)

\* A descriptor is found and, unless the file is a device, inode_open() done.
CallSysOpen(p, f) ==
    /\ Enter(p, "user", "open")
    /\ FreeFds(p) # {}
    /\ f \in Inodes => open_cnts[f] < MaxOpens
    /\ fdno' = [fdno EXCEPT ![p] = free_fd_alloc(p)]
    /\ target' = [target EXCEPT ![p] = f]
    /\ open_cnts' = [i \in Inodes |-> open_cnts[i] + IF i = f THEN 1 ELSE 0]
    /\ UNCHANGED <<file_table, file_table_lock, fd_table, pages, exiting, panic, spoilt, dups>>

\* With file_table_lock: a slot is filled.
OpenSlot(p) ==
    LET chr == target[p] = console
    IN  /\ Enter(p, "open", "user")
        /\ file_table_lock = NULL
        /\ FreeSlots # {}
        /\ file_table' = [file_table EXCEPT ![get_free_slot] =
              [f_inode |-> target[p],
               f_type  |-> IF chr THEN "FT_CHR" ELSE "FT_REG",
               f_pos   |-> IF chr THEN 1 ELSE 0]]
        /\ fd_table' = [fd_table EXCEPT ![p][fdno[p]] = get_free_slot]
        /\ Spoil({})
        /\ DropLocals(p)
        /\ UNCHANGED <<file_table_lock, open_cnts, pages, exiting, panic, dups>>

\* The table is full: the call fails and the inode stays open.
OpenFull(p) ==
    /\ Enter(p, "open", "user")
    /\ file_table_lock = NULL
    /\ FreeSlots = {}
    /\ DropLocals(p)
    /\ UNCHANGED <<file_table, file_table_lock, fd_table, open_cnts, pages, exiting, panic,
                   spoilt, dups>>

-----------------------------------------------------------------------------
(* sys_close() *)

CallClose(p, fd) ==
    /\ Enter(p, "user", "close")
    /\ fd_table[p][fd] # Free
    /\ fdno' = [fdno EXCEPT ![p] = fd]
    /\ UNCHANGED <<file_table, file_table_lock, fd_table, open_cnts, pages, target,
                   exiting, panic, spoilt, dups>>

\* The ASSERT of sys_close().
CloseAssert(p) ==
    /\ Enter(p, "close", "close")
    /\ file_table_lock = NULL
    /\ file_table[fd_table[p][fdno[p]]].f_inode = NULL
    /\ panic' = "assert"
    /\ UNCHANGED <<file_table, file_table_lock, fd_table, open_cnts, pages, fdno, target,
                   exiting, spoilt, dups>>

\* Mutant: the count is tested before it is decremented.
LastRef_early(f) == f.f_pos <= 2

LastRef(f) == f.f_pos = 1

\* The slots that have the page, which slot i frees.
Sharers(i, page) == {j \in Slots \ {i} : file_table[j].f_inode = page}

\* A device or a pipe: the slot, and the page of a pipe, go with the last
\* descriptor.
CloseCounted(p) ==
    LET i    == fd_table[p][fdno[p]]
        f    == file_table[i]
        last == LastRef(f)
    IN  /\ Enter(p, "close", Caller(p))
        /\ file_table_lock = NULL
        /\ f.f_inode # NULL
        /\ f.f_type \in {"FT_CHR", "FT_FIFO"}
        /\ file_table' = [file_table EXCEPT
              ![i].f_pos   = IF @ > 0 THEN @ - 1 ELSE @,
              ![i].f_inode = IF last THEN NULL ELSE @]
        /\ pages' = IF last /\ f.f_type = "FT_FIFO" THEN pages \ {f.f_inode} ELSE pages
        /\ fd_table' = [fd_table EXCEPT ![p][fdno[p]] = Free]
        /\ Spoil(IF last /\ i \in spoilt THEN Sharers(i, f.f_inode) ELSE {})
        /\ DropLocals(p)
        /\ UNCHANGED <<file_table_lock, open_cnts, exiting, panic, dups>>

\* A regular file: inode_close() can block, with file_table_lock held.
CloseInode(p) ==
    LET f == file_table[fd_table[p][fdno[p]]]
    IN  /\ Enter(p, "close", "iclose")
        /\ file_table_lock = NULL
        /\ f.f_inode # NULL
        /\ f.f_type = "FT_REG"
        /\ file_table_lock' = p
        /\ UNCHANGED <<file_table, fd_table, open_cnts, pages, fdno, target, exiting, panic,
                       spoilt, dups>>

CloseDone(p) ==
    LET i == fd_table[p][fdno[p]]
    IN  /\ Enter(p, "iclose", Caller(p))
        /\ open_cnts' = [open_cnts EXCEPT ![file_table[i].f_inode] = @ - 1]
        /\ file_table' = [file_table EXCEPT ![i].f_inode = NULL]
        /\ file_table_lock' = NULL
        /\ fd_table' = [fd_table EXCEPT ![p][fdno[p]] = Free]
        /\ Spoil({})
        /\ DropLocals(p)
        /\ UNCHANGED <<pages, exiting, panic, dups>>

-----------------------------------------------------------------------------
(* sys_pipe() and sys_dup2(), which do not take file_table_lock *)

\* Mutant: a page that is in use.
alloc_page_used == Min(Pages)

\* alloc_pages(1).
alloc_page == Min(Pages \ pages)

PipeFile(page) == [f_inode |-> page, f_type |-> "FT_FIFO", f_pos |-> 2]

sys_pipe(p) ==
    LET page == alloc_page
        i    == get_free_slot
        fd0  == free_fd_alloc(p)
        fd1  == Min(FreeFds(p) \ {fd0})
    IN  /\ Enter(p, "user", "user")
        /\ Pages # pages /\ FreeSlots # {} /\ Cardinality(FreeFds(p)) >= 2
        /\ pages' = pages \cup {page}
        /\ file_table' = [file_table EXCEPT ![i] = PipeFile(page)]
        /\ fd_table' = [fd_table EXCEPT ![p][fd0] = i, ![p][fd1] = i]
        /\ Spoil({})
        /\ UNCHANGED <<file_table_lock, open_cnts, fdno, target, exiting, panic, dups>>

\* No slot: the page stays allocated.
PipeNoSlot(p) ==
    /\ Enter(p, "user", "user")
    /\ Pages # pages /\ FreeSlots = {}
    /\ pages' = pages \cup {alloc_page}
    /\ UNCHANGED <<file_table, file_table_lock, fd_table, open_cnts, fdno, target,
                   exiting, panic, spoilt, dups>>

\* Too few descriptors: the page is freed, the slot keeps pointing to it.
PipeNoFd(p) ==
    /\ Enter(p, "user", "user")
    /\ Pages # pages /\ FreeSlots # {} /\ Cardinality(FreeFds(p)) < 2
    /\ file_table' = [file_table EXCEPT ![get_free_slot] = PipeFile(alloc_page)]
    /\ UNCHANGED <<file_table_lock, fd_table, open_cnts, pages, fdno, target, exiting,
                   panic, spoilt, dups>>

\* The descriptor oldfd becomes another name of newfd; nothing is tested or counted.
sys_dup2(p, oldfd, newfd) ==
    LET new == fd_table[p][newfd]
    IN  /\ Enter(p, "user", "user")
        /\ new # fd_table[p][oldfd] => dups < MaxDups
        /\ dups' = IF new = fd_table[p][oldfd] THEN dups ELSE dups + 1
        /\ fd_table' = [fd_table EXCEPT ![p][oldfd] = new]
        /\ Spoil(IF new \in {Free, fd_table[p][oldfd]} THEN {} ELSE {new})
        /\ UNCHANGED <<file_table, file_table_lock, open_cnts, pages, fdno, target, exiting,
                       panic>>

-----------------------------------------------------------------------------
(* sys_clone() and sys_exit() *)

\* A slot after n descriptors that point to it were inherited.
SharedFile(f, n) ==
    IF f.f_type \in {"FT_CHR", "FT_FIFO"} THEN [f EXCEPT !.f_pos = @ + n] ELSE f

\* A descriptor whose slot has been emptied: clone(), read() and write() reach
\* through NULL.
Stray(p, fd) ==
    /\ fd_table[p][fd] # Free
    /\ file_table[fd_table[p][fd]].f_type # "FT_CHR"
    /\ file_table[fd_table[p][fd]].f_inode = NULL

\* The descriptors of p that lead to inode i, and the slots of regular files that p has.
Opened(p, i) ==
    {fd \in Fds : /\ fd_table[p][fd] # Free
                  /\ file_table[fd_table[p][fd]].f_type = "FT_REG"
                  /\ file_table[fd_table[p][fd]].f_inode = i}
RegularOf(p) ==
    {i \in Slots : file_table[i].f_type = "FT_REG" /\ \E fd \in Fds : fd_table[p][fd] = i}

\* For a pipe the loop also increments open_cnts, a word of the pipe's ring: see
\* Clone in module Pipe.
Clone(p, c) ==
    /\ panic = "none" /\ file_pc[p] = "user" /\ file_pc[c] = "dead"
    /\ \A fd \in Fds : ~Stray(p, fd)
    /\ \A i \in Inodes : open_cnts[i] + Cardinality(Opened(p, i)) <= MaxOpens
    /\ \A i \in Slots : SharedFile(file_table[i], Refs(p, i)).f_pos <= MaxPos
    /\ file_pc' = [file_pc EXCEPT ![c] = "user"]
    /\ fd_table' = [fd_table EXCEPT ![c] = fd_table[p]]
    /\ file_table' = [i \in Slots |-> SharedFile(file_table[i], Refs(p, i))]
    /\ open_cnts' = [i \in Inodes |-> open_cnts[i] + Cardinality(Opened(p, i))]
    /\ Spoil(RegularOf(p))
    /\ UNCHANGED <<file_table_lock, pages, fdno, target, exiting, panic, dups>>

CallExit(p) ==
    /\ p # init_proc
    /\ Enter(p, "user", "exit")
    /\ exiting' = exiting \cup {p}
    /\ UNCHANGED <<file_table, file_table_lock, fd_table, open_cnts, pages, fdno, target,
                   panic, spoilt, dups>>

\* release_prog_resource(): the descriptors are closed in ascending order.
ExitClose(p) ==
    /\ FreeFds(p) # Fds
    /\ Enter(p, "exit", "close")
    /\ fdno' = [fdno EXCEPT ![p] = Min(Fds \ FreeFds(p))]
    /\ UNCHANGED <<file_table, file_table_lock, fd_table, open_cnts, pages, target,
                   exiting, panic, spoilt, dups>>

\* The process hangs, and its parent reaps it.
ExitDone(p) ==
    /\ FreeFds(p) = Fds
    /\ Enter(p, "exit", "dead")
    /\ exiting' = exiting \ {p}
    /\ UNCHANGED <<file_table, file_table_lock, fd_table, open_cnts, pages, fdno, target,
                   panic, spoilt, dups>>

-----------------------------------------------------------------------------
\* sys_read() and sys_write() of a regular file, which hold file_table_lock while
\* they wait for the disk.
CallFileIo(p, fd) ==
    /\ Enter(p, "user", "io")
    /\ file_table_lock = NULL
    /\ fd_table[p][fd] # Free /\ file_table[fd_table[p][fd]].f_type = "FT_REG"
    /\ ~Stray(p, fd)
    /\ file_table_lock' = p
    /\ fdno' = [fdno EXCEPT ![p] = fd]
    /\ UNCHANGED <<file_table, fd_table, open_cnts, pages, target, exiting, panic, spoilt, dups>>

FileIoDone(p) ==
    /\ Enter(p, "io", "user")
    /\ file_table_lock' = NULL
    /\ DropLocals(p)
    /\ UNCHANGED <<file_table, fd_table, open_cnts, pages, exiting, panic, spoilt, dups>>

\* clone(), read() or write() with a descriptor whose slot is empty.
StrayAccess(p) ==
    /\ Enter(p, "user", "user")
    /\ file_table_lock = NULL
    /\ \E fd \in Fds : Stray(p, fd)
    /\ panic' = "fault"
    /\ UNCHANGED <<file_table, file_table_lock, fd_table, open_cnts, pages, fdno, target,
                   exiting, spoilt, dups>>

FileTableInit ==
    /\ file_table = [i \in Slots |-> [f_inode |-> NULL, f_type |-> "FT_CHR", f_pos |-> 0]]
    /\ file_table_lock = NULL
    /\ fd_table = [p \in Procs |-> [fd \in Fds |-> Free]]
    /\ open_cnts = [i \in Inodes |-> 0]
    /\ pages = {}
    /\ file_pc = [p \in Procs |-> IF p = init_proc THEN "user" ELSE "dead"]
    /\ fdno = [p \in Procs |-> 0]
    /\ target = [p \in Procs |-> console]
    /\ exiting = {}
    /\ panic = "none"
    /\ spoilt = {}
    /\ dups = 0

FileStep(p) ==
    \/ \E f \in Inodes \cup {console} : CallSysOpen(p, f)
    \/ OpenSlot(p) \/ OpenFull(p)
    \/ \E fd \in Fds : CallClose(p, fd) \/ CallFileIo(p, fd)
    \/ CloseAssert(p) \/ CloseCounted(p) \/ CloseInode(p) \/ CloseDone(p)
    \/ sys_pipe(p) \/ PipeNoSlot(p) \/ PipeNoFd(p)
    \/ \E oldfd, newfd \in Fds : sys_dup2(p, oldfd, newfd)
    \/ \E c \in Procs : Clone(p, c)
    \/ CallExit(p) \/ ExitClose(p) \/ ExitDone(p)
    \/ FileIoDone(p) \/ StrayAccess(p)

\* panic_spin() never returns.
panic_spin == panic # "none" /\ UNCHANGED file_vars

FileTableNext == panic_spin \/ \E p \in Procs : FileStep(p)

FileTableSpec == FileTableInit /\ [][FileTableNext]_file_vars

-----------------------------------------------------------------------------
(* Properties *)

Alive(p) == file_pc[p] # "dead"

FileTableTypeOK ==
    /\ file_table \in [Slots -> [f_inode : {NULL, console} \cup Inodes \cup Pages,
                                 f_type : {"FT_CHR", "FT_REG", "FT_FIFO"}, f_pos : Nat]]
    /\ file_table_lock \in Procs \cup {NULL}
    /\ fd_table \in [Procs -> [Fds -> Slots \cup {Free}]]
    /\ open_cnts \in [Inodes -> 0..MaxOpens]
    /\ pages \subseteq Pages
    /\ file_pc \in [Procs -> {"user", "open", "close", "iclose", "io", "exit", "dead"}]
    /\ fdno \in [Procs -> Fds]
    /\ target \in [Procs -> Inodes \cup {console}]
    /\ exiting \subseteq Procs
    /\ panic \in {"none", "assert", "fault"}
    /\ spoilt \subseteq Slots /\ dups \in 0..MaxDups

\* A descriptor dangles only where dup2() or the clone() of a regular file has
\* spoilt the count of its slot, or such a slot has freed its page: else the slot is
\* filled, and what f_inode points to is allocated, whoever closes, redirects, clones
\* or exits in the meantime and whatever happens to spoilt slots (sys_close(),
\* file.c:133-165); and every variable keeps its type.
NoDangling == FileTableTypeOK /\
    \A p \in Procs, fd \in Fds :
        Alive(p) /\ fd_table[p][fd] # Free /\ fd_table[p][fd] \notin spoilt =>
        LET f == file_table[fd_table[p][fd]]
        IN  CASE f.f_type = "FT_CHR"  -> f.f_inode = console
              [] f.f_type = "FT_FIFO" -> f.f_inode \in pages
              [] f.f_type = "FT_REG"  ->
                    f.f_inode \in Inodes /\
                    (open_cnts[f.f_inode] > 0 \/ file_pc[p] = "iclose")

\* Two slots that are in use never share the page of a pipe, although sys_pipe()
\* leaves a slot behind that points to a freed page (pipe.c:16-27), unless the count
\* of one of them is spoilt.
PipesApart ==
    \A p, q \in Procs : \A a, b \in Fds :
        /\ fd_table[p][a] # Free /\ fd_table[q][b] # Free
        /\ {fd_table[p][a], fd_table[q][b]} \cap spoilt = {}
        /\ fd_table[p][a] # fd_table[q][b]
        /\ file_table[fd_table[p][a]].f_inode \in Pages
        => file_table[fd_table[p][a]].f_inode # file_table[fd_table[q][b]].f_inode

\* What the ASSERT of sys_close() says (file.c:142): an open descriptor has a slot that
\* is filled.  Every process may redirect and close here, as the shell does.
CloseFindsFile == panic # "assert"
=============================================================================
