-------------------------------- MODULE UMem ---------------------------------
(***************************************************************************)
(* The memory of user processes: the physical page pool, page_map(),       *)
(* page_unmap(), the page fault handler and sys_brk() of kernel/memory.c,  *)
(* copy_page() and the address space part of sys_clone() of task/task.c,   *)
(* sys_execv() of userprog/exec.c, and what sys_exit() and sys_wait() of   *)
(* userprog/wait_exit.c give back.                                         *)
(*                                                                         *)
(* Addresses count units of PG_SIZE bytes to the page.  A process is a     *)
(* chain of two tables, its pml4 and the frames that hold page tables; the *)
(* loops of the code treat the two tables in between as they do these.     *)
(* The kernel is not preempted, so a handler is one step, but sys_execv()  *)
(* sleeps for the disk: each segment is loaded in a step of its own.       *)
(***************************************************************************)
EXTENDS Integers, FiniteSets, SequencesExt

CONSTANTS
    Procs,          \* the processes
    init_proc,      \* the one that main() turns into /init
    PG_SIZE,        \* units of a page
    Entries,        \* entries of a table (512)
    DEFAULT_STACK,  \* the address above the stack
    NFrames,        \* frames of phy_mem_pool
    MaxChildren,    \* bound on the children that a process has at a time
    Reserve,        \* bound: forks and loads leave at least so many frames free
    Program,        \* Program[n]: the segments of the executable n
    MaxSegs,        \* the length of addr_space.vaddr (4)
    Touched,        \* the addresses that programs read and write ...
    Stored,         \* ... and those that they write
    Brks,           \* the arguments of brk()
    Workers,        \* the processes that do more than fork and wait
    Rules           \* what the programs keep to

\* What programs have to keep to, or the kernel does not survive them:
\*   "stay"   a process with a child that has not got all its pages yet neither
\*            calls execv() nor exits;
\*   "own"    only a process that has all its pages and a heap forks;
\*   "heap"   brk() gives no page back before the exit, and the heap does not
\*            grow over a segment;
\*   "whole"  a file with an ELF header has all its program headers;
\*   "failed" a process whose execv() has failed does not use a heap.
\* The programs of command/ keep to them, but for the shell, which breaks "failed"
\* (shell.c:135), and ls, which breaks "heap" in a directory of more than a page.
AllRules == {"stay", "own", "heap", "whole", "failed"}

global_stack_size == 2 * PG_SIZE
StackStart == DEFAULT_STACK - global_stack_size
NoSegment == [vaddr |-> 0, memsz |-> 0]

ASSUME UMemAssumption ==
    /\ init_proc \in Procs /\ Workers \subseteq Procs /\ Stored \subseteq Touched
    /\ PG_SIZE \in Nat \ {0} /\ Entries \in Nat \ {0} /\ MaxSegs \in Nat
    /\ DEFAULT_STACK \in Nat /\ DEFAULT_STACK <= PG_SIZE * Entries^2
    /\ StackStart % PG_SIZE = 0 /\ "/init" \in DOMAIN Program
    /\ NFrames \in Nat /\ Reserve \in Nat /\ Rules \subseteq AllRules
    /\ \A n \in DOMAIN Program :
          /\ Len(Program[n]) \in 1..MaxSegs
          /\ \A i \in DOMAIN Program[n] :
                LET s == Program[n][i]
                IN  s.vaddr > 0 /\ s.memsz > 0 /\ s.vaddr + s.memsz <= StackStart

VARIABLES
    task,  \* task[p]: status, parent_task, addr_space and the progress of execv()
    mem    \* the page tables, the frames and the bitmap of phy_mem_pool

vars == <<task, mem>>

Frames == 1..NFrames
Zero == "zero"
Values == {Zero} \cup Procs \cup DOMAIN Program

\* A frame holds data or page table entries; entry 0 is not present.
NoEntries == [i \in 0..Entries - 1 |-> 0]
Clean == [val |-> [i \in 0..PG_SIZE - 1 |-> Zero], ent |-> NoEntries]

Page(a) == a \div PG_SIZE
DIV_ROUND_UP(a) == (a + PG_SIZE - 1) \div PG_SIZE
PageSeq(first, end) == [i \in 1..(IF end > first THEN end - first ELSE 0) |-> first + i - 1]
in_range(start, size, a) == start <= a /\ a < start + size

Fatal(m) == [m EXCEPT !.fatal = TRUE]

-----------------------------------------------------------------------------
(* The pool and the page tables *)

FreeFrames(m) == Frames \ m.used

\* pool_alloc(): the lowest free frame; no free frame is a PANIC.
pool_alloc(m) == Min(FreeFrames(m))
Taken(m, f) == [m EXCEPT !.used = @ \cup {f}]

\* pool_free() with its ASSERT.
pool_free(m, f) == IF f \in m.used THEN [m EXCEPT !.used = @ \ {f}] ELSE Fatal(m)

\* page_entry_ptr(), for the page table and for the page itself.
TableOf(m, p, v) == m.pml4[p][v \div Entries]
FrameOf(m, p, v) ==
    LET t == TableOf(m, p, v) IN IF t = 0 THEN 0 ELSE m.frame[t].ent[v % Entries]

\* page_map(): the frame comes first and the entries that are missing after it.
\* A frame taken for a table is not cleared: what it held would be entries.  If
\* the page is present already the frame is lost.
page_map(m, p, v) ==
    LET f  == pool_alloc(m)
        m1 == Taken(m, f)
        t  == pool_alloc(m1)
        m2 == IF TableOf(m1, p, v) # 0 THEN m1
              ELSE [Taken(m1, t) EXCEPT !.pml4[p][v \div Entries] = t]
        pt == TableOf(m2, p, v)
    IN  CASE Cardinality(FreeFrames(m)) < 2 -> Fatal(m)
          [] m2.frame[pt].val # Clean.val -> Fatal(m2)
          [] FrameOf(m2, p, v) # 0 -> m2
          [] OTHER -> [m2 EXCEPT !.frame[pt].ent[v % Entries] = f]

\* Mutant: the buffer is filled when cr3 is the destination's already.
copy_page_late(m, v, d, s) ==
    IF FrameOf(m, s, v) = 0 THEN Fatal(m) ELSE page_map(m, d, v)

\* copy_page(): the page goes through a kernel buffer.  If the source lacks it,
\* the fault inside the handler copies from the same source again, and so on
\* until the kernel's pool is empty.
copy_page(m, v, d, s) ==
    LET src == FrameOf(m, s, v)
        m1  == page_map(m, d, v)
    IN  IF src = 0 \/ m1.fatal THEN Fatal(m)
        ELSE [m1 EXCEPT !.frame[FrameOf(m1, d, v)].val = m.frame[src].val]

InSegment(p, a) ==
    \E i \in 1..MaxSegs : in_range(task[p].seg[i].vaddr, task[p].seg[i].memsz, a)
InStack(a) == in_range(StackStart, global_stack_size, a)
InHeap(p, a) == task[p].heap_start <= a /\ a < task[p].heap_end

\* intr_page_handle() for an access of process p to address a.
intr_page_handle(m, p, a) ==
    CASE InSegment(p, a) \/ InStack(a) -> copy_page(m, Page(a), p, task[p].parent_task)
      [] InHeap(p, a) /\ ~InSegment(p, a) /\ ~InStack(a) -> page_map(m, p, Page(a))
      [] OTHER -> Fatal(m)

\* page_unmap(): memset(), which may fault, and the frames without a present
\* entry are freed.  The entries stay, so the page table is never one of them.
page_unmap(m, p, v) ==
    LET m1 == IF FrameOf(m, p, v) = 0 THEN intr_page_handle(m, p, v * PG_SIZE) ELSE m
        f  == FrameOf(m1, p, v)
        t  == TableOf(m1, p, v)
        m2 == [m1 EXCEPT !.frame[f] = Clean]
        m3 == pool_free(m2, f)
    IN  CASE m1.fatal -> m1
          [] m2.frame[t].ent = NoEntries -> pool_free(m3, t)
          [] OTHER -> m3

UnmapAll(m, p, pages) == FoldLeft(LAMBDA x, v : page_unmap(x, p, v), m, pages)
MapAll(m, p, pages)   == FoldLeft(LAMBDA x, v : page_map(x, p, v), m, pages)

SegmentPages(s) == PageSeq(Page(s.vaddr), DIV_ROUND_UP(s.vaddr + s.memsz))
StackPages == PageSeq(Page(StackStart), Page(DEFAULT_STACK))

-----------------------------------------------------------------------------
(* The processes *)

NoTask ==
    [status |-> "DIED", parent_task |-> init_proc, seg |-> [i \in 1..MaxSegs |-> NoSegment],
     heap_start |-> 0, heap_end |-> 0, prog |-> "/init", idx |-> 1, fresh |-> FALSE]

Alive(p) == task[p].status \in {"user", "exec"}
Room == Cardinality(FreeFrames(mem)) >= Reserve
Children(p) == {c \in Procs \ {p} : Alive(c) /\ task[c].parent_task = p}

\* p has every page of its segments.
Owns(p) ==
    \A i \in 1..MaxSegs : \A v \in ToSet(SegmentPages(task[p].seg[i])) :
        task[p].seg[i].vaddr # 0 => FrameOf(mem, p, v) # 0

Stays(p) ==
    "stay" \in Rules => \A c \in Children(p) : Owns(c)

\* sys_brk(): a process without a heap works on its parent's (and for ever, if
\* that has none either), but with its own page tables.
HeapOwner(p) == IF task[p].heap_start # 0 THEN p ELSE task[p].parent_task

\* What a program takes for its memory: what brk() tells it about the heap may be
\* its parent's, as in the printf() after a failed execv().
Accessible(p, a) ==
    LET o == HeapOwner(p)
    IN  \/ InSegment(p, a) \/ InStack(a)
        \/ /\ task[o].heap_start # 0 /\ InHeap(o, a)
           /\ "failed" \in Rules => o = p

\* An access to a page that is not present.
PageFault(p, a) ==
    /\ ~mem.fatal
    /\ task[p].status = "user"
    /\ Accessible(p, a)
    /\ FrameOf(mem, p, Page(a)) = 0
    /\ mem' = intr_page_handle(mem, p, a)
    /\ UNCHANGED task

\* A write to a page that is present; the value tells who wrote it.
Write(p, a) ==
    /\ ~mem.fatal
    /\ task[p].status = "user"
    /\ Accessible(p, a)
    /\ FrameOf(mem, p, Page(a)) # 0
    /\ mem' = [mem EXCEPT !.frame[FrameOf(mem, p, Page(a))].val[a % PG_SIZE] = p]
    /\ UNCHANGED task

\* Mutant: the start is rounded down.
HeapPages_down(start, brk) == PageSeq(Page(start), DIV_ROUND_UP(brk))

\* The pages from one end of the heap to another: both are rounded up, as the
\* page that a heap begins in may belong to a segment.
HeapPages(start, brk) == PageSeq(DIV_ROUND_UP(start), DIV_ROUND_UP(brk))

sys_brk(p, brk) ==
    LET o == HeapOwner(p)
        h == task[o]
    IN  /\ ~mem.fatal
        /\ task[p].status = "user"
        /\ "failed" \in Rules => o = p
        /\ "heap" \in Rules =>
              /\ DIV_ROUND_UP(brk) >= DIV_ROUND_UP(h.heap_end)
              /\ \A i \in 1..MaxSegs : ToSet(SegmentPages(h.seg[i]))
                    \cap ToSet(HeapPages(h.heap_start, brk)) = {}
        /\ IF h.heap_start = 0 THEN mem' = Fatal(mem) /\ UNCHANGED task
           ELSE /\ brk >= h.heap_start /\ brk <= DEFAULT_STACK - PG_SIZE
                /\ mem' = UnmapAll(mem, p, HeapPages(brk, h.heap_end))
                /\ task' = [task EXCEPT ![o].heap_end = brk]

\* Mutant: the whole of the parent's pml4 is copied, not only the kernel's half.
ChildPml4_whole(p) == mem.pml4[p]

\* The user half of a child's pml4.
ChildPml4(p) == NoEntries

\* sys_clone() without CLONE_VM: an empty pml4, the parent's addr_space and a copy
\* of the stack; segments are copied when the child comes to need them and the
\* heap never is.
sys_clone(p, c) ==
    /\ ~mem.fatal /\ Room
    /\ task[p].status = "user" /\ task[c].status = "DIED"
    /\ Cardinality(Children(p)) < MaxChildren
    /\ "own" \in Rules => Owns(p) /\ task[p].heap_start # 0
    /\ task' = [task EXCEPT ![c] = [task[p] EXCEPT !.parent_task = p, !.fresh = TRUE]]
    /\ mem' = FoldLeft(LAMBDA m, v : copy_page(m, v, c, p),
                       [mem EXCEPT !.pml4[c] = ChildPml4(p)], StackPages)

\* sys_execv() up to the first segment: the heap is gone before the file is open.
\* init.c and shell.c call it once, in the child.
sys_execv(p, n) ==
    /\ ~mem.fatal
    /\ task[p].status = "user" /\ task[p].fresh
    /\ Stays(p)
    /\ task' = [task EXCEPT ![p].status = "exec", ![p].fresh = FALSE,
                            ![p].heap_start = 0, ![p].prog = n]
    /\ UNCHANGED mem

\* The file is missing or no executable, or it ends too early: the process goes on
\* with what it has.  Without /init main() ends in an empty loop.
ExecFail(p) ==
    /\ ~mem.fatal
    /\ task[p].status = "exec" /\ p # init_proc
    /\ "whole" \in Rules => task[p].idx = 1
    /\ task' = [task EXCEPT ![p].status = "user", ![p].prog = NoTask.prog, ![p].idx = 1]
    /\ UNCHANGED mem

\* segment_load(): pages that are there already keep their frames, and the file is
\* read over what they hold.
segment_load(m, p, s, n) ==
    LET m1    == MapAll(m, p, SegmentPages(s))
        at(f) == {v \in ToSet(SegmentPages(s)) : FrameOf(m1, p, v) = f}
        load(f, i) == \E v \in at(f) : in_range(s.vaddr, s.memsz, v * PG_SIZE + i)
    IN  [m1 EXCEPT !.frame = [f \in Frames |-> [m1.frame[f] EXCEPT !.val =
            [i \in 0..PG_SIZE - 1 |-> IF load(f, i) THEN n ELSE m1.frame[f].val[i]]]]]

\* A turn of the loop of elf_parse(); entries of addr_space that the new program
\* does not need keep the segments of the old one.
LoadSegment(p) ==
    LET k == task[p].idx
        s == Program[task[p].prog][k]
        e == s.vaddr + s.memsz
    IN  /\ ~mem.fatal /\ Room
        /\ task[p].status = "exec" /\ k <= Len(Program[task[p].prog])
        /\ mem' = segment_load(mem, p, s, task[p].prog)
        /\ task' = [task EXCEPT ![p].seg[k] = s, ![p].idx = k + 1,
                       ![p].heap_start = IF @ > e THEN @ ELSE e]

ExecDone(p) ==
    /\ ~mem.fatal
    /\ task[p].status = "exec" /\ task[p].idx > Len(Program[task[p].prog])
    /\ task' = [task EXCEPT ![p].status = "user", ![p].heap_end = task[p].heap_start,
                            ![p].prog = NoTask.prog, ![p].idx = 1]
    /\ UNCHANGED mem

\* release_prog_resource(): the heap, the segments and one page of the stack.
release_prog_resource(m, p) ==
    LET h  == task[p]
        m1 == UnmapAll(m, p, HeapPages(h.heap_start, h.heap_end))
        m2 == FoldLeft(LAMBDA x, s : IF s.vaddr = 0 THEN x
                                     ELSE UnmapAll(x, p, SegmentPages(s)), m1, h.seg)
    IN  IF h.heap_start = 0 THEN m ELSE page_unmap(m2, p, Page(StackStart))

\* sys_exit(): the children go to init and the memory back to the pool.
sys_exit(p) ==
    /\ ~mem.fatal
    /\ task[p].status = "user" /\ p # init_proc
    /\ Stays(p)
    /\ mem' = release_prog_resource(mem, p)
    /\ task' = [c \in Procs |->
          IF c = p THEN [task[p] EXCEPT !.status = "HANGING",
                                        !.heap_end = IF task[p].heap_start = 0 THEN @
                                                     ELSE task[p].heap_start]
          ELSE IF task[c].parent_task = p THEN [task[c] EXCEPT !.parent_task = init_proc]
          ELSE task[c]]

\* sys_wait() finds the child c and frees its pml4; what that led to is lost.
sys_wait(p, c) ==
    /\ ~mem.fatal
    /\ task[p].status = "user"
    /\ task[c].status = "HANGING" /\ task[c].parent_task = p
    /\ task' = [task EXCEPT ![c] = NoTask]
    /\ mem' = [mem EXCEPT !.pml4[c] = NoEntries]

\* main() has mapped the stack and calls sys_execv("/init").
Init ==
    /\ task = [p \in Procs |->
                 [NoTask EXCEPT !.status = IF p = init_proc THEN "exec" ELSE "DIED"]]
    /\ mem = MapAll([pml4 |-> [p \in Procs |-> NoEntries],
                     frame |-> [f \in Frames |-> Clean], used |-> {}, fatal |-> FALSE],
                    init_proc, StackPages)

Next ==
    \E p \in Procs :
        \/ p \in Workers /\ \E a \in Touched : PageFault(p, a)
        \/ p \in Workers /\ \E a \in Stored : Write(p, a)
        \/ p \in Workers /\ \E brk \in Brks : sys_brk(p, brk)
        \/ \E c \in Procs : sys_clone(p, c) \/ sys_wait(p, c)
        \/ \E n \in DOMAIN Program : sys_execv(p, n)
        \/ ExecFail(p) \/ LoadSegment(p) \/ ExecDone(p) \/ sys_exit(p)

Spec == Init /\ [][Next]_vars

-----------------------------------------------------------------------------
(* Properties *)

TypeOK ==
    /\ mem.pml4 \in [Procs -> [0..Entries - 1 -> 0..NFrames]]
    /\ mem.used \subseteq Frames
    /\ \A f \in Frames : /\ mem.frame[f].val \in [0..PG_SIZE - 1 -> Values]
                         /\ mem.frame[f].ent \in [0..Entries - 1 -> 0..NFrames]
    /\ \A p \in Procs : /\ task[p].status \in {"user", "exec", "HANGING", "DIED"}
                        /\ task[p].parent_task \in Procs

\* Programs that keep the rules bring the kernel down in no order of forks, loads,
\* faults, brk() calls and exits: no frame is freed twice, no access is taken for
\* a stray one, no fault happens inside the fault handler, no table is garbage.
NeverFatal == TypeOK /\ ~mem.fatal

\* The frames that a process can reach, its page tables among them, are
\* allocated, and it reaches each in one way and no other process does.  A free
\* frame is all zero: page_map() takes it for a page table as it is.
FramesApart ==
    LET Ways == {w \in [p : {q \in Procs : Alive(q)}, kind : {"table", "page"},
                        v : 0..Page(DEFAULT_STACK) - 1] :
                    w.kind = "table" => w.v % Entries = 0}
        To(w) == IF w.kind = "table" THEN TableOf(mem, w.p, w.v) ELSE FrameOf(mem, w.p, w.v)
    IN  /\ \A w \in Ways : To(w) # 0 =>
              To(w) \in mem.used /\ \A x \in Ways : To(x) = To(w) => x = w
        /\ \A f \in FreeFrames(mem) : mem.frame[f] = Clean

\* What process p finds at address a: the heap once p has written to it, the rest
\* of its memory in its own pages or, as long as it has not got them, its parent's.
Heap(p) ==
    IF task[p].status = "user" /\ task[p].heap_start # 0
    THEN task[p].heap_start..task[p].heap_end - 1 ELSE {}

Seen(p, a) ==
    LET q == IF FrameOf(mem, p, Page(a)) # 0 THEN p ELSE task[p].parent_task
        f == FrameOf(mem, q, Page(a))
        x == IF f = 0 THEN Zero ELSE mem.frame[f].val[a % PG_SIZE]
    IN  IF Alive(p) /\ (InSegment(p, a) \/ InStack(a) \/ (a \in Heap(p) /\ x = p))
        THEN x ELSE Zero

Content == [p \in Procs |-> [a \in 0..DEFAULT_STACK - 1 |-> Seen(p, a)]]

Private == INSTANCE PrivateMemory WITH
    content <- Content,
    heap <- [p \in Procs |-> Heap(p)],
    status <- [p \in Procs |-> IF task[p].status # "exec" THEN task[p].status
                               ELSE IF task[p].idx = 1 THEN "open" ELSE "load"],
    Images <- {[a \in UNION {s.vaddr..s.vaddr + s.memsz - 1 : s \in ToSet(Program[n])} |-> n] :
                  n \in DOMAIN Program}

\* memory.c:281: the first access of p to a page in which its heap begins behind a
\* segment is one to the heap.  The page comes empty, without the parent's data.
LosesData(p, v) ==
    LET page == PG_SIZE * v..PG_SIZE * v + PG_SIZE - 1
    IN  /\ FrameOf(mem, p, v) = 0 /\ FrameOf(mem', p, v) # 0
        /\ \E a \in page : a \in Heap(p)
        /\ UNCHANGED task
        /\ Content' = [Content EXCEPT ![p] =
                          [a \in DOMAIN @ |-> IF a \in page THEN Zero ELSE @[a]]]

\* memory.c:275: p writes to a page that some child has not copied yet, and the child
\* will find what p wrote after the fork.
StoresForChildren(p, a) ==
    LET late == {c \in Children(p) : InSegment(c, a) /\ FrameOf(mem, c, Page(a)) = 0}
    IN  /\ late # {}
        /\ UNCHANGED task
        /\ Content' = [q \in Procs |-> IF q \in late \cup {p}
                                       THEN [Content[q] EXCEPT ![a] = p] ELSE Content[q]]

LateCopy ==
    \/ \E p \in Procs, v \in 0..Page(DEFAULT_STACK) - 1 : LosesData(p, v)
    \/ \E p \in Procs, a \in Stored : StoresForChildren(p, a)

\* Each process has a memory of its own, which a fork copies, execv() fills from the
\* file and only its own writes change, in every order of forks, faults, loads and
\* exits of programs that keep to the rules: every step is one of PrivateMemory.
\* There are two exceptions, both of them steps after a fork in which the child does
\* not have all its pages yet: it loses data to its heap, or its parent stores for it.
PrivateButForLateCopies == Private!Init /\ [][Private!Next \/ LateCopy]_(Private!vars)

\* What syscall.h:38 says of clone(): it is like fork, so that sharing the parent's
\* pages until the first access is invisible.  It does not hold (run MCFork), for
\* the child of snake.c:79 too: it calls printf() before it touches the page of seed.
RefinesPrivateMemory == Private!Spec
=============================================================================
