-------------------------------- MODULE KMem ---------------------------------
(***************************************************************************)
(* The memory of the kernel: the page pool of kernel/memory.c with the     *)
(* bitmap of lib/bitmap.c, and kalloc() and kfree(), which cut pages       *)
(* ("arenas") into blocks of 16, 32, ... bytes.                            *)
(*                                                                         *)
(* None of these functions blocks while it holds a lock and the kernel is  *)
(* not preempted, so each is one step.  When the pool has no room the      *)
(* kernel panics; the model does not call it then.                         *)
(***************************************************************************)
EXTENDS Integers, SequencesExt

CONSTANTS
    PG_SIZE,    \* 4096
    BitmapBits, \* the bits of pool_bitmap: 8 * bytes_len, 248
    PoolPages,  \* the pages that are mapped: 252
    DESC_CNT,   \* 7
    Sizes,      \* the arguments of kalloc()
    MaxRun      \* the largest argument of alloc_pages()

\* An arena is a page, the 16 bytes of its struct arena and the blocks after it.
sizeof_arena == 16
Descs == 0..DESC_CNT - 1
block_size[d \in Descs] == IF d = 0 THEN 16 ELSE 2 * block_size[d - 1]

\* The bitmap is shorter than the pool.  bitmap_alloc() also takes bits behind its
\* last one (bitmap.c:32,38) and does not know where the pool ends: with 252 pages
\* and 248 bits a run of more than 5 pages may end behind it, and inode_read() and
\* inode_write() ask for up to 12 (inode.c:139,164).  Behind the last bit there is
\* zeroed padding: gcc puts 17 bytes of it between the two bitmaps.
ASSUME KMemAssumption ==
    /\ DESC_CNT \in Nat \ {0}
    /\ PG_SIZE \in Nat /\ PG_SIZE >= sizeof_arena + block_size[DESC_CNT - 1]
    /\ Sizes \subseteq 1..block_size[DESC_CNT - 1]
    /\ MaxRun \in Nat \ {0} /\ BitmapBits \in Nat
    /\ PoolPages \in Nat /\ PoolPages >= BitmapBits

VARIABLES
    pool,       \* the pages whose bit is set
    arena,      \* arena[p]: desc and free_block_cnt of the struct arena in page p
    free_list,  \* free_list[d]: the free blocks of k_block_descs[d], by address
    blocks,     \* the blocks that are in use: address and size asked for
    runs,       \* the runs of pages that are in use: first page and length
    panic

kmem_vars == <<pool, arena, free_list, blocks, runs, panic>>

-----------------------------------------------------------------------------
(* lib/bitmap.c and the pool *)

Pages(first, cnt) == first..first + cnt - 1

\* Mutant: of the bits behind i only the last one is tested.
bitmap_alloc_short(cnt) ==
    LET search[i \in 0..BitmapBits + cnt] ==
            CASE i >= BitmapBits -> -1
              [] i < BitmapBits /\ i \in pool -> search[i + 1]
              [] OTHER -> IF i + cnt - 1 \in pool THEN search[i + 1] ELSE i
    IN  search[0]

\* The run of cnt clear bits that the search finds, or -1: when the bit at i + j
\* is set it goes on behind it.
bitmap_alloc(cnt) ==
    LET search[i \in 0..BitmapBits + cnt] ==
            LET set == {j \in 1..cnt - 1 : i + j \in pool}
            IN  CASE i >= BitmapBits -> -1
                  [] i < BitmapBits /\ i \in pool -> search[i + 1]
                  [] OTHER -> IF set = {} THEN i ELSE search[i + Min(set) + 1]
    IN  search[0]

AllocPages(cnt) ==
    LET first == bitmap_alloc(cnt)
    IN  /\ ~panic
        /\ first # -1
        /\ pool' = pool \cup Pages(first, cnt)
        /\ runs' = runs \cup {[first |-> first, cnt |-> cnt]}
        /\ UNCHANGED <<arena, free_list, blocks, panic>>

FreePages(r) ==
    /\ ~panic
    /\ panic' = ~(Pages(r.first, r.cnt) \subseteq pool)
    /\ pool' = pool \ Pages(r.first, r.cnt)
    /\ runs' = runs \ {r}
    /\ UNCHANGED <<arena, free_list, blocks>>

-----------------------------------------------------------------------------
(* kalloc() and kfree() *)

\* Mutant: the struct arena is forgotten.
blocks_per_arena_page(d) == PG_SIZE \div block_size[d]

blocks_per_arena(d) == (PG_SIZE - sizeof_arena) \div block_size[d]

arena2block(p, d, idx) == p * PG_SIZE + sizeof_arena + block_size[d] * idx

block2arena(b) == b \div PG_SIZE

ArenaBlocks(p, d) == {arena2block(p, d, idx) : idx \in 0..blocks_per_arena(d) - 1}

desc_idx(size) == Min({d \in Descs : size <= block_size[d]})

\* arena_init(): each block is pushed, so that the last one comes first.
arena_list(p, d) ==
    [i \in 1..blocks_per_arena(d) |-> arena2block(p, d, blocks_per_arena(d) - i)]

\* A block of the free list.
KallocFree(size) ==
    LET d == desc_idx(size)
        b == Head(free_list[d])
    IN  /\ ~panic
        /\ free_list[d] # <<>>
        /\ free_list' = [free_list EXCEPT ![d] = Tail(@)]
        /\ arena' = [arena EXCEPT ![block2arena(b)].free_block_cnt = @ - 1]
        /\ blocks' = blocks \cup {[addr |-> b, size |-> size]}
        /\ UNCHANGED <<pool, runs, panic>>

\* The free list is empty: a block of a new arena.
KallocArena(size) ==
    LET d    == desc_idx(size)
        page == bitmap_alloc(1)
        list == arena_list(page, d)
    IN  /\ ~panic
        /\ free_list[d] = <<>> /\ page # -1
        /\ pool' = pool \cup {page}
        /\ free_list' = [free_list EXCEPT ![d] = Tail(list)]
        /\ arena' = [arena EXCEPT ![page] =
                        [desc |-> d, free_block_cnt |-> blocks_per_arena(d) - 1]]
        /\ blocks' = blocks \cup {[addr |-> Head(list), size |-> size]}
        /\ UNCHANGED <<runs, panic>>

\* list_remove() of each block of the arena.
free_list_without(list, gone) ==
    LET kept[i \in 0..Len(list)] ==
            IF i = 0 THEN <<>>
            ELSE IF list[i] \in gone THEN kept[i - 1] ELSE Append(kept[i - 1], list[i])
    IN  kept[Len(list)]

\* Mutant: the arena is never given back.
ArenaEmpty_late(cnt, d) == cnt > blocks_per_arena(d)

ArenaEmpty(cnt, d) == cnt = blocks_per_arena(d)

\* The struct arena is still read after free_pages(): nobody else runs before
\* the lock behind it is released.
Kfree(b) ==
    LET page == block2arena(b.addr)
        d    == arena[page].desc
        list == Append(free_list[d], b.addr)
        cnt  == arena[page].free_block_cnt + 1
        gone == IF ArenaEmpty(cnt, d) THEN ArenaBlocks(page, d) ELSE {}
    IN  /\ ~panic
        /\ panic' = ~ /\ ~Contains(free_list[d], b.addr)
                      /\ gone \subseteq ToSet(list)
                      /\ gone # {} => page \in pool
        /\ free_list' = [free_list EXCEPT ![d] = free_list_without(list, gone)]
        /\ arena' = [arena EXCEPT ![page].free_block_cnt = cnt]
        /\ pool' = IF gone # {} THEN pool \ {page} ELSE pool
        /\ blocks' = blocks \ {b}
        /\ UNCHANGED runs

KMemInit ==
    /\ pool = {}
    /\ arena = [p \in 0..PoolPages - 1 |-> [desc |-> 0, free_block_cnt |-> 0]]
    /\ free_list = [d \in Descs |-> <<>>]
    /\ blocks = {} /\ runs = {}
    /\ panic = FALSE

KMemNext ==
    \/ \E cnt \in 1..MaxRun : AllocPages(cnt)
    \/ \E r \in runs : FreePages(r)
    \/ \E size \in Sizes : KallocFree(size) \/ KallocArena(size)
    \/ \E b \in blocks : Kfree(b)

KMemSpec == KMemInit /\ [][KMemNext]_kmem_vars

-----------------------------------------------------------------------------
(* Properties *)

KMemTypeOK ==
    /\ pool \subseteq 0..BitmapBits + MaxRun - 2
    /\ arena \in [0..PoolPages - 1 -> [desc : Descs, free_block_cnt : 0..PG_SIZE]]
    /\ free_list \in [Descs -> Seq(Nat)]
    /\ blocks \subseteq [addr : Nat, size : Sizes]
    /\ runs \subseteq [first : 0..BitmapBits - 1, cnt : 1..MaxRun]
    /\ panic \in BOOLEAN

Bytes(b) == b.addr..b.addr + b.size - 1
RunBytes(r) == r.first * PG_SIZE..(r.first + r.cnt) * PG_SIZE - 1

\* The longest run that fits the pool wherever in the bitmap it begins: 5 pages.
SafeRun == PoolPages - BitmapBits + 1

\* Memory is never given out twice: the blocks and the runs of pages that are in
\* use do not overlap, and no block covers the struct arena of its page.  The blocks,
\* and the runs of at most SafeRun pages, lie in the pool; a longer run may lie partly
\* in the frames of the user programs behind it (RunsInPool).  No ASSERT fails: a page
\* or a block that is freed was in use, and an arena is given back with all its blocks
\* in the list (memory.c:56,144,152).  And every variable keeps its type.
MemoryApart ==
    /\ KMemTypeOK /\ ~panic
    /\ \A b, c \in blocks : b # c => Bytes(b) \cap Bytes(c) = {}
    /\ \A r, s \in runs : r # s => RunBytes(r) \cap RunBytes(s) = {}
    /\ \A b \in blocks : /\ \A r \in runs : Bytes(b) \cap RunBytes(r) = {}
                         /\ b.addr % PG_SIZE >= sizeof_arena
                         /\ block2arena(b.addr + b.size - 1) = block2arena(b.addr)
                         /\ b.addr + b.size <= PoolPages * PG_SIZE
    /\ \A r \in runs : r.cnt <= SafeRun => r.first + r.cnt <= PoolPages

\* What memory.c:20-21 says of the pool, that its pages are those up to
\* 0xffff8000001fffff: every run lies in it.  It does not hold (MCKMemPool.cfg): page
\* 252 is the first frame of the user pool (memory.c:329), which page_map() gives to
\* a program while the file system reads a block into it.
RunsInPool == \A r \in runs : r.first + r.cnt <= PoolPages

\* No page leaks: the pages whose bit is set are those of the runs in use and
\* those that hold a block in use, so that kfree() of the last block gives the
\* arena back.  The free lists hold exactly the unused blocks of these arenas, each
\* once, and free_block_cnt counts them: a block that stayed behind in a list would
\* be given out from a page that is somebody else's.
ArenasExact ==
    LET arenas == {block2arena(b.addr) : b \in blocks}
        unused(p) == ArenaBlocks(p, arena[p].desc) \ {b.addr : b \in blocks}
    IN  /\ pool = arenas \cup UNION {Pages(r.first, r.cnt) : r \in runs}
        /\ \A d \in Descs :
              /\ IsInjective(free_list[d])
              /\ ToSet(free_list[d]) =
                    UNION {unused(p) : p \in {q \in arenas : arena[q].desc = d}}
        /\ \A p \in arenas : arena[p].free_block_cnt = Cardinality(unused(p))

\* bitmap_alloc() finds the first run of clear bits, whatever was allocated and
\* freed before, and fails only if there is none.
FirstFit ==
    \A cnt \in 1..MaxRun :
        LET fits == {i \in 0..BitmapBits - 1 : Pages(i, cnt) \cap pool = {}}
        IN  bitmap_alloc(cnt) = IF fits = {} THEN -1 ELSE Min(fits)
=============================================================================
