------------------------------- MODULE Format --------------------------------
(***************************************************************************)
(* Making the file system: mbr_init() and partition_format() of fs/fs.c,   *)
(* as functions of the disk's geometry, and the places where fs/inode.c    *)
(* then looks for bits, inodes and blocks.  A disk is a function from the  *)
(* blocks written so far to their bytes.  Module MCStorage lets Fs go on   *)
(* where the formatting ends.                                              *)
(***************************************************************************)
EXTENDS Integers, SequencesExt

CONSTANTS
    BlockSizes,    \* the small disks that are tried: bytes of a block,
    InodeCounts,   \* the number of inodes,
    Starts,        \* the block at which the bootable partition begins
    SectorCounts   \* and its sectors

VARIABLE geometry  \* that of the disk until it is formatted

\* The partition table of boot/boot.asm, and two partitions on the small disks.
Part(bootable, start, cnt) == [bootable |-> bootable, start_lba |-> start, sec_cnt |-> cnt]

BootDisk ==
    [BLOCK_SIZE |-> 4096, SECTS_PER_BLOCK |-> 8, INODE_CNT_MAX |-> 128,
     DISK_INODE_SIZE |-> 128, mbr |-> <<Part(128, 2048, 18112)>>]

SmallDisks ==
    {[BLOCK_SIZE |-> size, SECTS_PER_BLOCK |-> 2, INODE_CNT_MAX |-> inodes,
      DISK_INODE_SIZE |-> 2, mbr |-> <<Part(0, 0, 2 * start), Part(128, 2 * start, cnt)>>] :
        size \in BlockSizes, inodes \in InodeCounts, start \in Starts, cnt \in SectorCounts}

Geometries == {BootDisk} \cup SmallDisks

\* mbr_init(): the first bootable partition; that there is none is a PANIC.
mbr_init(g) ==
    LET Bootable == {i \in DOMAIN g.mbr : g.mbr[i].bootable = 128}
    IN  g.mbr[CHOOSE i \in Bootable : \A j \in Bootable : i <= j]

BlocksFor(n, g) == (n + g.BLOCK_SIZE - 1) \div g.BLOCK_SIZE  \* DIV_ROUND_UP

\* bitmap_format(): one byte to the bit, 1 before occur and from size on.  Every
\* block gets the first BLOCK_SIZE bytes of the buffer.
bitmap_format(hd, g, bid, bcnt, size, occur) ==
    LET buf == [i \in 0..g.BLOCK_SIZE - 1 |-> IF i < occur \/ i >= size THEN 1 ELSE 0]
        new == bid..bid + bcnt - 1
    IN  [b \in DOMAIN hd \cup new |-> IF b \in new THEN buf ELSE hd[b]]

\* Mutant: the super block is forgotten.
Occupied_less(g, block_cnt) ==
    BlocksFor(block_cnt, g) + BlocksFor(g.INODE_CNT_MAX, g)
        + BlocksFor(g.INODE_CNT_MAX * g.DISK_INODE_SIZE, g)

\* The blocks that are in use in an empty file system.
Occupied(g, block_cnt) ==
    1 + BlocksFor(block_cnt, g) + BlocksFor(g.INODE_CNT_MAX, g)
        + BlocksFor(g.INODE_CNT_MAX * g.DISK_INODE_SIZE, g)

partition_format(g) ==
    LET part            == mbr_init(g)
        super_block_bid == part.start_lba \div g.SECTS_PER_BLOCK
        block_cnt       == part.sec_cnt \div g.SECTS_PER_BLOCK
        block_map       == super_block_bid + 1
        inode_map       == block_map + BlocksFor(block_cnt, g)
        inode_table     == inode_map + BlocksFor(g.INODE_CNT_MAX, g)
        sb == [block_bitmap_start |-> block_map, block_bitmap_size |-> block_cnt,
               inode_bitmap_start |-> inode_map, inode_cnt_max |-> g.INODE_CNT_MAX,
               inode_table_start |-> inode_table,
               data_start |-> inode_table + BlocksFor(g.INODE_CNT_MAX * g.DISK_INODE_SIZE, g)]
        d1 == [b \in {super_block_bid} |-> sb]
        d2 == bitmap_format(d1, g, block_map, BlocksFor(block_cnt, g), block_cnt,
                            Occupied(g, block_cnt))
    IN  bitmap_format(d2, g, inode_map, BlocksFor(g.INODE_CNT_MAX, g), g.INODE_CNT_MAX, 0)

\* The byte that fs_bitmap_alloc() reads for bit i of a bitmap.
bitmap_byte(hd, g, start, i) == hd[i \div g.BLOCK_SIZE + start][i % g.BLOCK_SIZE]

\* block_id() of an inode, and the block that bit i stands for in inode_size_change().
block_id(g, sb, i_no) == (i_no * g.DISK_INODE_SIZE) \div g.BLOCK_SIZE + sb.inode_table_start
direct(sb, i) == i + sb.block_bitmap_start - 1

\* The partitions begin and end between blocks and are apart, and the bootable one
\* has at most as many blocks as a block has bytes, and some for data.
ASSUME FormatAssumption ==
    /\ BlockSizes \cup InodeCounts \subseteq Nat \ {0}
    /\ Starts \cup SectorCounts \subseteq Nat
    /\ \A g \in Geometries :
        LET ends(p) == p.start_lba + p.sec_cnt
        IN  /\ \E p \in ToSet(g.mbr) : p.bootable = 128
            /\ g.BLOCK_SIZE % g.DISK_INODE_SIZE = 0
            /\ \A i, j \in DOMAIN g.mbr : i # j =>
                  ends(g.mbr[i]) <= g.mbr[j].start_lba \/ ends(g.mbr[j]) <= g.mbr[i].start_lba
            /\ LET p == mbr_init(g)
                   n == p.sec_cnt \div g.SECTS_PER_BLOCK
               IN  /\ p.start_lba % g.SECTS_PER_BLOCK = 0
                   /\ Occupied(g, n) < n /\ n <= g.BLOCK_SIZE

FormatInit == geometry \in Geometries

\* filesys_init(): from here on module Fs tells what is on the disk.
NoDisk == [mbr |-> <<>>]
filesys_init == geometry # NoDisk /\ geometry' = NoDisk

FormatSpec == FormatInit /\ [][filesys_init]_geometry

LaidOut(g) ==
    LET part  == mbr_init(g)
        hd    == partition_format(g)
        first == part.start_lba \div g.SECTS_PER_BLOCK
        end   == (part.start_lba + part.sec_cnt) \div g.SECTS_PER_BLOCK
        sb    == hd[first]
        itab  == {block_id(g, sb, i) : i \in 0..g.INODE_CNT_MAX - 1}
        data  == {direct(sb, i) : i \in {j \in 0..sb.block_bitmap_size - 1 :
                     bitmap_byte(hd, g, sb.block_bitmap_start, j) = 0}}
    IN  /\ DOMAIN hd = first..sb.inode_table_start - 1
        /\ itab = sb.inode_table_start..sb.data_start - 1
        /\ data = sb.data_start..end - 1
        /\ \A i \in 0..g.INODE_CNT_MAX - 1 :
              bitmap_byte(hd, g, sb.inode_bitmap_start, i) = 0

\* The super block, the bitmaps, the inodes and the data blocks lie in this order
\* inside the bootable partition and not over each other; the free bits are those
\* of the data blocks of the partition and of all inodes.
LayoutExact == \A g \in {geometry} \ {NoDisk} : LaidOut(g)
=============================================================================
