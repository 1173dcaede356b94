--------------------------------- MODULE Fs ----------------------------------
(***************************************************************************)
(* The files and directories on the disk: sys_mknod(), sys_unlink(),       *)
(* sys_mkdir() and sys_rmdir() with path_prase() and the dirent_ functions *)
(* of fs/dir.c, and of fs/inode.c the bitmaps, inode_size_change() and     *)
(* disk_inode_create() and _delete(), while other tasks write to files.    *)
(*                                                                         *)
(* Everything that waits for the disk can be overtaken by other tasks, but *)
(* what is done under a lock that all others take joins the step that ends *)
(* it: the search of a directory and the bytes of its entries (inode_lock),*)
(* and a change of a bitmap (fs_bitmap_lock).  block_modify() has no lock: *)
(* it reads a block of the inode table, in one step, and writes it back    *)
(* with one inode changed, in another.  An inode beside it that another    *)
(* task has written meanwhile is lost: variable lost tells which.  What    *)
(* the kernel does when it next reads that inode is not modelled.          *)
(*                                                                         *)
(* One task makes and removes regular files and directories.  Labels:     *)
(* "path" is path_prase(), "alloc" and "zero" disk_inode_create(), "add"   *)
(* dirent_add(); "retype", "readd", "dot" and "ddot" the rest of           *)
(* sys_mkdir(), whose own path_prase() finds the entry just added; "empty" *)
(* is the test of sys_rmdir(), "bfree" and "trunc" disk_inode_delete(),    *)
(* "del" dirent_delete() and "grow" inode_write().                         *)
(***************************************************************************)
EXTENDS Integers, SequencesExt

CONSTANTS
    maker,            \* the task that makes and removes files
    Writers,          \* the tasks that write to w_no
    Paths,            \* the maker's paths: <<name>>, <<directory, name>>, ...
    WriteSizes,       \* how much is written at once
    Inodes,           \* 0..INODE_CNT_MAX - 1; 0 is the root directory
    NBlocks,          \* the number of data blocks
    NDIRECT,
    PerBlock,         \* the directory entries, or units of data, of a block
    InodesPerBlock,   \* the disk inodes in a block of the inode table: 32
    w_no, v_no,       \* two files that are there from the start
    NULL

Procs  == {maker} \cup Writers
Blocks == 1..NBlocks

\* The names that the maker uses; . and .. and the two files are not its own.
Names == STRING \ {".", "..", "w", "v"}

DIV_ROUND_UP(n) == (n + PerBlock - 1) \div PerBlock

ASSUME FsAssumption ==
    /\ 0 \in Inodes /\ Inodes \subseteq Nat /\ NBlocks \in Nat
    /\ {w_no, v_no} \subseteq Inodes \ {0} /\ w_no # v_no
    /\ {NDIRECT, PerBlock, InodesPerBlock} \cup WriteSizes \subseteq Nat \ {0}
    /\ NBlocks >= DIV_ROUND_UP(4) /\ NDIRECT * PerBlock >= 4
    /\ maker \notin Writers /\ NULL \notin Procs
    /\ Paths \subseteq Seq(Names) \ {<<>>}

VARIABLES
    inode_bitmap, block_bitmap,  \* what is allocated
    disk_inode,  \* disk_inode[i]: size and blocks as the kernel has them
    table,       \* table[i]: the same as the inode table on the disk has them
    entries,     \* entries[i]: the directory entries in the file
    inode_lock,  \* inode_lock[i]: the task that holds it, or NULL
    pc,
    op,          \* the maker's call, rest of its path, directory and inode
    io,          \* io[p]: where p is in block_modify(), with the block it has read
    lost         \* observer: the inodes that block_modify() has set back, see Observe

disk == <<inode_bitmap, block_bitmap, disk_inode, table, entries>>
vars == <<disk, inode_lock, pc, op, io, lost>>

Empty == [size |-> 0, direct |-> <<>>]

NoCall == [call |-> "none", path |-> <<>>, dir |-> 0, i_no |-> 0]

Goto(p, from, to) == pc[p] = from /\ pc' = [pc EXCEPT ![p] = to]

\* The maker goes on with o; a call that returns forgets its variables.
MakerTo(from, to, o) ==
    /\ Goto(maker, from, to)
    /\ op' = IF to = "user" THEN NoCall ELSE o

Unlocked(i) == inode_lock[i] = NULL

Lock(p, i) == inode_lock' = [inode_lock EXCEPT ![i] = p]
Unlock(i) == inode_lock' = [inode_lock EXCEPT ![i] = NULL]

-----------------------------------------------------------------------------
(* fs/inode.c and fs/bio.c *)

TooBig(size) == size > NDIRECT * PerBlock

Free == Blocks \ block_bitmap

NoRoom(i, size) ==
    \/ TooBig(size)
    \/ DIV_ROUND_UP(size) - Len(disk_inode[i].direct) > Cardinality(Free)

\* Mutant: the blocks that a file loses stay allocated.
Freed_none(i, size) == {}

Freed(i, size) ==
    {disk_inode[i].direct[k] : k \in DIV_ROUND_UP(size) + 1..Len(disk_inode[i].direct)}

\* What n calls of fs_bitmap_alloc() find: the lowest free blocks.
Lowest(n) ==
    LET found[k \in 1..n] == Min(Free \ {found[j] : j \in 1..k - 1})
    IN  found

\* inode_size_change() when there is room, up to its call of block_modify().  The
\* code takes or frees the blocks one by one, with fs_bitmap_lock released and the
\* disk awaited in between; all that maker and writers do with WriteSizes up to
\* PerBlock changes at most one block, and then one step is the same.
inode_size_change(p, i, size) ==
    LET old  == disk_inode[i].direct
        new  == DIV_ROUND_UP(size)
        kept == Min({new, Len(old)})
        more == Lowest(new - kept)
    IN  /\ disk_inode' = [disk_inode EXCEPT ![i] =
                 [size |-> size, direct |-> SubSeq(old, 1, kept) \o more]]
        /\ block_bitmap' = (block_bitmap \cup ToSet(more)) \ Freed(i, size)
        /\ io' = [io EXCEPT ![p] = [phase |-> "asked", block |-> <<>>]]

SameBlock(i) == {j \in Inodes : j \div InodesPerBlock = i \div InodesPerBlock}

\* The inode whose table entry p's call is about to change.
Target(p) ==
    CASE pc[p] \in {"add", "readd", "retype", "del"} -> op.dir
      [] pc[p] = "grow" -> w_no
      [] OTHER -> op.i_no

\* block_modify(), first half.
BlockRead(p) ==
    /\ io[p].phase = "asked"
    /\ io' = [io EXCEPT ![p] = [phase |-> "read", block |->
                 [j \in SameBlock(Target(p)) |-> table[j]]]]
    /\ UNCHANGED <<disk, inode_lock, pc, op>>

\* Mutant: the block is written back as it was read.
BlockWritten_stale(p, val) ==
    /\ io[p].phase = "read"
    /\ table' = [j \in Inodes |-> IF j \in DOMAIN io[p].block THEN io[p].block[j]
                                                             ELSE table[j]]
    /\ io' = [io EXCEPT ![p] = [phase |-> "none", block |-> <<>>]]

\* block_modify(), second half; val is the new disk inode.
BlockWritten(p, val) ==
    /\ io[p].phase = "read"
    /\ table' = [j \in Inodes |-> CASE j = Target(p) -> val
                                    [] j # Target(p) /\ j \in DOMAIN io[p].block -> io[p].block[j]
                                    [] OTHER -> table[j]]
    /\ io' = [io EXCEPT ![p] = [phase |-> "none", block |-> <<>>]]

NoIo(p) == io[p].phase = "none"

\* The neighbours of p's inode that were written since p read their block.
Outdated(p) ==
    {j \in DOMAIN io[p].block \ {Target(p)} : io[p].block[j] # table[j]}

\* The observer, in every step: a block that is written back sets these inodes back.
Observe ==
    lost' = UNION {Outdated(p) : p \in {q \in Procs : io[q].phase = "read" /\ io'[q].phase = "none"}}

-----------------------------------------------------------------------------
(* path_prase() *)

\* dirent_search().
Matching(d, name) == {k \in DOMAIN entries[d] : entries[d][k].filename = name}

dirent(d, name) == entries[d][Min(Matching(d, name))]

Call(call, path) ==
    /\ MakerTo("user", "path", [call |-> call, path |-> path, dir |-> 0, i_no |-> 0])
    /\ UNCHANGED <<disk, inode_lock, io>>

\* One turn of the loop, for a component that is there.
PathDown ==
    LET d  == op.dir
        de == dirent(d, Head(op.path))
    IN  /\ Len(op.path) > 1 /\ Unlocked(d)
        /\ Matching(d, Head(op.path)) # {}
        /\ MakerTo("path", IF de.f_type = "FT_DIR" THEN "path" ELSE "user",
                   [op EXCEPT !.dir = de.i_no, !.path = Tail(@)])
        /\ UNCHANGED <<disk, inode_lock, io>>

\* A directory that is not there: the loop is left with inode_lock held, and
\* inode_close() waits for it for ever.
PathStuck ==
    LET d == op.dir
    IN  /\ Len(op.path) > 1 /\ Unlocked(d)
        /\ Matching(d, Head(op.path)) = {}
        /\ MakerTo("path", "stuck", op)
        /\ Lock(maker, d)
        /\ UNCHANGED <<disk, io>>

\* The last component, and the tests that the system calls make on the result.
Name == Head(op.path)

PathMissing ==
    /\ Len(op.path) = 1 /\ Unlocked(op.dir)
    /\ Matching(op.dir, Name) = {}
    /\ MakerTo("path", IF op.call \in {"mknod", "mkdir"} THEN "alloc" ELSE "user", op)
    /\ UNCHANGED <<disk, inode_lock, io>>

PathFound ==
    LET de == dirent(op.dir, Name)
    IN  /\ Len(op.path) = 1 /\ Unlocked(op.dir)
        /\ Matching(op.dir, Name) # {}
        /\ MakerTo("path",
              CASE op.call = "unlink" /\ de.f_type # "FT_DIR" -> "bfree"
                [] op.call = "rmdir"  /\ de.f_type = "FT_DIR" -> "empty"
                [] OTHER -> "user", [op EXCEPT !.i_no = de.i_no])
        /\ UNCHANGED <<disk, inode_lock, io>>

-----------------------------------------------------------------------------
(* sys_mknod() *)

\* disk_inode_create(): fs_bitmap_alloc(), then the disk inode is cleared.
AllocInode ==
    LET i == Min(Inodes \ inode_bitmap)
    IN  /\ Inodes # inode_bitmap
        /\ MakerTo("alloc", "zero", [op EXCEPT !.i_no = i])
        /\ inode_bitmap' = inode_bitmap \cup {i}
        /\ io' = [io EXCEPT ![maker] = [phase |-> "asked", block |-> <<>>]]
        /\ UNCHANGED <<block_bitmap, disk_inode, table, entries, inode_lock>>

AllocFull ==
    /\ Inodes = inode_bitmap
    /\ MakerTo("alloc", "user", op)
    /\ UNCHANGED <<disk, inode_lock, io>>

ZeroDone ==
    /\ MakerTo("zero", "add", op)
    /\ BlockWritten(maker, Empty)
    /\ disk_inode' = [disk_inode EXCEPT ![op.i_no] = Empty]
    /\ UNCHANGED <<inode_bitmap, block_bitmap, entries, inode_lock>>

\* The entry that each dirent_add() adds, to the directory Target(maker).
NewDirent ==
    CASE pc[maker] = "add"   -> [filename |-> Name, i_no |-> op.i_no, f_type |-> "FT_REG"]
      [] pc[maker] = "readd" -> [filename |-> Name, i_no |-> op.i_no, f_type |-> "FT_DIR"]
      [] pc[maker] = "dot"   -> [filename |-> ".", i_no |-> op.i_no, f_type |-> "FT_DIR"]
      [] pc[maker] = "ddot"  -> [filename |-> "..", i_no |-> op.dir, f_type |-> "FT_DIR"]

\* Where the call goes on after dirent_add().
Added ==
    CASE pc[maker] = "add"   -> IF op.call = "mkdir" THEN "retype" ELSE "user"
      [] pc[maker] = "readd" -> "dot"
      [] pc[maker] = "dot"   -> "ddot"
      [] pc[maker] = "ddot"  -> "user"

Adding == {"add", "readd", "dot", "ddot"}

\* dirent_add() cannot be done.
CannotAdd ==
    LET d == Target(maker)
    IN  \/ Matching(d, NewDirent.filename) # {}
        \/ NoRoom(d, disk_inode[d].size + 1)

AddStart ==
    LET d == Target(maker)
    IN  /\ pc[maker] \in Adding /\ NoIo(maker)
        /\ inode_lock[d] \in {NULL, maker}
        /\ ~CannotAdd
        /\ Lock(maker, d)
        /\ inode_size_change(maker, d, disk_inode[d].size + 1)
        /\ UNCHANGED <<inode_bitmap, table, entries, pc, op>>

\* The second entry of a new directory is added under the same lock.
AddDone ==
    LET d == Target(maker)
    IN  /\ pc[maker] \in Adding
        /\ MakerTo(pc[maker], Added, op)
        /\ BlockWritten(maker, disk_inode[d])
        /\ entries' = [entries EXCEPT ![d] = Append(@, NewDirent)]
        /\ IF pc[maker] = "dot" THEN UNCHANGED inode_lock ELSE Unlock(d)
        /\ UNCHANGED <<inode_bitmap, block_bitmap, disk_inode>>

\* Mutant: the new inode is forgotten.
AddFailed_leak ==
    /\ NoIo(maker) /\ Unlocked(op.dir)
    /\ MakerTo("add", "user", op)
    /\ CannotAdd
    /\ UNCHANGED <<disk, inode_lock, io>>

\* sys_mknod() takes its new inode back, with the directory locked.
AddFailed ==
    /\ NoIo(maker) /\ Unlocked(op.dir)
    /\ MakerTo("add", "bfree", [op EXCEPT !.call = "undo"])
    /\ CannotAdd
    /\ Lock(maker, op.dir)
    /\ UNCHANGED <<disk, io>>

\* sys_mkdir() does not look at what its calls of dirent_add() return.
AddIgnored ==
    LET d == Target(maker)
    IN  /\ pc[maker] \in Adding \ {"add"} /\ NoIo(maker)
        /\ inode_lock[d] \in {NULL, maker}
        /\ CannotAdd
        /\ MakerTo(pc[maker], Added, op)
        /\ IF pc[maker] = "dot" THEN Lock(maker, d) ELSE Unlock(d)
        /\ UNCHANGED <<disk, io>>

-----------------------------------------------------------------------------
(* sys_unlink() and sys_rmdir() *)

\* sys_rmdir(): only the entries . and .. are left.
EmptyTest ==
    /\ Unlocked(op.i_no)
    /\ MakerTo("empty", IF disk_inode[op.i_no].size = 2 THEN "bfree" ELSE "user", op)
    /\ UNCHANGED <<disk, inode_lock, io>>

\* disk_inode_delete(): the bit first, then the blocks.
FreeInode ==
    /\ MakerTo("bfree", "trunc", op)
    /\ inode_bitmap' = inode_bitmap \ {op.i_no}
    /\ UNCHANGED <<block_bitmap, disk_inode, table, entries, inode_lock, io>>

TruncStart ==
    /\ pc[maker] = "trunc" /\ NoIo(maker)
    /\ Unlocked(op.i_no)
    /\ Lock(maker, op.i_no)
    /\ inode_size_change(maker, op.i_no, 0)
    /\ UNCHANGED <<inode_bitmap, table, entries, pc, op>>

TruncDone ==
    LET undo == op.call = "undo"
    IN  /\ MakerTo("trunc", IF undo THEN "user" ELSE "del", op)
        /\ BlockWritten(maker, Empty)
        /\ entries' = [entries EXCEPT ![op.i_no] = <<>>]
        /\ inode_lock' = [i \in Inodes |->
              IF i = op.i_no \/ (undo /\ i = op.dir) THEN NULL ELSE inode_lock[i]]
        /\ UNCHANGED <<inode_bitmap, block_bitmap, disk_inode>>

\* Mutant: the last entry goes, whichever was to be deleted.
WithoutDirent_last(d, name) == Front(entries[d])

\* dirent_delete(): the last entry takes the place of the one that goes.
WithoutDirent(d, name) ==
    LET k == Min(Matching(d, name))
    IN  Front([entries[d] EXCEPT ![k] = Last(entries[d])])

\* sys_mkdir() deletes the entry that it has just added, to add it as a directory.
DelStart ==
    LET d == op.dir
    IN  /\ pc[maker] \in {"del", "retype"} /\ NoIo(maker)
        /\ Unlocked(d)
        /\ Matching(d, Name) # {}
        /\ Lock(maker, d)
        /\ inode_size_change(maker, d, disk_inode[d].size - 1)
        /\ UNCHANGED <<inode_bitmap, table, entries, pc, op>>

DelDone ==
    LET d == op.dir
    IN  /\ pc[maker] \in {"del", "retype"}
        /\ MakerTo(pc[maker], IF pc[maker] = "retype" THEN "readd" ELSE "user", op)
        /\ BlockWritten(maker, disk_inode[d])
        /\ entries' = [entries EXCEPT ![d] = WithoutDirent(d, Name)]
        /\ IF pc[maker] = "retype" THEN UNCHANGED inode_lock ELSE Unlock(d)
        /\ UNCHANGED <<inode_bitmap, block_bitmap, disk_inode>>

-----------------------------------------------------------------------------
(* sys_write() at the end of the file w_no *)

GrowStart(p, n) ==
    LET size == disk_inode[w_no].size + n
    IN  /\ Goto(p, "user", "grow")
        /\ Unlocked(w_no) /\ ~NoRoom(w_no, size)
        /\ Lock(p, w_no)
        /\ inode_size_change(p, w_no, size)
        /\ UNCHANGED <<inode_bitmap, table, entries, op>>

\* The blocks that were found before the bitmap is at its end stay allocated.
GrowFailed(p, n) ==
    LET size == disk_inode[w_no].size + n
    IN  /\ Goto(p, "user", "user")
        /\ Unlocked(w_no) /\ NoRoom(w_no, size)
        /\ block_bitmap' = IF TooBig(size) THEN block_bitmap ELSE Blocks
        /\ UNCHANGED <<inode_bitmap, disk_inode, table, entries, inode_lock, op, io>>

GrowDone(p) ==
    /\ Goto(p, "grow", "user")
    /\ BlockWritten(p, disk_inode[w_no])
    /\ Unlock(w_no)
    /\ UNCHANGED <<inode_bitmap, block_bitmap, disk_inode, entries, op>>

-----------------------------------------------------------------------------
FirstDirents == <<[filename |-> "..", i_no |-> 0, f_type |-> "FT_DIR"],
                  [filename |-> ".", i_no |-> 0, f_type |-> "FT_DIR"],
                  [filename |-> "w", i_no |-> w_no, f_type |-> "FT_REG"],
                  [filename |-> "v", i_no |-> v_no, f_type |-> "FT_REG"]>>

\* create_root_dir(), and two files made since.
Init ==
    LET direct == [k \in 1..DIV_ROUND_UP(4) |-> k]
    IN  /\ inode_bitmap = {0, w_no, v_no}
        /\ block_bitmap = ToSet(direct)
        /\ disk_inode = [[i \in Inodes |-> Empty] EXCEPT ![0] = [size |-> 4, direct |-> direct]]
        /\ table = disk_inode
        /\ entries = [[i \in Inodes |-> <<>>] EXCEPT ![0] = FirstDirents]
        /\ inode_lock = [i \in Inodes |-> NULL]
        /\ pc = [p \in Procs |-> "user"]
        /\ op = NoCall
        /\ io = [p \in Procs |-> [phase |-> "none", block |-> <<>>]]
        /\ lost = {}

Calls == {"mknod", "mkdir", "unlink", "rmdir"}

Step ==
    \/ \E call \in Calls, path \in Paths : Call(call, path)
    \/ PathDown \/ PathStuck \/ PathMissing \/ PathFound
    \/ AllocInode \/ AllocFull \/ ZeroDone
    \/ AddStart \/ AddDone \/ AddFailed \/ AddIgnored
    \/ EmptyTest \/ FreeInode \/ TruncStart \/ TruncDone \/ DelStart \/ DelDone
    \/ \E p \in Writers, n \in WriteSizes : GrowStart(p, n) \/ GrowFailed(p, n)
    \/ \E p \in Writers : GrowDone(p)
    \/ \E p \in Procs : BlockRead(p)

\* Nothing is said of what follows the loss of an inode.
Undefined == lost # {} /\ UNCHANGED vars

Next == Undefined \/ (lost = {} /\ Step /\ Observe)

Spec == Init /\ [][Next]_vars

-----------------------------------------------------------------------------
(* Properties *)

DiskInode == [size : 0..NDIRECT * PerBlock, direct : Seq(Blocks)]

TypeOK ==
    /\ inode_bitmap \subseteq Inodes /\ block_bitmap \subseteq Blocks
    /\ disk_inode \in [Inodes -> DiskInode] /\ table \in [Inodes -> DiskInode]
    /\ inode_lock \in [Inodes -> Procs \cup {NULL}]
    /\ \A i \in Inodes : \A k \in DOMAIN entries[i] : entries[i][k].i_no \in Inodes

\* The entries that stand for a file: <<directory, position>>.
Links == {l \in UNION {{i} \X DOMAIN entries[i] : i \in Inodes} :
             entries[l[1]][l[2]].filename \notin {".", ".."}}
Linked(l) == entries[l[1]][l[2]].i_no

\* The maker has freed op.i_no and has yet to remove its entry.
Unlinking == pc[maker] \in {"trunc", "del"} /\ op.call # "undo"

\* Directories are sound whatever was added and removed before: a directory is as
\* long as its entries, names are unique in it, every file has one name and an
\* allocated inode, and . is the directory itself (dir.c:27-49, where the last
\* entry fills the gap).
EntriesSound ==
    /\ \A i \in inode_bitmap \ {w_no} :
          /\ Unlocked(i) => disk_inode[i].size = Len(entries[i])
          /\ \A j, k \in DOMAIN entries[i] :
                entries[i][j].filename = entries[i][k].filename => j = k
          /\ \A k \in DOMAIN entries[i] :
                entries[i][k].filename = "." => entries[i][k].i_no = i
    /\ \A l, m \in Links : Linked(l) = Linked(m) => l = m
    /\ \A l \in Links : Linked(l) \in inode_bitmap \/ (Unlinking /\ Linked(l) = op.i_no)

Owned(i) == ToSet(disk_inode[i].direct)

\* A block belongs to one file, no file outgrows its NDIRECT blocks and no block
\* leaks, while files grow and are removed beside each other; and every variable
\* keeps its type.
BlocksExact ==
    /\ TypeOK
    /\ block_bitmap = UNION {Owned(i) : i \in Inodes}
    /\ \A i \in Inodes :
          /\ Len(disk_inode[i].direct) = DIV_ROUND_UP(disk_inode[i].size)
          /\ IsInjective(disk_inode[i].direct)
          /\ \A j \in Inodes \ {i} : Owned(i) \cap Owned(j) = {}

\* What the kernel knows of a file that nobody is changing is on the disk, where the
\* next inode_open() reads it, up to the first block_modify() that overlaps with
\* another of the same block; and that one sets back nothing but the inodes that
\* were written between its read and its write (bio.c:28-32).
Durable ==
    \A i \in inode_bitmap \ lost :
        Unlocked(i) /\ ~(pc[maker] = "zero" /\ op.i_no = i) => table[i] = disk_inode[i]

\* What write() and mknod() promise (lib/syscall.h:30,52): the size of a file that was
\* written, or the new file, is still there after other files were.
NothingLost == lost = {}

\* Between two calls the allocated inodes are those that have a name: sys_mknod()
\* undoes what it cannot finish (file.c:62-68).
NoLeak ==
    pc[maker] \in {"user", "stuck"} =>
        inode_bitmap = {0} \cup {Linked(l) : l \in Links}
=============================================================================
