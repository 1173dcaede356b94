# A TLA+ model of recover-os

recover-os is a small x86-64 kernel in C with a keyboard, a screen, an IDE disk, a simple
file system and a shell. This directory holds TLA+ modules for the parts of it in which
tasks, interrupts, system calls and memory meet, the TLC configurations that check them on small
instances, and proofs, for every number of tasks, blocks, inodes and pages, of nearly all that the runs check of safety: the scheduler and what is built directly on it (semaphores,
processes, console, pipes, disk driver), the keyboard, the file table, the inode cache, the file system and its formatting, and kernel memory. `PROJECT.json` maps every definition to the lines it models.

    tlc -workers 2 -config MCTask.cfg Task      # a run: cfg, then module
    tlapm SyncProofs.tla                        # the proofs of a module

## The system

There is one processor. **System calls run with interrupts off**: `device/ioqueue.c:17,22,39,55`
assert it on the paths below `sys_read` and `sys_write`, and the `syscall` entry clears IF. So
the kernel is not preempted, and another task gets on only where a call blocks
(`task_block`, `sema_down`, `ioq_wait`, the disk) or yields. Interrupts come in user programs
and in the idle loop. Between these points a call is one atomic step, in the code and in the
models; every interleaving below is an interleaving of such steps.

| Component | State | Operations | Correct if |
|---|---|---|---|
| Scheduler, `task/task.c`, `device/timer.c` | running task, `status`, `ticks`, `ready_tasks_list` | `schedule`, `task_block`, `task_unblock`, `task_yield`, `create_task`, timer interrupt, idle loop | one running task; no task lost or queued twice; no ASSERT fails; nobody starves |
| Semaphores, `task/sync.c` | value, list of waiters | `sema_down`, `sema_up` | mutual exclusion over sleeps; no lost wakeup; one list per `general_tag` |
| Processes, `task/task.c`, `userprog/wait_exit.c` | `all_tasks_list`, `parent_task`, pids, page tables | `clone`, `wait`, `exit` | no dangling parent; no exit missed; everything freed once |
| I/O queue, console, `device/ioqueue.c`, `console.c`, `keyboard.c` | ring, `producer`, `consumer`, `iosema`; which keys are down | `ioq_getchar`, `ioq_putchar`, keyboard interrupt | bounded FIFO; a sleeper is reachable; each key gives the right character |
| Screen and line editor, `device/print.c`, `command/shell.c` | video memory, cursor, `cmd_line` | `put_char`, `console_write`, `readline`, `cmd_parse` | the line in the buffer is the line on the screen, and `argv` its words |
| Pipes, `userprog/pipe.c` | the same ring in a page | `pipe_read`, `pipe_write`, `sys_pipe`, `sys_dup2` | FIFO; writes not mixed; reads never wait |
| File table, `fs/file.c` | `file_table`, `fd_table`, counts | `open`, `close`, and the parts of `clone` and `exit` that share and close | a descriptor never dangles (it does after `dup2`) |
| Inode cache, `fs/inode.c` | `open_inodes`, `open_cnts`, two kinds of lock | `inode_open`, `inode_close` | one inode per file; exact counts; nothing used after `kfree` (two uses are) |
| Bitmaps, sizes, inode table, `fs/inode.c`, `bio.c` | block and inode bitmaps, disk inodes | `inode_size_change`, `inode_read`, `inode_write`, `disk_inode_create`, `disk_inode_delete`, `block_modify` | a block belongs to one file; nothing leaks; the disk has what the kernel has |
| Directories, `fs/dir.c`, `file.c` | directory entries | `path_prase`, `mknod`, `unlink`, `mkdir`, `rmdir` (`stat` only reads) | names unique; one name per allocated inode |
| Disk driver, `device/ide.c` | `expecting_intr`, `disk_done`, channel lock | `ide_read`, `ide_write`, interrupt | each command gets its own interrupt |
| Kernel memory, `kernel/memory.c`, `lib/bitmap.c` | pool bitmap, arenas | `alloc_pages`, `kalloc`, `kfree` | nothing given out twice |
| User memory and loader, `kernel/memory.c`, `task/task.c`, `userprog/exec.c`, `wait_exit.c` | frames, page tables, `addr_space` | page fault, `brk`, `clone`, `execv`, `exit`, `wait` | each process has a memory of its own; a frame is used once and freed once |
| Formatting, `fs/fs.c` | super block, bitmaps on the disk | `mbr_init`, `partition_format` | the areas of the disk lie apart, in the partition |
| Boot, library, commands | | | see *Not modelled* |

How they interact: every blocking call ends in the scheduler. `sys_read`/`sys_write` take
`file_table_lock`, then the `inode_lock` of the file, then the lock of the IDE channel, and sleep
for the disk with all of them held. The disk and keyboard interrupts wake tasks. `sys_clone`
touches the scheduler, the process tree, the page tables, the file table, the counts of inodes
and (by a fall-through) the data of pipes; `sys_exit` undoes that while it may sleep for locks and disk.
What is hard: the order of exits, waits and wakeups; locks held across sleeps; conditions tested
before a sleep and used after it; counts shared by processes; tables that run out; pages that a child takes
from its parent long after the fork. The list
`hazards` in `PROJECT.json` gives each at its line, with the properties that cover it.

## Modules

`Sched` and `Sema` and `IoQueue` are functions on states, named like the C functions; a handler
that calls several of them is their composition, in the order of the calls. An ASSERT sets
`panic`, after which nothing happens.

| Module | Models | Extends / instantiates |
|---|---|---|
| `Sched` | `task/task.c`, `intr_time_handle`, the lists | |
| `Kernel` | the timer interrupt, the idle loop, where interrupts are on (`IntrOn`) | `Sched` |
| `Task` | the scheduler under its most general client: the abstract specification of what the other components may do with it | `Kernel` |
| `Sema` | `task/sync.c` | `Sched` |
| `Sync` | system calls that nest locks, sleep and yield with them | `Kernel`, `Sema`; implements `Task` |
| `WaitExit` | `sys_clone`, `sys_wait`, `sys_exit`, pids, top level page tables | `Kernel` |
| `IoQueue` | the ring and `wakeup` of `device/ioqueue.c` | `Sched` |
| `BoundedFifo` | abstract: what a queue of bytes promises | |
| `Console` | `console_read`, `ioq_getchar`, the storing end of the keyboard handler | `Kernel`, `Sema`, `IoQueue`; implements `BoundedFifo` |
| `Pipe` | `sys_read`/`sys_write` of a pipe with `file_table_lock` | the same |
| `FileTable` | `sys_open`, `sys_close`, `sys_pipe`, `sys_dup2`, descriptors in `clone` and `exit` | |
| `InodeCache` | `inode_open`, `inode_close`, users that hold `inode_lock` over disk waits | |
| `Fs` | `sys_mknod`, `sys_unlink`, `sys_mkdir`, `sys_rmdir`, `path_prase`, the `dirent_` functions, bitmaps, `inode_size_change`, `block_modify` of the inode table | |
| `Ide` | `ide_read`, `ide_write`, `busy_wait`, `intr_hd_handle`, and the disk as the driver uses it | `Kernel`, `Sema` |
| `KMem` | the page pool, `bitmap_alloc`, `kalloc`, `kfree` | |
| `PrivateMemory` | abstract: what `lib/syscall.h` promises of the memory of processes | |
| `UMem` | frames and page tables, `page_map`, `page_unmap`, `intr_page_handle`, `sys_brk`, `copy_page`, and the memory in `sys_clone`, `sys_execv`, `sys_exit` and `sys_wait` | implements `PrivateMemory` |
| `Keyboard` | `intr_keyboard_hdl` from the scan code to the byte, under presses and releases | |
| `Screen`, `Shell` | `put_char`, `console_write`; `readline` and `cmd_parse`, under keys | `Shell` extends `Screen` |
| `Format` | `mbr_init`, `partition_format`, for disks of many sizes | |
| `SchedProofs` | lemmas about `Sched`, `Sema`, `IoQueue`; theorems about `Task` | `Task`, `Sema`, `IoQueue` |
| `SyncProofs`, `WaitExitProofs`, `IdeProofs`, `ConsoleProofs`, `PipeProofs` | theorems about the module of that name, `ConsoleProofs` also about `Keyboard` | that module, `SchedProofs` |
| `FilesProofs` | theorems about `FileTable` and `InodeCache` | `FileTable`, `InodeCache` |
| `StorageProofs` | theorems about `KMem`, `Fs` and `Format` | these three |
| `MCWaitExit`, `MCConsole`, `MCFiles`, `MCStorage`, `MCUMem` | symmetry sets, constants and compositions for TLC | |

State and actions. `ks` is the scheduler state; `pc[t]` is the point at which task `t` stands,
with one label for each place where it can lose the processor. In the modules on `Kernel`, the
running task, the time slices and the order of the ready list are exact. `FileTable`, `InodeCache` and `Fs` leave open which task goes
on when several could (more behaviours than the scheduler allows, never fewer) and write a
lock as its holder: the semaphores behind it are the subject of `Sync`. A wait for such a lock is a guard; it is a
label of its own only where the waiting task has done something already that others see, or
remembers something that can become stale.

Abstractions: payloads are members of small sets; register contents, stacks, copying and
formatting are left out; `TASK_DIED` also stands for a page that is not allocated. Where the
kernel would panic for lack of memory, the models stop allocating. `Task` lets a device interrupt wake any sleeper.
In `FileTable` the position in a regular file is left out (`f_pos` counts descriptors only for devices
and pipes, as in the code). In `InodeCache` a task has its references in a few variables (`Handles`); the reference to a directory that a successful `path_prase` never gives
back (`fs/dir.c:86-98`) is one that it does not close. In `Fs` a directory is the sequence of its entries,
other files have a size in units of `1 / PerBlock` of a block and no contents, and what is done under a lock that everybody else takes
joins the step that ends it; `block_modify` on the inode table, which has no lock of its own, is two steps. `Fs` has one task that makes and removes
regular files and directories. In `KMem` no function sleeps, so each is one step. In `Ide` the
disk is an environment with the states that its status register shows.

`UMem` counts addresses in units of `PG_SIZE` to the page and has two of the four levels of tables, which the
loops of the code treat alike. `mem` holds the tables, the frames with their contents and the bitmap of the pool; `task`
the `addr_space` of each process. A frame holds data and entries, so that a table that is not cleared and an entry that outlives its page are seen.
What the kernel does not survive (an ASSERT, a PANIC, a stray access, a fault inside the fault handler, an endless loop in `sys_brk`) sets `fatal`. Each handler is one step, but
`execv` sleeps for the disk: it is one step to its first segment and one for each. The processor's cache of entries (TLB) and the kernel's half of the tables are left out.

The kernel relies on programs for the rest. `Rules` names what it relies on:

| Rule | Who keeps to it | Without it |
|---|---|---|
| `stay`: a process with a child that has not got all its pages yet neither calls `execv` nor exits | `init` and the shell wait for the child; the parent of `snake` too | the child copies from `init`, which has not got the page, and the fault inside the handler repeats for ever: `MCOrphan.cfg` |
| `own`: only a process that has all its pages and a heap forks | `init`, the shell and `snake` have loaded their own program | the grandchild does not find what the fork promises, and its copy faults inside the handler (`NeverFatal`) |
| `heap`: `brk` gives no page back before the exit, and the heap does not grow over a segment | all but `ls`, which gives a page back when the entries of a directory reach into one. `printf` takes half a page and gives it back, in the page that the heap begins in | the entry of the freed page stays, the next use reaches a frame that another process has: `MCShrink.cfg`; the next `brk` frees it again (`NeverFatal`) |
| `whole`: an ELF file has all its program headers | all | `execv` returns an error to a process whose memory is partly the new program's (`PrivateButForLateCopies`) |
| `failed`: a process whose `execv` has failed uses no heap | not the shell: its child calls `printf` (`shell.c:135`), with a buffer in a page of data that it has already | the memory that `brk` gives is a stray address: `MCFailedExec.cfg` |

Writes are free: a parent may write while its child has not copied the page, and a child may touch the heap first. What this does to the child is said in `PrivateButForLateCopies`, and refutes
`RefinesPrivateMemory` (run `MCFork`). As `ld` lays the programs out, the heap of the shell begins at 0x404480, in the page of its data segment 0x404000; that of `snake` at 0x404008, behind `seed` at 0x404000; that of `init` at 0x402548;
`echo` and `ls` have no data segment.

## Runs

The bound and why it is enough stands with each run.

| Run | Checks | Bounds |
|---|---|---|
| `MCTask` | `AssertsHold`, `QueueOK`, `IdleAvailable`, `BoundedBypass`: whatever clients do within the contract of the scheduler, its queue stays sound, one task runs, an idle task is there to fall back on, and wakeups that jump the queue cannot starve a queued task | 4 tasks (idle, init and two), slices of 2 ticks: a task can be preempted, woken in front of others and bypassed. The safety part is also proved for all sizes |
| `MCSync` | safety of the locks, `LockReleased`, `ReadyRuns`, `RefinesTask` | two contenders and two nested locks, 3 blocking calls per system call: enough to take both locks and to sleep or yield with them, and to lose the race after a wakeup. More contenders are covered by the proofs |
| `MCWaitExit` | `NoPanic`, `ParentAlive`, `AllTasksExact`, `NoMissedExit` | init and three processes: grandchildren, orphans, two children that exit together, pages and pids used again. Symmetric in the three |
| `MCConsole` | `SleeperReachable`, `RefinesFifo`; `DecodesKeys`; `LineShown` | two readers, a ring of 3 (2 bytes), reads of up to 2 bytes: positions wrap, the ring gets full and empty at every position. All possible sequences of 5 presses, repetitions and releases of a digit, enter, `l`, both shift keys, caps lock, the right ctrl key and the unknown enter key of the number pad. All sequences of 7 keys, tab and esc among them, into a line of 6, on a screen of 3 rows of 3 columns, from every position of the cursor: lines wrap, scroll, fill the buffer and have up to 3 words, for an `argv` of 2 |
| `MCPipe` | `ReadNeverWaits`, `WritesNotMixed`, `QueueButForClone` | two writers, one reader, writes larger than the ring; the byte that `clone` increments (byte 56 of 2048) is in the middle of the ring |
| `MCFiles` | `NoDangling`, `PipesApart`; `OneInodePerFile`, `RefsCounted`, `NoUseAfterFree` | two processes that both open, clone, redirect, read and close everything, a table of 2 slots, 2 descriptors each: both run out. One `dup2` that changes something, which is enough to spoil a slot while others are sound. two tasks with two references each to the same two files; 3 blocks of memory, so that freed memory is used again |
| `MCStorage` | `EntriesSound`, `BlocksExact`, `Durable`, `NoLeak`; `LayoutExact`; `MemoryApart`, `ArenasExact`, `FirstFit` | one maker with four paths, one of them in a subdirectory; one writer; 6 inodes, 2 in a block of the inode table; 6 data blocks of 3 entries, 2 to a file. The root directory gets too big, inodes and blocks run out, and freed ones are used again. The writer's inode 1 shares its block of the table with the root directory. `LayoutExact` is tried on the partition of `boot/boot.asm` and on 168 small ones around the sizes at which an area needs one more block. pages of 64 bytes, blocks of 16 and 32: three and one to an arena, requests of 16 and 17 bytes at the limit between them; a bitmap of 3 bits over 4 pages and runs of up to 3 pages, so that runs reach past the bitmap, and past the pool, as in the code (248 bits, 252 pages, runs of 12) |
| `MCIde` | `OwnInterrupt`, `CommandEnds` | two tasks on one channel, two sectors, reads and writes, a third task; each of them also sleeps in `wait`, and nothing needs to wake it; a time limit of two polls: every order of commands, interrupts, ticks and late interrupts, and disks that are busy too long |
| `MCUMem` | `NeverFatal`, `FramesApart`, `PrivateButForLateCopies` | init and two processes, one child at a time; a program without and one with a data segment, whose page the heap begins in; pages of two units, tables of four entries, 21 frames. `Reserve` stops forks and loads when frames run short, where the kernel panics; each process leaks its tables and a page of its stack, so that a behaviour has some four forks: enough for a child of a child, orphans, failed loads, and frames that come back to another process and another use |
| `MCPipeFull`, `MCDup`, `MCFork` | one property each, which is violated: see *What the runs show against the code* | the bounds of the passing run, or smaller |

Deadlock is checked in every run but those of `UMem`: the idle task and the timer always go on, and in the modules without
them some task always can. In `UMem` the frames are used up in the end, because of the leaks. After a failed ASSERT the machine spins; where the model says nothing of what follows (`InodeCache` after a use of freed memory) it stutters.

Type correctness is a conjunct of another invariant, and so are, in `Console`, `Pipe`, `Ide` and `KMem`, the ASSERTs. `DecodesKeys`, `LineShown` and `LayoutExact` compare
what sequential code computes with a definition of what is meant, for all inputs within the bound; they share a run with their neighbours. A behaviour of `MCConsole` has steps of
the decoder, of the ring or of the editor only (variable `part`), since each property is about one of them. So have `MCFiles` (slots or inodes) and `MCStorage` (disk or memory), where the files begin where the formatting ends.
Every property has a mutant in `PROJECT.json`: an operator next to the definition it replaces,
marked *Mutant* in the module, that is a plausible mistake in that code and makes TLC refute the property.

**Fairness.** The processor executes whatever task has it (`WF` of kernel steps and idle steps).
The interrupt controller latches an interrupt while interrupts are off, and each task returns
to user mode or the idle loop now and then, so timer and device interrupts, enabled again and again, are delivered (`SF`). The disk ends what it has begun (`WF`, in `Ide`); programs may sleep in `wait` there, and nothing makes them wake. No user
program owes a step; only `Pipe!FairSpec` adds a reader that keeps reading, as the premise
of the promise that it examines. That `wait` returns has no run of its own: `NoMissedExit` says that nobody sleeps beside a child that has
ended, and `ReadyRuns` that whoever was woken runs.

`LockReleased` is about the innermost lock only. `sema_up` leaves the value for whoever
tests it first, so the holder of an outer lock can lose the race for an inner one every time; the code
promises nothing there.

## What the runs show against the code

Three runs end in a violation, each a finding in `PROJECT.json`: `MCPipeFull`, `MCDup` and `MCFork`. The other configurations below are kept for the same purpose, to be run by hand on the module named with them: TLC finds the one property
violated that they state. In the passing run of the module the same steps happen, except that `MCOrphan.cfg`, `MCFailedExec.cfg` and `MCShrink.cfg` each leave out a rule of `UMem`; its property says what is left of the promise:

* `MCPipeFull`, `userprog/pipe.c:55`: the room in the pipe is computed one too large; the writer sleeps with
  `file_table_lock`, which the reader needs.
* `MCPipeClone.cfg` on `Pipe` (`RefinesFifo`), `task/task.c:239`: for a pipe the loop of `sys_clone` falls through to `++f_inode->open_cnts`, which is byte 56
  of the ring: an unread byte there changes. `QueueButForClone`: nothing else does.
* `MCDup`, `userprog/pipe.c:70`: `dup2` counts nothing, and `command/shell.c:165-187` closes after it: the ASSERT of `fs/file.c:142` fails. So it does when a regular file
  that was shared by `clone` is closed twice (`file.c:155`). `NoDangling`: descriptors of other slots are spared, until a slot with a wrong count frees the page of a pipe.
* `MCReopen.cfg` on `InodeCache` (`OpensTheFile`), `fs/inode.c:47`: `inode_open` waits for an inode that it has not counted yet; the last `inode_close` frees it (and then releases the lock in the
  freed memory, line 63). `NoUseAfterFree`: freed memory is touched nowhere else.
* `MCLostInode.cfg` on `MCStorage` (`NothingLost`), `fs/bio.c:28-32`: `block_modify` reads a block, sleeps and writes it back. Two tasks that change inodes in the same block of the inode table
  (32 inodes) lose one of the changes. `Durable`: only the inodes written in between are set back.
* `MCIdeAlone.cfg` on `Ide` (`CommandReturns`), `device/timer.c:52`: `busy_wait` sleeps by yielding with interrupts off. When the other tasks are asleep, as `init` and the shell are in `wait`, nobody counts the tick.
  The emulated disk is not busy when it is polled, which hides this. `CommandEnds`: this, and a disk that is busy for more than 30000 polls, are the only ways not to end.
* `MCKMemPool.cfg` on `KMem` (`RunsInPool`), `lib/bitmap.c:32`: a run of pages may end behind the bitmap and, from 6 pages on, behind the pool, in the first frames of user programs (`memory.c:329`); `inode.c:139,164` ask for up to 12. `MemoryApart`:
  shorter runs and blocks lie in the pool.
* `MCFork`, `kernel/memory.c:281`: a page in which both a segment and the heap lie is taken for heap when it is first touched there, and comes empty. The child of `snake.c:79` loses `seed` in this way,
  as it calls `printf` first. `PrivateButForLateCopies`: this, and what a parent writes before its child has copied the page (line 275), are the only differences to a fork.
* `MCOrphan.cfg` on `MCUMem` (`NeverFatal`), `kernel/memory.c:275`: the child of a process that has exited copies its pages from `init`. Rule `stay`.
* `MCFailedExec.cfg` on `MCUMem` (`NeverFatal`), `kernel/memory.c:293-297`: a process without a heap, as after a failed `execv`, moves the end of its parent's heap, in its own tables; if the parent has none either the loop never ends. Rule `failed`.
* `MCShrink.cfg` on `MCUMem` (`FramesApart`), `kernel/memory.c:230-252`: `page_unmap` frees the frame and keeps the entry. A heap that shrinks by a page and is used again writes to a frame that may be another
  process's. Rule `heap`. Two calls of `printf` are enough once their buffer crosses a page.

Disagreements seen without a configuration of their own; the models show them with other constants:

* `userprog/wait_exit.c:105`: a child that has already ended is handed to init without waking init, which goes on
  sleeping in `wait()`. State `NoMissedExit` for `init_proc` too, in `MCWaitExit`.
* `device/ioqueue.c:40`: a second console reader, queued at `iosema`, sleeps without looking at the ring again,
  beside unread bytes, until the next key. Check that nobody in `consumer` sleeps while the ring is not empty, in `MCConsole`.
* `device/ide.c:136`: with a disk that interrupts for each sector of a write (`MidWriteIrq = TRUE`) the first interrupt ends the wait, and the
  channel is released while the disk still writes: `OwnInterrupt` fails. The emulated disk has written when it interrupts.
* `userprog/wait_exit.c:39`: `sys_wait` frees a page table that differs from its caller's; two children that share one
  (`CLONE_VM`) free it twice. Set `CloneFlags = {"fork", "CLONE_VM"}` in `MCWaitExit` and leave `AllTasksExact` out: `NoPanic` fails at the ASSERT of `memory.c:56`.
* `fs/inode.c:106-109`: a file that needs several blocks and gets only some of them leaves these allocated. Set `WriteSizes = {4}` in `MCStorage`: `BlocksExact` fails.
* `fs/dir.c:64-66,83`: `path_prase` of a path whose directory does not exist leaves its loop with `inode_lock` held; `inode_close` waits for it for ever, and
  so does everybody who looks into that directory. Check that `pc[maker]` is never `"stuck"` in `MCStorage`.
* `fs/dir.c:109-113`: `mkdir` deletes its entry and adds it again without looking at the result. Set `PerBlock = 2`, `NDIRECT = 3`, `WriteSizes = {1}` in `MCStorage`:
  between the two the writer takes the block that the directory lost, the entry is gone and `NoLeak` fails.
* `fs/dir.c:144`: a directory is taken for empty when it has the size of two entries. One whose `.` and `..` found no room, and that got two other entries later, is removed with them. The proof of `NoLeak` needs `[][~AddIgnored]_vars` for this, too.
* `fs/file.c:92`: `unlink` frees the number of the inode before it removes the name, and frees the number `dev` for a device node, which was never
  allocated. Not shown: `Fs` has one maker and no device nodes.
* `kernel/memory.c:300`: `brk` may go up to one page below `DEFAULT_STACK`, over the lower page of the stack.
* `userprog/wait_exit.c:83` says that all four levels of tables should be freed; no table is, as its entries stay, and of the stack only one page is (line 97). `exec` and `page_map` lose the frame that
  they took for a page that is there already (`memory.c:218,222`).
* `userprog/exec.c:130-131`: a program with fewer segments than the one before keeps that one's last entries in `addr_space`. The part of a segment beyond `p_filesz` is read from the file too, not cleared.
* `fs/file.c:119-121`: with a full table and a device, `sys_open` writes `f_pos` of the slot behind the table before it looks at the index.
* `device/keyboard.c:147-149`: with both shift keys down the release of one ends the effect of the other. Let `Possible` of `Keyboard` allow it: `DecodesKeys` fails.
* `device/keyboard.c:237`: a caps lock key that is held down and repeats changes `caps_lock_status` each time. `Possible` leaves that out, too.
* `command/shell.c:49-51`: tab and esc are stored and echoed like letters, but tab moves the cursor to a stop and esc makes the next character a colour: from there on the screen does not show the line (`LineShown` says so).
* `command/shell.c:24`: the line that fills the buffer has its next key stored one byte behind it, and no NUL.
* `command/shell.c:73,80`: the number of words is tested after the word is stored, and with `>`: words 17 and 18 are stored behind `argv`. A line of blanks has no first word, and `cmd_execute` compares NULL with the built-in commands.
* `fs/fs.c:53-55`: `bitmap_format` writes the first block of its buffer to all blocks of the bitmap, which is right for up to 4096 blocks; the partition has 2264. Drop the limit from `FormatAssumption` and
  set `SectorCounts = {40}` in `MCStorage`: `LayoutExact` fails.
* `fs/fs.c:61`: the magic number is never written, so every boot formats the disk; there is nothing to recover after a crash.

## Proofs

The theorems hold for every set of tasks, every priority in 0..255 and every value of the constants that the named
assumptions allow. These are as in the code: `SchedAssumption` (idle and init are two tasks), `SyncAssumption` (a lock exists), `WaitExitAssumption` (finitely many tasks and a pid for
each of them: `pid_bitmap` has 1024 bits and there are 252 pages for tasks), `IdeAssumption`, `InodeCacheAssumption` (finitely many tasks), `IoQueueAssumption` (a ring of at least one place),
`ConsoleAssumption`, `PipeAssumption` (bytes are the numbers below some limit, since `sys_clone` adds one to a byte), `KeyboardAssumption`, `FileTableAssumption`, `FsAssumption` (inode 0 and
the two files that it starts with, room for them, paths of names), `FormatAssumption` (one partition is bootable and begins with a block, partitions do not overlap, the tables fit into it, and the block bitmap fits one block), `KMemAssumption` (sizes up to the largest block, a bitmap that is not longer than the pool: 248 bits, 252 pages; nothing about the length of runs). TLC evaluates all of them on the runs. Some
components are correct only under a condition on the programs or the disk; it is a hypothesis of their theorems, named and true
in the run, and *What the runs show* says what happens without it:

| Hypothesis | Says | Justified by |
|---|---|---|
| `ForkOnly` of `WaitExitProofs` | nobody asks `clone` for `CLONE_VM` | `init.c:9`, `shell.c:113` and `snake.c:79` pass 0 to `clone` |
| `OneWriteIrq` of `IdeProofs` | the disk interrupts once for a write, when it has written | the emulated disk |
| `SmallWrites` of `StorageProofs` | no write needs more than one further block | a write of at most a block; else the blocks of a write that fails half-way are lost (`inode.c:106-109`) |
| `[][~AddIgnored]_vars`, for `NoLeak` only | the calls of `dirent_add` whose result `sys_mkdir` ignores find room | `dir.c:109-113`: nothing else ensures it |
| `IsFiniteSet(Tasks)`, for `BoundedBypass` only | | 252 pages for tasks |

* `SchedProofs`: lemmas about appending to, pushing on, popping and removing from a list without duplicates, then one
  lemma for each function of the scheduler and the semaphores: it preserves `SchedInv` under its precondition, and says what
  happens to status, queue and running task. `Sleeps(k, t)` is that `t` is blocked and in no queue, and `SleepersMove` how a call changes who sleeps. `RingPut` and `RingGet` say what storing
  and taking a byte do to the sequence of bytes between `tail` and `head`, round the end of the buffer. They are used by all modules on the scheduler.
  Then `Task`: `ClientInv == SchedInv(ks) /\ ClientPcOK` is inductive. `SchedInv` is types, no panic, one running task, a sound queue, and an idle task
  that runs, is queued or is blocked. `ClientPcOK` ties the labels to the tasks: only idle is in the idle loop, and idle is never
  elsewhere; without it idle could exit or wait, and `schedule()` would fail its ASSERT on an empty list. Results: `TaskInvariant`,
  `TaskNoPanic` (with types), `TaskRunQueue`, `TaskIdleAvailable`. `TaskBoundedBypass`: the delay of a queued task is the number of pairs of a task that is not behind it and a tick
  that this task has left. No step adds such a pair: who is woken goes to the front but was not behind, and who gets a new slice goes to the end (`Shortens`). A tick takes one away (`TickStrict`).
* `SyncProofs`: no property of `Sync` is inductive alone. `Inv` adds to `SchedInv`, `MutualExclusion`
  and `NoLostWakeup`: `PcOK` and `LocksOK`, the labels and types; `StatusOK`, nobody hangs or waits for a child, and who is inside a
  blocking call exists; `WaitersAsleep`, whoever is in a list of waiters is blocked at the loop of
  `sema_down`, wants that lock and is not queued elsewhere. `WaitersAsleep` is what makes the `task_unblock` of `sema_up` safe, and it
  implies `TagInOneList`. One lemma per action. Results: `SyncNoPanic` (with types), `SyncMutualExclusion`, `SyncTagInOneList`, `SyncNoLostWakeup`.
  Under `Inv` every step of `Sync` is a step of `Task` or a stutter (`SyncRefinesTask`): the
  semaphores keep the contract of the scheduler, in particular `MayUnblock`.
* `WaitExitProofs`: `ParentAlive` is inductive only with `RootsOK` (init never exits, so that who adopts is alive) and `StatusOK` (a status says at
  which label a task stands). `StatusOK` also has the fact that carries `NoPanic`: a task that waits is in no list when a child hangs and wakes it,
  since the step that wakes it also dispatches it. `ListOK`, `PidsOK`, `PagesOK` say that list entries, pids and page tables are
  in one-to-one correspondence with the live tasks; that `sys_wait` frees a page that is allocated, and only its child's, follows.
  `ChildrenOK` is `NoMissedExit` without the list. Results: `WaitExitInvariant`, `WaitExitNoPanic`, `WaitExitParentAlive`, `WaitExitAllTasksExact`, `WaitExitNoMissedExit`.
* `IdeProofs`: `OwnInterrupt` relates the lock, the driver and the disk at any time; the inductive invariant lists the phases. At each label of the
  one task in the channel (`OwnerOK`), `ReadOK` and `WriteOK` give the possible values of `expecting_intr`, the state of the disk, `disk_done` and the
  pending interrupt; `FreeOK` says that nothing is left over for the next owner. A late interrupt is harmless for this reason: in no phase is one pending that the
  driver would take for another. `TimeOK` bounds what is left of the time limit of `busy_wait`, so that a step that polls is never out of range. The proof allows every user to sleep in `wait` at any time. Results: `IdeInvariant`, `IdeOwnInterrupt`.
* `FilesProofs`, `InodeCache`: any task may open, close, use and unlink any inode, one that it has open already too. `Unique` (one inode per number in the list) and `RefsCounted` hold always. The rest of `Inv` holds until an
  `inode_open` that waited for an inode's lock goes on with another inode than its file's (`astray`): `FetchOK`, who reads an inode from the disk holds the list, and the inode is not in it; `LockOK`, who works on or removes an inode holds its lock, and who has
  freed it but not called `sema_up` yet (`inode.c:61-63`) has its lock in a block that is free; `HeldOK`, a reference leads into the list. `NoUseAfterFree` says that up to there references and work are on inodes of the list, and that the one access to freed memory is this
  `sema_up`, to a block in which nobody works. No rule for the tasks is assumed; that `inode_open` does go astray is `MCReopen.cfg`. Results: `InodeCacheInvariant`,
  `InodeCacheOneInodePerFile`, `InodeCacheRefsCounted`, `InodeCacheNoUseAfterFree`.
* `FilesProofs`, `FileTable`: any process may close, redirect, clone and exit. `spoilt` holds the slots whose count `dup2` has left behind, and those of regular files that a `clone` shares; the invariant is about the other slots in use. `CountsOK`: such a slot counts at least its
  uses. `SlotsOK`: it is filled (`FilledOK`), and no other one has the page of its pipe. `RegOK`, `OpensOK`: the inode counts at least the slots it has, spoilt or not, and the calls of `open` that will fill one, so that closing a spoilt slot takes no inode from a sound one; one whose pipe loses its page this way counts as spoilt from then on.
  `PcOK`: what a call has found out when it goes on. Results: `FileTableInvariant`, `FileTableNoDangling`, `FileTablePipesApart`.
* `ConsoleProofs`: `Inv` says that one task at most is in `ioq_wait` and that it holds `iosema` (`HolderOK`), that `consumer` points to it while it sleeps (`ConsumerOK`), and that each sleeping
  reader is the consumer or in the list of `iosema` (`SleepOK`, `WaitersOK`). Results: `ConsoleInvariant`, `ConsoleSleeperReachable` and the
  refinement `ConsoleRefinesFifo`: Console implements `BoundedFifo`, for every size of the ring. `Keyboard`: the handler remembers flags, the specification looks at the history of the keys; `KeyboardInv` says that each flag
  agrees with the keys that are down and pressed so far, and that no half of a two-byte code is left over; of a pair of keys one at most is down. Result: `KeyboardDecodesKeys`.
* `PipeProofs`: `RunOK`, nobody loses the processor between the test of the ring and its use; `HolderOK`, a writer has `file_table_lock` also while it sleeps; `SleptOK`, only a sleeping writer has
  `iosema`; `TakeOK`, a reader goes on with the lock free, so that there is no such writer, and with as many bytes in the ring as it has counted. The four depend on each other. Results:
  `PipeInvariant`, `PipeReadNeverWaits`, `PipeWritesNotMixed`, and `PipeQueueButForClone`: every step is one of `BoundedFifo` or of a `clone` that increments
  the one unread byte at `open_cnts_pos`; nothing is assumed about where that byte lies. `MCPipeClone.cfg` shows that `clone` does change an unread byte.
* `StorageProofs`, `KMem`: the invariant relates the bitmap to the runs of pages that were given out and the free list of each arena to its blocks. `FirstFit` is about a loop that looks for a run of free bits.
  `MemoryApart` claims of runs up to `SafeRun` pages (5 in the code) that they lie in the pool, and of all runs and blocks that they are apart; no assumption bounds the runs that are asked for, and `MCKMemPool.cfg` shows a longer one behind the pool. Results: `KMemInvariant`,
  `KMemMemoryApart`, `KMemArenasExact`, `KMemFirstFit`.
* `StorageProofs`, `Fs`: a call of the maker is up to ten steps with writers between them. `FsInv` has the types and labels (`TypesOK`, `PcOK`), the blocks and sizes of files (`OwnersOK`, `SizesOK`), the names in
  directories and what they lead to (`NamesOK`, `LinksOK`), what the call in progress has done so far (`OpOK`) and which locks it holds (`LocksOK`). One lemma per action. Results: `FsInvariant`, `FsBlocksExact`, `FsEntriesSound`.
  `FsDurable` adds `TableOK`: the table differs from what the kernel has only in the inode that a call is changing, or in one that is `lost`: the other tasks' write of the same block was overwritten with an older copy (`bio.c:28-32`). Any number of inodes may share a block; nothing keeps maker and writer apart, and `MCLostInode.cfg` shows such a loss. `FsNoLeak` adds `LeakInv`, which knows for each allocated inode its kind (`KindsOK`),
  for each directory where it hangs (`PlacesOK`) and that an inode without a name is the one of the call in progress (`UsedOK`).
* `StorageProofs`, `Format`: arithmetic of quotients, for any disk that `FormatAssumption` allows. Result: `FormatLayout`.

Each `Inv` was checked by TLC on the instance of its run before it was proved.

Only model-checked:

* Liveness (`LockReleased`, `ReadyRuns`, `CommandEnds`, and the violations of `WriteReturns` and `CommandReturns`): out of the reach of this prover.
* `NeverFatal`, `FramesApart` and `PrivateButForLateCopies` of `UMem`: its handlers are folds of page table operations over ranges of pages, and that no frame runs out is a count over all processes.
* `LineShown` of `Shell`: a fold over the keys compared with a screen that is itself a fold over characters.

The library's induction theorems take an operator as a parameter, which these provers cannot instantiate. Where a definition goes through numbers (runs of free bits, `FlattenSeq` of what the keys mean, the lowest free
number) the proofs take the least number for which the claim fails instead.

## Not modelled

* Boot, GDT/TSS, the mapping of physical memory, the programming of timer and interrupt controller: run once, before there is a second task.
* `argv`, which `execv` passes on as a pointer into the memory of the old program, and the fields of the ELF header.
* String and formatting functions, and the numbers and colours on the screen: sequential, without shared state.
* The pipelines and built-in commands of the shell, `ls`, `echo` and the game: they tell which calls are made in which order (`init.c` never exits; `shell.c` redirects and closes).
* Register frames and stack layout (`switch.S`, `intr_entry.S`, `system-call.S`), the TLB.
* Threads (`CLONE_VM`) in `UMem`: no program makes them; `WaitExit` has their page tables.
* File positions, the contents of regular files, `stat`, device nodes in directories.
* `Ide` has requests of less than 256 sectors, one turn of the loops of `ide_read` and `ide_write`; `Console` leaves out `file_table_lock`, which `sys_read` gives back before `console_read` may sleep;
  `inode_size_change` of `Fs` takes or gives back its blocks in one step, which for the writes of at most a further block (`SmallWrites`) is one block.

## Plan

The modules were written in this order, the core first: `Sched` and `Task`, `Sync` on top of them (with proofs and the
refinement between the two), `WaitExit`, `Console` and `Pipe` on the same scheduler against one abstract queue, then the file
system from the descriptors down: `FileTable`, `InodeCache`, `Fs`, `Ide`; `KMem` below everything; then user memory, `UMem`, against
`PrivateMemory`, and the functions at the ends of the system, `Keyboard`, `Screen`, `Shell` and `Format`. The proofs follow the same order. What is left:

1. Proofs about `UMem` and `Shell`; `SyncRefinesTask` for the other clients of the scheduler.
2. `Fs` with two makers and device nodes, composed with `InodeCache`.
