# A TLA+ verification project for the operating systems labs and their xv6

The repository holds eight labs of an operating systems course and the xv6
kernel that they extend (system calls `getppid`, `pscnt`, `pgcnt`, `trace`,
a round-robin user-level thread library). This directory models its core,
checks the models with TLC and proves theorems about them with TLAPS.

| file | content |
| --- | --- |
| `Log.tla`, `AtomicDisk.tla` | the write-ahead log (`log.c`), and the atomic disk it implements |
| `Proc.tla` | processes, scheduling, sleep and wakeup (`proc.c`, `trap.c`, `sysproc.c`, `init.c`) |
| `Pipe.tla`, `Channel.tla` | pipes (`pipe.c`), and the FIFO channel they implement |
| `FileSys.tla` | inodes, directories, path walks, file table and their system calls (`fs.c`, `file.c`, `sysfile.c`) |
| `BufCache.tla` | buffer cache, sleep locks, disk queue (`bio.c`, `sleeplock.c`, `ide.c`) |
| `FileData.tla` | blocks and offsets of files (`fs.c`, `file.c`) |
| `Memory.tla` | physical pages and address spaces (`kalloc.c`, `vm.c`, `exec.c`, `proc.c`, `syscall.c`) |
| `Spinlock.tla` | spin locks and interrupt nesting (`spinlock.c`) |
| `Console.tla` | console input (`console.c`) |
| `Umalloc.tla`, `UThread.tla` | user-level allocator and threads (`umalloc.c`, `uthreadlib.c`, `uthread.c`) |
| `Shell.tla` | the shells (`xv6/sh.c`, `lab-02/sh.c`, `lab-05/sh.c`) |
| `Grep.tla` | `grep.c` with `strchr()` and `memmove()` of `ulib.c` |
| `ForkPrio.tla` | `lab-03/forkprio.c` |
| `WordStack.tla`, `BoundedBuffer.tla` | `lab-05/wordstack.c`, `lab-05/buf.c` |
| `PageSim.tla` | `lab-07/sim.c` |
| `LogProofs.tla`, `ProcProofs.tla`, `PipeProofs.tla`, `BufCacheProofs.tla`, `FileSysProofs.tla`, `MemoryProofs.tla` | the theorems about the module of that name |
| `KernelProofs.tla` | the theorems about `Console`, `FileData`, `Spinlock` and `Umalloc` |
| `LabProofs.tla` | the theorems about `WordStack`, `BoundedBuffer`, `ForkPrio`, `UThread` and `PageSim` |
| `MC*.tla`, `MC*.cfg` | instances for TLC |
| `PROJECT.json` | components, runs, mutants, map to the source, findings, hazards, theorems |

Run `tlc -config MCLog.cfg MCLog` for a run, `tlapm LogProofs.tla` for the proofs
(`FileSysProofs` and `MemoryProofs` are the longest, some minutes each).

## Inventory

| component | state | operations | hard because | correct when |
| --- | --- | --- | --- | --- |
| Log (`log.c`) | header in memory and on disk, log area, `outstanding`, `committing` | `begin_op`, `end_op`, `log_write`, `commit`, recovery | calls share a transaction; power fails between two block writes | a crash leaves whole groups; reserved space suffices; sleepers are woken |
| Processes (`proc.c`, `trap.c`) | process table, pid counter, what each CPU runs | `fork`, `exit`, `wait`, `kill`, `sleep`, `wakeup`, `sched`, `scheduler`, clock | `ptable.lock` is handed over across context switches; unlocked reads | one CPU per process; no lost wakeup; no lost child or slot; the killed exit |
| Pipes (`pipe.c`) | ring, two wrapping counters, two open flags | `pipealloc`, `piperead`, `pipewrite`, `pipeclose` | several readers and writers, `kill`, close in any order | FIFO; sleep only for a reason; freed exactly when unused |
| Buffer cache and disk (`bio.c`, `sleeplock.c`, `ide.c`) | LRU list, reference counts, flags, request queue | `bget`, `bread`, `bwrite`, `brelse`, `iderw`, `ideintr` | recycling against pins; interrupts | one buffer per block; a dirty buffer is never recycled; every request is woken |
| Inodes and directories (`fs.c`, `sysfile.c`) | inode cache, link counts, directory entries | `iget`, `ilock`, `iput`, `namex`, `dirlink`, `link`, `unlink`, `create` | lock order; references that outlive the name | no self-deadlock; link count equals names; freed when last used |
| File table (`file.c`) | reference counts, offsets, descriptors | `open`, `dup`, `read`, `write`, `close` | sharing across `fork` | the count equals the descriptors |
| File blocks (`fs.c`) | bitmap, direct and indirect blocks | `balloc`, `bfree`, `bmap`, `itrunc` | limits of the indirect block | a block has one owner |
| Memory (`kalloc.c`, `vm.c`, `exec.c`) | free list, page tables, sizes | `kalloc`, `allocuvm`, `copyuvm`, `growproc`, `exec` | failure half way | a page has one owner, none leaks; accepted arguments are mapped |
| User-level allocator (`umalloc.c`) | circular free list | `malloc`, `free`, `morecore` | joining and splitting in any order | blocks tile the heap |
| Spin locks (`spinlock.c`) | holder, `ncli`, `intena` | `acquire`, `release`, `pushcli`, `popcli` | handlers take the locks of the code they interrupt | no CPU spins for its own lock; interrupts come back on |
| Console (`console.c`) | input ring with three indices | `consoleintr`, `consoleread` | editing while reading, `^D` | r, w and e stay in order and within the ring |
| User-level threads (`uthreadlib.c`) | thread table, current, last index | `thread_create`, `thread_yield`, `thread_exit`, `thread_schedule` | the sole runnable thread | threads take turns |
| Word stack, buffer (`lab-05`) | shared array, `free`, two semaphores, mutex | push, pop, producer, consumer | index read outside the mutex; early destruction | rows and permits agree; all items read in order |
| Page simulator (`lab-07/sim.c`) | frames, page tables, time stamps | one reference | stale tables | evicts what FIFO or LRU evicts |
| Shells (`sh.c`) | descriptors | parser, `runcmd`, `main` | recursion, redirections that fail | a child execs what was typed |
| grep (`grep.c`, `ulib.c`) | buffer, unfinished line | reading loop, matcher | lines cut by the buffer | prints the lines that match |
| forkprio (`lab-03`) | pids, signal handlers | `fork`, `kill`, two handlers | signals at any moment | no child is left running |
| Dispatch, mkfs | | | | partly: argument checks in `Memory`, the image as initial states of `FileSys` and `FileData` |
| Message box, canvas, threads exercises, boot, devices, user programs | | | | not modelled, see the end |

Components interact by calls under locks (`exit` calls `pipeclose` and
`begin_op`; everything that blocks calls `sleep`), through shared state (the
buffer cache under the log) and through interrupts (clock, disk, keyboard).

## Modules and how they correspond to the code

**Log.** One step is one critical section under `log.lock` or one disk write.
`lh` is `log.lh`, `dhead` the header block on disk, `dlog` the log blocks,
`disk` the home blocks and `cache` what `bread()` returns. `log_write()` is two
steps, `LogWriteCheck` and `LogWriteAppend`, because its panics are tested
before the lock is taken; the caller holds the buffer in between. `Recycle`
stands for `bget()` giving a clean, unlocked buffer to another block. `Crash`
may happen at any moment, recovery included; a panic ends in a reboot too.
`OpBlocks` is how many different blocks one call logs. `FootprintFits` says
that it is less than the reservation, by enough for the header block:
`LOGSIZE` is 30 and `mkfs` makes a log area of 30 blocks *including* the
header, so `log_write()` panics at 29 entries, one less than what `begin_op()`
hands out. Every call of the repository logs at most 7 blocks, so it holds.
It is what the proofs need, not more than that: an instance may fall short of it
and still have the space, as that of the run `log` does. `Contents` says which
contents each home block may get, so that a run can have more blocks than values.

**Proc.** One step is one critical section under `ptable.lock`, split where a
process leaves its CPU: `Exit`, `Yield`, `SleepBlock` and the sleeping branch of
`WaitScan` keep the lock, `Sched` switches to the scheduler, `SchedulerRun`
hands the lock to the next process and `Resume`, `WaitScan` or `SleepResume`
releases it. What the code does without the lock (giving back the slot of a
failed `fork()`, the checks of `killed` in `trap()`, the two loads of
`getppid()`) is a step of its own. A clock interrupt comes only where
`pushcli()` allows it (`IntOn`). `left` replaces `n - (ticks - ticks0)`. Init
runs its own program (`init.c`); the others make arbitrary calls. `exit()` is
seen from the point where its files and directory are closed.

**Pipe.** One step runs from taking `p->lock` to the return of the call or to
the call of `sleep()`; the sleep is a step of its own during which the lock is
held, since `kill()` does not take it. `CounterMod` is the 2^32 of the `uint`
counters. `holds` says whose descriptor is open; `Close` is `fileclose()` on the
last descriptor of a process, by `close()` or by its `exit()`.

**FileSys.** One step runs from one acquisition of an inode lock to the next.
`iput()` is two steps, because it drops `icache.lock` between reading `ref` and
decrementing it; a walk is one step per path element. `dinode` and `dir` are the
disk, `cache`, `ref` and `lock` the in-memory inodes, `file` and `ofile` the
tables; `st[p]` holds the local variables of the call under way, and its `puts`
the inodes it has still to `iput()`. A directory is a function from names to
inode numbers: the position of an entry and the slot of a cached inode are
abstracted, and the log, which lets several calls run at once, guards nothing.
`Menus` bounds the calls made in one behaviour.

**BufCache.** One step is one critical section of `bcache.lock`, of the spin
lock inside a sleep lock, or of `idelock`. `lru` is the list of `bcache.head`
(`ToFront` is the unlinking and relinking of `brelse()`), `idequeue` the driver's queue with `active` the request the disk works on, and
`latest` a history of what was last put into each block. `LogWrite` pins a
buffer by `B_DIRTY`, at most `MaxPinned` of them. What acts is a *use* of a
buffer, from its `bget()` to the end of its `brelse()`: a process that holds two
buffers (`bmap()`, `itrunc()`, `write_log()`) makes two uses, and the order in which
it goes on with them is left open, so every behaviour of the code is one of the
model. The disk reports no errors; in the code a failed `idewait(1)` leaves a buffer
valid without its data.

**FileData.** One step is what happens under one `ilock()`: a `read()`, one
transaction of a `write()`, a truncation. `addr` holds the direct addresses,
that of the indirect block and those inside it; `bitmap` the blocks in use;
`off` the offsets of the open files, which may share an inode. The image starts
with a file that `mkfs` has filled with `iappend()`. A file is truncated only
while no `write()` to it is under way, since `iput()` frees an inode nobody uses.

**Memory.** One step is one `kalloc()`, so that `fork()`, `exec()` and `sbrk()`
of two processes interleave and any of them can run out of pages half way
(`build` is what is under way), or, for `exec()`, end there for any of its other
reasons (`ExecBad`); giving pages back is one step. Addresses count
units of `1/PGSIZE` page, so sizes that are no multiple of a page occur. The
page without `PTE_U` under the stack is `guard`. A process that has shrunk to
size 0 faults at its next instruction and makes no further call. Contents of
pages and the TLB are left out.

**Spinlock.** `pushcli()`, the `xchg`, the release and `popcli()` are steps of
their own and interrupts fall between them when enabled. Code takes nested
locks in increasing order, the rule its callers follow; `holding()`, the panics
that use it and the `intena` that `sched()` saves are left out. **Console.** One
step is one critical section of `cons.lock`: one key, or `consoleread()` up to its
return or its check of `killed`. From the check to `sleep()` it keeps `cons.lock`
(`pc` is `block`): keys wait, `kill()` does not.

**Umalloc.** The list is followed through `ptr` as the code does; `malloc()` is
a search (`Take`) or `MoreCore` and another search. `malloc(0)` is a request of
one unit; sizes at which the arithmetic overflows are left out. **UThread** runs the program
`uthread.c`: `main` creates threads and calls `thread_schedule()`, each thread
yields a number of times and exits.

**WordStack.** A command is a process; waiting for the semaphore, locking, the
critical section and the post are steps, and `-r` computes its row in the first
of them, as the code does. The mutex is not process-shared: a process that finds
it locked sleeps for good (`pushLost`, `popLost`). `-c` and `-d` are assumed to
be run while no other command is under way, and words to fit their row: the copy
loop of `-w` has no bound, and what a longer word overwrites is not modelled. **BoundedBuffer.** `main` may destroy
the mutex at any moment at which it is free; what POSIX leaves undefined is what
glibc does (`EBUSY` when in use, otherwise `EINVAL` from then on).

**PageSim.** One step is one reference of the input. `used` and `fullAt` are
histories that state FIFO and LRU independently of the code's time stamps.

**Shell.** The parser is a set of recursive operators over the tokens that
`gettoken()` returns; `main()` and the child that runs a line are actions, where
`open()` and `pipe()` may fail. `lab` selects the smaller grammar of the labs.
The reference that `ExecsWhatWasTyped` compares with (`OfFirst`, `FdOf`) is stated
over positions in the line, without the parser.

**Grep.** One step is one `read()` and the work on what it gave: all that was
asked for from a file, any part of it from a pipe. The matcher follows the code;
`Matches`, which the property uses, says what a pattern means by cutting the line
into stretches, without any matching order.

**ForkPrio.** Each `fork()`, `sigaction()` and `kill()` is a step; a signal is pending
until it is delivered, by handler or by default action. `Terminal` is `^C`.

**AtomicDisk** and **Channel** state what the log and the pipe promise. The
refinement mappings are `store <- Durable` (the disk that a reboot would
recover), `mem <- cache` once booted, and `queue <- Contents` (the ring from
`nread` to `nwrite`).

Operators marked *Mutant* are plausible bugs. Each property is paired in
`PROJECT.json` with one that breaks it.

## Runs

| run | checks | instance |
| --- | --- | --- |
| `log` | `TypeOK`, `SpaceReserved`, `NoStrandedSleeper`, `QuiescentIsDurable`, `ImplementsAtomicDisk`, `SleeperWakes`, `RecoveryCompletes` | 2 processes, 4 blocks (2 of them with 2 values), log and header array of 5, reservation 2, 1 block per call |
| `proc` | `OneCpuPerProcess`, `NoMissedChild`, `NoMissedTick`, `ProcessTree` | 2 CPUs, 4 slots, 4 pids |
| `proc_live` | `TypeOK`, `KilledExits`, `OrphansReaped` | 1 CPU, 3 slots, 4 pids |
| `proc_kill` (violated) | `UnusedNotKilled` | 2 CPUs, 3 slots |
| `proc_getppid` (violated) | `GetppidParentExists` | 2 CPUs, 3 slots |
| `pipe` | `SleepersHaveReason`, `FreedWhenUnused`, `ImplementsChannel` | 2 writers, 2 readers, ring of 2, counters modulo 4, a writer and a reader can be killed |
| `pipe_kill` (violated) | `KilledLeavesPipe` | 1 writer, 1 reader that can be killed |
| `fs` | `ReferencesExact`, `CacheCoherent`, `NamesCounted`, `TreeKept` | 2 processes, 3 inodes, names `a`, `b`, `.`, `..`, 3 inode slots, 1 open file, 2 descriptors, four menus of calls |
| `fs_deadlock` (violated) | `NoLockCycle` | the same; both processes create, unlink and close one name |
| `fs_links` (violated) | `NamesAreLinks` | 4 inodes and slots; nested directories, and a `mkdir` through `..` |
| `buf` | `ReadsLatest`, `BufSleepersWait`, `UsersCounted` | 3 uses, 4 blocks, 3 buffers, 2 values, 1 pinned block |
| `services` | `NoSelfDeadlock`, `InterruptsRestored` | 2 CPUs, 2 locks, one handler level |
| | `ReadersSleepOnEmpty`, `InputNeverStuck` | ring of 3, counters modulo 6, 2 readers of up to 2 bytes |
| | `PagesConserved`, `KernelAccessMapped` | 2 processes, 12 pages, 4 user pages of 2 units, 2 per page table, `sbrk` of up to 2 units |
| | `BlocksExact`, `TransactionFits` | 1 direct and 3 indirect blocks of 2 bytes, 5 data blocks, transfers of 1 and 7 bytes, 2 processes, 2 open files |
| | `HeapTiled` | heap of 9 units grown by 3, requests of 1 to 4 |
| | `RoundRobin` | 5 entries, up to 5 calls of `thread_create()`, up to 2 yields |
| | `RowsConserved` | 3 processes, 2 rows |
| | `ConsumerReadsAll` | rings of 1 to 3, up to 5 items |
| | `VictimInOrder` | 2 frames, 2 disk slots, 5 pages, 7 references |
| | `ExecsWhatWasTyped` | every line of up to 4 tokens, longer simple commands and blocks; 4 arguments |
| | `GrepPrintsMatches` | buffer of 5; every text of up to 5 characters, every pattern of up to 3 with short lines |
| | `NoChildLeft` | up to 3 children |

The twelve modules of `services` share no state. The variable `service` picks one
and only that one moves, so the reachable states are those of each module in
turn; their invariants are evaluated on all of them.

Why the bounds are enough. *Log*: two calls overlap and absorb each other's
blocks. `log_write()` panics at 4 entries and there are 4 blocks, so it is the
reservation that keeps the log short: with one block logged a second call still
joins the group (1 + 2·2 = 5), with two it has to wait (2 + 2·2 > 5), and the group
ends with 3 entries. If `begin_op()` forgot to count the new call (the mutant
`ReservedForOthers`), the log would fill up. A header of up to three blocks gives a crash room
before, between and after every write. *Proc*: with four slots init, a process asleep in `wait()`,
its child and its grandchild coexist, which is what the hand-over of dead
orphans needs; in `proc_live` there is one pid more than slots, so the table
is full once and slots are reused. Past `MaxPid`, `allocproc()` acts as if the
table were full. `proc` leaves out `getppid()` and faults (`Calls`), which
`proc_live` includes. *Pipe*: the ring is full after two bytes and the counters
wrap after four, so a full and an empty ring occur on both sides of the wrap; a
write of two bytes into a ring with one free byte blocks half way. One process of
each side can be killed at any moment; `pipe_kill` shows that this can be in vain.
*FileSys*: three inodes are the root and two more, enough for a file under two
names, a directory inside a directory, and an inode number that is freed and
used again while another process still walks over it; the inode table and the
file table run out. A fourth inode is what `fs_links` needs: two removed directories,
the new one that has taken a number of theirs and the one made inside it. Each menu is a family of calls that interact: two names of
one file with descriptors, a directory that is filled while it is removed, nested
directories one of which is entered and removed, and the same with a walk through
`..`. On the last one `NamesCounted` and `TreeKept` say nothing, since their
condition `Descends` is false; the other two invariants hold there as well.
*BufCache*: four blocks in three buffers make recycling certain; three uses are a
process with two buffers beside another one, and with a pinned buffer they run out.
*FileData*: a write of 7 bytes needs both a direct and all indirect blocks and
several transactions, and two files of up to five blocks each exhaust the disk.
*Memory*: two processes with their tables need more than 12 pages, so every
`kalloc()` of `fork`, `exec` and `sbrk` fails in some state. *Console*: the ring
fills and the counters wrap. *Umalloc*: three extensions of the heap, with free
blocks on both sides of the one given back. *UThread*: the table is full with
four threads, and five calls of `thread_create()` overrun it. *WordStack*: with
three processes two wait while one is inside. *PageSim*: five pages do not fit
into the four places, so the disk fills up too. *Shell*: four tokens cover each
production of the grammar inside each other one, and the longer lines several
redirections before and after a block. *Grep*: a line of three characters is cut
by the buffer and moved over itself; three characters hold every pair of
operators. *ForkPrio*: with three children a signal falls before, between and
after the kills.

Deadlock is not checked in `fs` (two calls may wait for each other, which is
what `fs_deadlock` shows, and a panic stops everything), `buf` (a panic) and
`services` (programs end). Every other run checks it.

### Fairness

*Log*: the committer and a process inside `log_write()` keep running (weak),
and a call in progress reaches `end_op()` (strong, because it may be held up
by other writers but makes finitely many writes). Nothing is assumed of
`begin_op()`. *Proc*: spin locks are acquired in the end, CPUs execute, each
CPU's clock interrupts again and again, and a process inside the kernel goes
on. Strong fairness is needed where a lock is free only from time to time.
Nothing makes a process fork, exit or kill; a failing `fork()` is never
forced. *Pipe* (only `pipe_kill`): a call that can take `p->lock` again and
again does so, and a killed process back in user space exits.

### Findings

* `proc_kill`: `kill()` looks at `pid` and not at `state`. A `fork()` that fails
  leaves its pid in the free slot, so a later `kill()` of that pid marks the
  slot, and the next process there starts out killed.
* `proc_getppid`: `sys_getppid()` reads through `parent` without the lock; the
  parent may be reaped between the two loads.
* `pipe_kill`: a `kill()` between the check of `killed` and `sleep()` is lost: nothing
  wakes the reader until somebody writes or closes. `consoleread()` has the same
  window. In `sys_sleep()` the next tick makes it good; `KilledExits` does not show
  this, because its run has one CPU, on which no `kill()` falls into the window.
* `fs_deadlock`: `iput()` locks the inode even when there is nothing to free.
  `create()` asks for the directory again in `iunlockput(dp)` while it holds the
  new file; an `unlink()` of the name holds the directory and waits for the file.
* `fs_links`: `create()` sets `ip->nlink = 1` on an inode that another process may
  have reached since `ialloc()`. A process is in `/a/b` when both directories are
  removed; the number of `/a` is given to a new directory, and `mkdir("../b")` walks
  into it before its maker has locked it. The link that this `mkdir` counts is
  overwritten: the directory ends up with two links and `nlink` 1.

Seen while modelling, without a run of their own:

* `pipe.c`: `pipewrite()` of a killed process returns from a full ring without waking
  the readers, who go on sleeping with bytes to read. `SleepersHaveReason` allows for
  this and shows that nothing else leaves a reader asleep on a ring with bytes.
* `bio.c`: `NBUF` equals `LOGSIZE`, so a long transaction can pin nearly all buffers and
  leave none for the next `bread()`.
* `wordstack -r` computes its row before it waits: when another process pushes or
  pops meanwhile it prints and blanks a row that is not the top one. The counts
  stay right (`RowsConserved`), the words do not. `-w` copies a word of any length over
  the row and what lies behind it. `-p` also reads the row `free`,
  which is one past the heap of a full stack, and a word of `MAX_WORD` bytes has
  its terminator one past the array.
* `uthreadlib.c`: when the only runnable thread yields, the search ends without a
  candidate, `main` is resumed and exits; `thread_create()` with a full table
  writes past it (the phase `overrun`).
* `sim.c`: a page hit while memory is still filling gets a time that may be later
  than that of pages that come after it, so LRU order starts only with the first
  replacement; the table entry of an evicted page is kept.
* `fs.c`: two `iput()` of an unlinked inode at once can each see the reference of the
  other, and then the inode is never freed; a file created in a current directory
  that was removed is unreachable; a walk through `..` of a removed directory can
  end in `panic("ilock: no type")`.
* `sh.c`: of two redirections of one descriptor the first one wins, and after a
  failed `open()` the next descriptors are one lower.
* `grep.c`: a `read()` that ends before the first newline is thrown away, so lines
  that arrive in pieces through a pipe lose their beginning; a last line without
  newline is never looked at.
* `forkprio.c`: when a `fork()` fails, or `^C` comes before the father has installed
  his handler, he ends without ending his children.

## Proofs

Each module `XProofs` proves that an invariant holds initially and that every
action keeps it, one lemma per action, and derives the properties that the runs
check from it. The theorems hold for every value of the constants that satisfies
the assumptions named in the component modules.

### The log (`LogProofs`)

From `LogAssumption` and `FootprintFits`, for every set of processes and blocks and
every size of the log:

| theorem | statement |
| --- | --- |
| `LogTypeCorrect` | `Spec => []TypeOK` |
| `LogSpaceReserved` | `Spec => []SpaceReserved` |
| `LogNoStrandedSleeper` | `Spec => []NoStrandedSleeper` |
| `LogQuiescentIsDurable` | `Spec => []QuiescentIsDurable` |
| `LogImplementsAtomicDisk` | `Spec => ImplementsAtomicDisk` |

All follow from `LogInvariant`: `Inv` is inductive. Its parts:

* `CountInv`: `outstanding` is the number of calls in progress, and a commit
  excludes them. Without it `EndOp` could start a second commit.
* `PhaseInv`: the phases of `commit()` belong to exactly one process, or to boot.
* `SpaceInv`: the log holds no more than it would if every call in progress had
  used up its reservation, less what each of them has not written yet
  (`Paid` counts the entries paid for). This is the argument why checking the
  space outside the lock is harmless.
* `DataInv`: which buffers may differ from the disk (pinned or locked ones),
  what `write_log()` has copied so far, what the header names and what is
  already installed.
* `QuietInv`: a quiet system has an empty log and no sleepers.

The refinement proof maps `WriteHead` to `Commit`, `LogWriteCheck` to `Write`,
`BeginOpEnter` and `EndOp` to `Begin` and `End`, `Crash` to `Crash`, and every
other step to a stutter; `DataInv` gives that `Durable` equals the cache right
after the header is written and does not move while blocks are installed.

### Processes (`ProcProofs`)

For any number of CPUs, slots and pids: `ProcTypeCorrect`, `OneCpuPerProcessAlways`,
`NoChildIsMissed`, `NoTickIsMissed` and `ProcessesFormTree` state `TypeOK`,
`OneCpuPerProcess`, `NoMissedChild`, `NoMissedTick` and `ProcessTree`. They follow
from `ProcInvariant`. What `ProcInv` adds, and why:

* `InitStays`: init never exits and has no parent, so `exit()` always finds
  somebody to hand children to.
* `Tree`: the parent of a process is another one that has not exited. A zombie
  parent would never `wait()`, and `NoMissedChild` would fail one step later.
* `Forks`: a slot is an `EMBRYO` exactly while one `fork()` fills it; otherwise
  two could make the same slot runnable.
* `Threads`, `Chans`: where the kernel thread of a slot can be given `p->state`, and
  that `p->chan` is set only inside `sleep()`. They say which sleepers `wakeup1()` finds.
* `TickLock`, `ClockCpu`: who holds `tickslock`, that a process about to sleep with it
  has time left, and that the clock handler does not interrupt a holder of
  `ptable.lock`. This closes the window between the test of `ticks` and `sleep()`.

### Pipes (`PipeProofs`)

For any readers and writers, at least one of each because `pipe()` returns both
ends, any ring size that divides the range of the counters (512 divides 2^32):

| theorem | statement |
| --- | --- |
| `PipeTypeCorrect` | `Spec => []TypeOK` |
| `SleepersAlwaysHaveReason` | `Spec => []SleepersHaveReason` |
| `PipeFreedWhenUnused` | `Spec => []FreedWhenUnused` |
| `PipeImplementsChannel` | `Spec => ImplementsChannel` |

The second holds whoever is killed. What it says of readers is weaker once a writer is
killed, who leaves a full ring without waking anybody; TLC finds the statement without
this exception violated. `PipeInv` says that the counters are never more
than `PIPESIZE` apart (`RingOK`), that the open flags follow the descriptors
(`OpenWhileHeld`), that nobody is inside a call on an end it does not hold
(`InsideHolds`), and that a process about to sleep holds `p->lock` and still has its
reason (`BlockedHasReason`). The refinement maps each batch of bytes to one step of
the channel; the lemmas on `%` show that appending at `nwrite % PIPESIZE` and taking
from `nread % PIPESIZE` act on the ends of `Contents` on both sides of the wrap.

### Buffer cache and disk queue (`BufCacheProofs`)

`HolderReadsLatest`, `BufSleepersAlwaysWait` and `UsersAlwaysCounted` state
`ReadsLatest`, `BufSleepersWait` and `UsersCounted`, for any finite set of uses and any
number of buffers. `BufInv` adds that the list holds every buffer (`ListWhole`), that a
user's buffer keeps its block (`UsesBlock`), that the owner of the sleep lock is inside
(`OwnerHolds`), that a block has at most one buffer (`OneBuffer`), that a valid buffer has
the latest data and a block whose buffer is not dirty is up to date on disk (`Coherent`),
and that the queue holds exactly the buffers of the uses waiting for the disk, once each
(`QueueOK`). `Coherent` needs `OneBuffer`, which needs `UsersCounted`: a recycled buffer
is one nobody uses. That a buffer is left for every `bget()` is not a theorem: with
`NBUF = LOGSIZE` the code does not see to it.

### Inodes and files (`FileSysProofs`)

`ReferencesAlwaysExact` and `CacheAlwaysCoherent` state `ReferencesExact` and
`CacheCoherent`, for any finite set of processes, any inodes, names, table sizes and
system calls. The assumptions say only that the constants have their types:
`FileSysAssumption`, and `PathsAssumption` for the paths of the calls. `FsInv`:

* `ShapeOK`: which of `cur`, `ip`, `dp` and the inodes still to put a call has at each
  of its steps. Every later part reads off it what a step drops or takes over.
* `RefCounted`: `ref` is the number of pointers, counted apart by kind (`Total`), so
  that a step changes one or two of the seven counts by one. `PointersCounted` shows
  that this is `Cardinality(Pointers(i))`.
* `FilesCounted`, `FilesHaveInode`: `f->ref` is the number of descriptors. Without it
  `fileclose()` could not be shown to drop the inode with the last one.
* `LocksHeld`: the locks a call keeps from one step to the next, which is why
  the directory looked up by `create()` or `sys_unlink()` is still allocated.
* `Coherent`: a valid copy is that of an allocated inode and equals the disk. `ilock()`
  copies allocated inodes only, and every change is written through by `iupdate()`.
* `HeldAllocated`, `UnlinkedValid`: what is open, a current directory, or about to be,
  is allocated; the copy that `sys_unlink()` locked stays valid.

The one dangerous step is `iput()` freeing an inode. `LastPointer` is the argument: if
`ref` is 1, the pointer being dropped is the only one, so nothing in `HeldAllocated` or
`Coherent` is about this inode. For the other steps `StepKeepsInv` says once that a
process changes only its own pointers and locks and at most one file; each action is
then a matter of naming its new locals.

`NamesAlwaysLinks` and `DirectoriesFormTree` state `NamesCounted` and `TreeKept`, that is
`NamesAreLinks` and `DirectoryTree` in every behaviour whose calls have no `..` in their
paths (`Descends`). The condition is needed, as the run `fs_links` shows: a removed directory that is still somebody's current directory keeps
its `..`, whose inode number may have been freed and taken again. Without such a walk
whatever a call has in hand was in hand before, is named, is the root or is open
(`GainsFound`), and none of these is an inode that another call is making. That
`Names` is finite (a name has `DIRSIZ` characters) makes the links countable. `TreeInv`,
inductive together with `FsInv`:

* `LinksCounted`: `nlink` is at least the number of names plus that of the calls with a
  link pending (`PendingOf`): `sys_link()` between counting and naming, or undoing it,
  and `sys_unlink()` between erasing and discounting. `NamesAreLinks` alone is not
  inductive, because `nlink--` would take a name's link.
* `LiveOf`, `TypesOf`: what a call can still get at is allocated, its parent directory is
  a directory, and `sys_link()` works on no directory. `UsesIn` leaves out a pointer
  whose inode `iput()` has just freed and that only waits for `ref--`.
* `FreshOf`: between `ialloc()` and `ilock()` in `create()` nobody else can get at the new
  inode, and it has no name and no entries. This is what a stale `..` breaks.
* `FoundOf`: what `create()` and `sys_unlink()` found in the directory they keep locked
  is still there when they write their entry.
* `FreeUnlinked`, `OnlyDirsFilled`, `DirsHaveDot`, `RootStays`: free inodes have no
  links, only directories have entries, each has its `.` once made, and the root has
  itself as `..` and no name.

The steps with an argument of their own are `FreesTree` (the inode that `iput()` frees
has no links, so no name leads to it, and by `LastPut` no other call waits to put it),
`CreateLinkTree` (the new name, and the `..` that counts for the parent), and
`ErasesTree` (a directory found empty loses its only name, and with it the link that
its `..` was for the parent). All others leave the directories alone and go through
`SameTreeStep`.

### Memory (`MemoryProofs`)

`PagesAlwaysConserved` and `KernelAccessAlwaysMapped` state `PagesConserved` and
`KernelAccessMapped`, for any number of processes and pages (at least the five that
`userinit()` needs, since it panics otherwise) and any page size. They follow from
`MemInvariant`. `Map` writes the owners of pages as one function from places (the
kernel stack, the page in hand, the entries of the address space and of the one that
`exec()` keeps) to pages, and `Whole` says that every page is on the free list or in
exactly one place. Pages move in four ways only, one lemma each: taken from the list
(`TakeWhole`), put into an entry (`PlaceWhole`), given back (`GiveWhole`), and a whole
space moved when `exec()` starts (`MoveWhole`). The rest of `MemInv`:

* `BuildsApart`: no two calls build the same address space, so two failing halves
  never give back the same page.
* `HandUsed`: a page in hand still has a place to go.
* `SizesFit`, `SettledFits`, `UnusedEmpty`: outside `sbrk()`, `exec()` and `fork()`
  the pages below `sz` are mapped and no others; a free slot has none.
* `BuildsFit`: what each of the three has built so far, and what it keeps for the case
  that it fails. Without it the return to the old space could not be shown to be
  settled again.

### Spin locks (`KernelProofs`)

`SpinNeverSelfDeadlocks` and `SpinRestoresInterrupts` state `NoSelfDeadlock` and
`InterruptsRestored`, for any number of CPUs and locks. `SpinInv`: the holder recorded
in a lock took it (`HolderTook`); the level that does not run holds nothing
(`OtherLevelIdle`), since a handler runs only with interrupts on; locks are asked for in
order (`AcquireInOrder`); `ncli` is the number of locks held, plus the acquire or release
under way (`NcliCounts`), and interrupts are on exactly when it is 0 (`InterruptFlag`).

### Console and file blocks (`KernelProofs`)

`ReadersAlwaysSleepOnEmpty` and `InputIsNeverStuck` state `ReadersSleepOnEmpty` and
`InputNeverStuck` for any ring whose counters wrap later than it is long. The two are
inductive together with the types, once the first is said of the readers about to sleep
too (`WaitersSeeEmpty`): they hold `cons.lock`, so nothing is committed before they
sleep. What has to be shown is that `r`, `w` and `e` stay in this order modulo 2^32
whatever is typed, deleted or put back.

`TransactionsAlwaysFit` states `TransactionFits`: a round of `filewrite()` never logs more
than `MAXOPBLOCKS` blocks. It is proved from a bound on the blocks that a range of bytes
touches (`BlocksTouched`) plus the inode, the bitmap and the indirect block, for any
`MAXOPBLOCKS` of at least 6 (below that `max` would be 0 and the loop would not advance).

`BlocksAlwaysExact` states `BlocksExact`, assuming what `mkfs` asserts: its file is no
longer than a file can be and fits on the disk (`ImageAssumption`). `BlocksInv` says it
without counting: no address is in two slots (`AddrsDiffer`), a block is marked exactly
if it is in one (`BitmapExact`), a file has addresses for the blocks below its size only
(`SizesExact`), and offsets are within the size (`OffsetsIn`). The last is what makes
`SizesExact` inductive: `writei()` refuses to start past the end, so it leaves no hole.
`balloc()` takes the free blocks in order, so the work is in the lemmas about ranks
(`RankDiffers`, `RankFound`): a round that needs k blocks gets k different free ones.

### User-level allocator (`KernelProofs`)

`HeapAlwaysTiled` states `HeapTiled` for any size of the heap, of what `morecore()` asks
for and of the requests. `HeapInv` says what the code keeps in its headers: the blocks,
free and in use, tile the heap (`Tiles`: none reaches past the end or into the next one,
and every unit is in one); the list is the base and the blocks that are not in use,
linked in address order from the last one round to the base (`ListIs`, `Linked`); and no
block of it touches the next (`Apart`). `HeapTiled` speaks of the blocks met on a walk
from `freep`, so the argument needs that a walk meets the whole list (`RoundSeesAll`): it
comes round because there are more steps than addresses and no two blocks have the same
successor (`WalkReturns`, `LinkedInjective`), and what it has met by then is closed under
`s.ptr`, hence everything (`ClosedIsAll`). The same lemma shows that the loop of `free()`
ends at the last block below the one given back (`PredIs`). `free()` is then one lemma for
each of its four outcomes (`FreeAlone`, `FreeJoinsUp`, `FreeJoinsDown`, `FreeJoinsBoth`);
`morecore()` is a new block above the others (`GrownTiles`) given to `free()`, and
`malloc()` takes a block out of the list or cuts off its end (`TakeWholeInv`,
`TakeTailInv`).

### Labs (`LabProofs`)

* `StackConservesRows` (`RowsConserved`) and `StackUsesRows` (the row index of a push or
  pop is that of a row of the heap; the length of a word is not in it) for any finite
  set of processes. Permits and rows are counted over the
  processes between `sem_wait()` and `sem_post()`; `IdleWithoutSegment` is needed because
  `-c` and `-d` start and end the counting.
* `ConsumerAlwaysReadsAll` (`ConsumerReadsAll`): the semaphores are the differences of the
  two loop counters (`SemaphoresCount`), so less than `bsize` items lie between them and
  no slot is overwritten before it is read (`ItemsInRing`, lemma `SlotsDiffer`).
* `FatherLeavesNoChild` (`NoChildLeft`): `pids[]` is filled before the father can kill
  (`PidsFilled`), and the children before the one at hand have been signalled, also when
  the handler starts the loop again (`KillsInOrder`).
* `ThreadsTakeTurns` (`RoundRobin`): the threads that ran since a waiting one last did lie
  between it and `last_index`, going round the table (`TurnsInOrder`); the search that
  starts after `last_index` therefore reaches it before any of them.
* `VictimsAlwaysInOrder` (`VictimInOrder`): a page is in one place (`OnePlace`), and the
  table knows which pages were ever used (`TableExact`). With `-f` the frames fill from 0
  up (`FifoFills`) and are then taken in the same order (`FifoOrder`); with `-l` the
  frames used since the memory filled are ordered by `tiempoRAM` (`LruOrder`).
  `TimesBounded` is there because the code looks for the greatest time, which an
  arbitrary function into the naturals need not have.

### Only model-checked

* `Shell.ExecsWhatWasTyped` and `Grep.GrepPrintsMatches`: they rest on recursive
  operators, which the prover does not handle.
* The liveness properties `SleeperWakes`, `RecoveryCompletes`, `KilledExits` and
  `OrphansReaped`: outside what the prover can do. The last two are checked with one
  CPU: with two, the check of liveness is out of reach.
* The violated properties of the findings.

## Plan

Done: the models of the kernel, of user space and of the labs; the theorems above.

Next, in this order:

1. `BufCache` as an implementation of the cache that `Log` assumes.
2. Descriptors inherited by `fork()` and closed by `exit()` in `FileSys`.
3. A scan of the process table by `pscnt()`, one step per slot.

## Not modelled

Boot, interrupt controllers, serial line and keyboard are hardware programming.
`mkfs` runs on the host: its image appears as initial states, its I/O does not.
System call dispatch fetches arguments and jumps; only the bounds checks matter
here. The message box is one call of a POSIX queue per command and the canvas
unsynchronised writes of characters; the programs of the threads lab each measure
or show one effect. The user programs, tests and small exercises are sequential.
`procdump()` and `pscnt()` only read the process table, `fstat()` an inode. The
width of `ticks` and of `nextpid`, memory barriers and the TLB are not modelled.
