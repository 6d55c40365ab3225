# Formal models of the CS537 operating-systems projects

The repository holds the projects of a course on operating systems: several
copies of the xv6 kernel with what each assignment added (`p1b`, `p2b`, `p3b`,
`p4b`), memory allocators (`p3a`, `p3a_contest`), a shell (`p2a`), a web server
(`p4a`) and a UDP file server (`p5a`).  This directory models the parts where
order and interleaving decide whether the program works, checks them with TLC
and proves some of the results with TLAPS.

The kernel that is modelled is the last and largest one, threads included:
`p4b/xv6_submitted_ver`, written `K/` for its `kernel` directory below.  The
other copies share its core, so most of what is shown here of scheduler, pipes,
buffer cache, file system and process table says something about them too.  Of
`p2b` and `p3b` the parts that those assignments changed are modelled.

Contents: 1 Components - 2 Modules - 3 Runs and bounds - 4 Fairness -
5 Proofs - 6 Disagreements with the code - 7 What is not modelled - 8 Plan

## 1. Components

**Scheduler and context switch** (`K/proc.c`, `spinlock.c`, `trap.c`,
`swtch.S`).  State: the state of each slot of `ptable`, which stack each CPU
executes on, the spin locks, the interrupt flag with `ncli` and `intena`.
Operations: the loop of `scheduler`, `sched`, `yield`, `sleep`, `wakeup`,
`kill`, the timer trap.  All other components call `sleep` and `wakeup`.  Hard:
`ptable.lock` is taken by one thread and released by another across the
switch; an interrupt may come between any two instructions with interrupts
on; two CPUs.  Correct when no two CPUs share a stack, no wakeup is lost, none
of the panics of `sched` and `acquire` is reachable, the interrupt flag goes
with the thread, and everything runnable runs.

**Process table** (`K/proc.c`, `exec.c`, `user/init.c`).  State: parent, pid,
page directory and `killed` of each slot.  Operations: `fork`, `clone`,
`exec`, `exit`, `wait`, `join`, `orphanage`, `kill`.  Threads are slots that
share a page directory.  Hard: exit order of parents, children and threads;
slots and pids reused; `init` sleeping when it is given a zombie; `orphanage`,
with which any program can free any slot.  Correct when
every process has a parent that can collect it, no exit is missed, and pages
are freed once and not under a live thread.

**User lock** (`lock`, `unlock` in `K/proc.c`).  State: a word in user memory.
Hard: what excludes whom.  Correct when it is a mutex and loses no wakeup.

**Pipes** (`K/pipe.c`).  State: a ring of bytes, two wrapping counters, two
open flags.  Hard: several sleepers on two channels, close and kill between
them.  Correct when it is a bounded byte stream and nobody sleeps for nothing.

**Buffer cache and disk** (`K/bio.c`, `ide.c`).  State: buffers with flags, LRU
list, request queue.  Interaction: processes from above, disk interrupts from
below, `sleep` in two nested loops.  Correct when it is a store of blocks, each
used by one process at a time.

**Open files** (`K/file.c`, `sysfile.c`).  State: reference counts, descriptor
tables.  `fdalloc` of a thread writes into the tables of other processes
without a lock.  Correct when a count is the number of descriptors.

**File system** (`K/fs.c`, `sysfile.c`).  State: inode cache with reference
counts and busy flags, inodes, bitmap and directories on the disk.  Operations:
`namex`, `iget`, `ilock`, `iput`, `open`, `mkdir`, `unlink`, `link`, `chdir`,
`write`, `close`.  Hard: `iput` that frees against `namex` that walks, two
processes on crossing paths, a crash between two writes (there is no log).
Correct when a count is the number of pointers, nobody waits in a circle, no
panic is reachable, the disk is sound after each write, and names form a tree.

**Memory** (`K/kalloc.c`, `vm.c`, `sys_sbrk`).  State: free pages, page
directories, `sz` of each thread.  Hard: `sbrk` of threads at once.  Correct
when the threads agree on `sz` and exactly the pages below it are mapped (after
`sbrk` to 0, which fails with the pages gone, fewer).

**Console** (`K/console.c`, `kbd.c`, `uart.c`).  State: an input ring with three
wrapping indices, filled by interrupts.  Hard: a kill, an end of file or a full
ring between reader and interrupt.  Correct when it is a terminal: lines are
edited until they are entered, and what was entered is read once and in order.

**User side of the kernel** (`user/umalloc.c`, `thread_create`, `init.c`,
test programs).  State: the ring of free blocks.  Correct when it is an
allocator.

**Reserve/spot scheduler** (`p2b`).  State: the account `total` of reserved CPU,
type and share of each slot, the counter of the lottery.  Hard: the timer
interrupts the system calls, which take no lock.  Correct when no more than 200
percent are given away and nobody starves.

**Stack rearrangement** (`p3b`).  State: `sz`, `heap_bot`, `stack_low_bound`,
`max_stack_page` of each process, its page directory.  Heap and stack grow
towards each other; a page fault adds a page.  Correct when the bounds describe
what is mapped, which `copyuvm` and the check of arguments believe.

**Base kernels** (`p1b`, `p4b/xv6`): earlier copies.

**p5a file server** (`server.c`, `mfs.c`, `udp.c`).  State: an image (bitmap,
inodes, blocks), changed by a sequence of `pwrite`s per request.  Interaction:
one datagram each way, resent after 5 seconds.  Hard: lost datagrams, calls
carried out twice, a crash between two `pwrite`s.  Correct when each call has
its effect once, its answer is true, and the image stays consistent.

**p4a web server** (`server.c`, `request.c`).  State: a ring sorted by file size,
a mutex, two condition variables; one producer, several consumers.  Hard:
signals, the insertion into a ring that wraps.  Correct when the smallest file is
served first and everyone is answered once.

**p3a allocators** (`mem2.c`; `p3a_contest`).  State: a map of segments, or a
list of headers inside the region.  Correct when blocks never overlap and none
is refused that fits.

**p2a shell**, **p1a** (a simulation of the birthday paradox): sequential
programs around libc.

## 2. Modules

| module | models | abstract spec | model-checking module |
|---|---|---|---|
| `Sched` | context switch, locks, interrupts, `sleep`/`wakeup`, timer | - | `MCSched` |
| `Proc` | process table and `init.c` | - | `MCProc` |
| `BufCache` | `bio.c` over `ide.c` | `BlockStore` | `MCFsInode` |
| `FsInode` | `fs.c` and the calls of `sysfile.c` on names, over the blocks of `BlockStore` | `NameSpace` | `MCFsInode` |
| `FileTable` | `file.c`, `fdalloc`, descriptors in `fork`/`clone`/`exit` | - | `MCResources` |
| `Pipe` | `pipe.c` | `Fifo` | `MCResources` |
| `UserSpace` | `exec`, `fork`, `sbrk`, page faults of `p3b` | - | `MCResources`; `MCUserSpace.cfg` |
| `UserLock` | `lock`/`unlock` under `user/locks.c` | `Mutex` | `MCParts`; `MCUserLock` |
| `Sbrk` | `sbrk` of the threads of a process | - | `MCParts` |
| `Console` | `consoleintr`, `consoleread` | `Terminal` | `MCParts` |
| `Umalloc` | `user/umalloc.c` | `Allocator` | `MCParts` |
| `NibbleHeap` | `p3a/mem2.c` | `Allocator` | `MCParts` |
| `NextFit` | the allocator of `p3a_contest` | - | `MCNextFit.cfg` |
| `Reserve` | the scheduler of `p2b` | - | `MCSched`; `MCReserve.cfg` |
| `WebServer` | `p4a` | `SffQueue` | `MCParts` |
| `Mfs` | `server.c`, `mfs.c` of `p5a`, the network | `FileStore` | `MCMfs` |
| `SchedProofs`, `ProcProofs`, `BufCacheProofs` | theorems about the module of that name | | |
| `ResourceProofs` | theorems about `FileTable`, `Pipe` and `UserSpace` | | |
| `PartsProofs` | theorems about `WebServer`, `Sbrk` and `UserLock` | | |
| `FsDisk` | the inductive invariants of `FsInode`: of its counts, and of the whole file system | | |
| `FsInodeProofs` | the reference counts, and what the steps do to the rest | | |
| `FsDiskProofs` | that each step keeps the file system sound, and what follows | | |
| `MfsProofs` | theorems about `Mfs` | | |

`MCParts`, `MCResources` and `MCFsInode` hold parts that do not interact.  A variable `part`
that never changes says which of them a behaviour is about; the variables of the
others stay as they start.  So each part is checked by itself, as in a run of
its own.  The parts with theorems are extended, so that run and theorem speak of
the same definitions (`PipeNext`, `SpaceNext`, `WebNext`, `SbrkNext`, `CacheNext` are told from
`Next` by their names), as is `Console`; the others are instances.  Parts of
`MCSched` and `MCProc` are chosen in the same way (`machine`, `programs`).

Definitions are named after the functions they model; `PROJECT.json` maps each
to its lines.  Operators marked `Mutant:` are the definition after them with
one plausible mistake; each property of a passing run finds its mutant.

*Granularity.*  `Sched` has a step for each piece of code between two points at
which another CPU or an interrupt may matter; each kernel stack has a label
`pc[p]`, also when it is inside `swtch`.  It justifies what the other modules
take for one step: a critical section of a spin lock.  In `Proc` that is
`ptable.lock`, in `Pipe` `p->lock`, in `BufCache` `bcache.lock` and `idelock`,
in `FileTable` `ftable.lock`.  What is not under a lock stays in pieces:
`fdalloc` looks for a descriptor, then stores it, then loads and stores
`f->ref`; a pipe's process tests `killed`, then falls asleep (label `nap`),
and `kill`, which takes another lock, may come in between; `lock` in
`UserLock` has a step for each access to `*l`.

*Sched.*  `on[c]` is the stack CPU `c` executes on, `scan[c]` the position of
the table scan, `irq[c]` the timer handler, `locked`, `ncli`, `intena`, `ints`
the locks and the interrupt state.  `fork`, `exit` and `wait` appear with what
they do to a slot and its stack.

*Proc.*  `pc` says in which call a process is, `live` which page directories
are allocated.  `init` executes `user/init.c`, its `fork`, `wait` loop and
`orphanage` calls included.  `orphanage` is a system call of every program, and
takes any pid (`K/sysproc.c:55`, `K/proc.c:358`): `OrphanageOf(p, q)` is the one that
`p` makes with the pid of `q`.  For a zombie it frees the slot under whoever was to
collect it, `init` included; for a free slot `kfree` panics; for a process that
has not exited the stack is freed while it is in use, or will be, and what
follows is undefined: the model stops there (`pc[init] = "undefined"`), as it does
after a panic.  `programs` is a variable that never changes: with `"any"` programs
call what they like; with `"tidy"` they collect their children before they `exit`
or `exec`, and leave `kill` and `orphanage` to others; with `"plain"` they do not
`exec`, memory does not run out, `orphanage` is called for zombies only, and
liveness is claimed.  The properties say for which programs they hold, and speak
of the processes until a behaviour is undefined (`Defined`).

*FileTable.*  The same device: with `"inherit"` threads open and dup no files
themselves, with `"turns"` one system call at a time is made, with `"any"`
neither; the last is not in the run (section 6).

*Pipe.*  `Fifo` is a byte stream of at most `PIPESIZE` bytes.  The mapping is
the bytes between the counters.  `gaveup` is a history variable: a killed
writer has left bytes behind and woken nobody.

*BufCache.*  `BlockStore` is a block per sector and its user.  The mapping
takes a sector's contents from the valid buffer that caches it, else from the
disk.  `platter` and `current` are the hardware.

*FsInode.*  `dinode`, `bitmap`, `dirent` are the disk, as a crash would find it;
`icache` is the inode cache.  A process's record `t[p]` holds the label it is
at, the pointers of the call (`at`, `ip`, `dp`) and the `iput`s it still owes.  A
step ends at each write to the disk and each change of a reference count; what
lies between is covered by `I_BUSY`, and a `bread`, `bwrite`, `brelse` in a row
is one step, as `BufCache` shows that it may be.  A file or directory has one
block.  The mapping to `NameSpace` takes the links from the directory blocks.

*UserSpace.*  Addresses are bytes, `pages[p]` is the set of page numbers that are mapped.  `intact` is
a history variable: the process survived no `exec` that failed after it had
changed `heap_bot`.  `SpaceLaidOut` claims its bounds for the others.  `argptr`
takes an address and a size of 32 bits (`UintRange` values) whose sum wraps, and
refuses `init` nothing (`syscall.c:67`): that what it accepts is mapped is claimed
of the other processes and of sums that do not wrap.

*Sbrk.*  A step goes from one point where the thread may be preempted with
another about to enter to the next: taking `mem_lock`, each `kalloc`, storing
`sz` in the table.  Threads are cloned by the first thread and while nobody is
in `sbrk` (section 6).  `emptied` is a history variable: a thread has asked to give
back the whole size.

*Console.*  `consoleintr` is a step for each character, under `input.lock`; a
reader's step goes from one `sleep` to the next.

*Umalloc, NibbleHeap, NextFit.*  Addresses count in headers (or in 16-byte
segments), and a call is a step: `mem2.c` holds a mutex; the contest's allocator
and `malloc` have none, and are called by a program of one thread.  `Allocator` refuses a request
only when no gap is long enough.

*Reserve.*  `scheduler` makes a step for each slot it looks at in each of its
two passes; `counter` and `winner` are its locals.  `sys_reserve` takes no lock and
the timer takes the CPU from it (`trap.c:103`), so it is four steps, and the
process may be preempted between them: it reads `total`, stores the sum (`Add`),
reads `total` again to compare it and sets the type (`Compare`), and sets the share
(`SetPara`), until when an old bid counts for it.  (The Makefile compiles without
`-O`.)  `sys_spot` is one step, since nobody reads the bid of a process of type
`SPOT`.  `lost` is a history variable: a store to `total` has undone another.

*WebServer.*  A step goes from one call of `pthread` to the next, except that
reading a request and answering it, which the code does with the mutex held,
are steps of their own.  A condition variable is the set of its waiters.

*Mfs.*  A request makes the server compute a list `todo` of `pwrite`s; `Push`
carries out one, `Crash` may come before each.  The server's copies of bitmap
and inodes are the ones on the image, since each change is followed by its
`pwrite` before anything else is read and a restart reads the image.  An inode
holds addresses (`NoBlock` is 0xFFFFFFFF, `Header` the 0 of an inode that was
never filled in, so that reading a directory beyond its first block reads what
the code reads).  `set_bit(b, 0)` is modelled with the arithmetic of
`Math_Pow`.  The mapping to `FileStore` is the tree of inodes that a name
leads to.

## 3. Runs and bounds

| run | instance | what it shows |
|---|---|---|
| `sched` | "smp": 2 CPUs, 2 slots; "uni": 1 CPU, 3 slots, fair; "p2b": 2 slots, 2 for 100 and for 200 percent, shares of 1 and 2, a bid of 2, a counter of 2 values, `total` at most 3 | `StacksSafe`, `RunningMeansOnCPU`, `NoLostWakeup`, `NeverPanics`, `MaskRight`, `EventuallyRuns`, `SleeperReturns`; `SharesKept` |
| `proc` | 4 slots, 4 pids, `kalloc` may fail; programs "any", "tidy", "plain" | `ParentAlive`, `NoMissedChild`, `AddressSpacesKept`, `OrphansReaped`, `KilledExits` |
| `fs` | inodes: 2 processes, 3 inodes, 3 blocks, 2 names, 3 calls on trees "rmdir" and "dots"; cache: 3 processes, 2 buffers, 3 sectors, 2 values | `RefsCounted`, `FsNeverPanics`, `NoEmbrace`, `DiskSound`, `NothingLost`, `ImplementsNames`; `BuffersSound`, `SleepersServed`, `ImplementsBlockStore` |
| `resources` | files: 3 slots, 2 descriptors, 2 files; pipe: 1 reader, 2 writers, ring of 2, counters modulo 4; p3b: 3 slots, 7 pages of 2 bytes, addresses modulo 16 | `RefsCounted`, `DescriptorsRight`, `NobodyMissed`, `ImplementsFifo`, `SpaceLaidOut` |
| `parts` | see below | `WakeupsKept`, `ImplementsMutex`, `AllJoin`, `SignalsKept`, `ImplementsSff`, `EveryoneAnswered`, `ImplementsMemory`, `ImplementsMalloc`, `SpaceAgreed`, `ImplementsTerminal` |
| `mfs` | 3 inodes, 4 blocks, 2 names, 2 values, 1 crash, fair | `ImageSound`, `ImplementsStore`, `CallReturns` |
| `proc_threads` | as `proc`, threads only | `AddressSpaceLive` is **violated** |
| `lock_two_cpus` | 2 CPUs, 2 threads, 1 round | `GlobalCounts` is **violated** |
| `mfs_unlink` | as `mfs`, any unlink | `UnmarksItsOwn` is **violated** |
| `space_args` | as p3b in `resources`, programs ending at 3 or 5 | `ArgsInSpace` is **violated** |
| `reserve` | 3 slots, 2 for 100 and 4 for 200 percent | `SumKept` is **violated** |
| `heap_nextfit` | region of 10 headers, lengths 1 to 3 | `HeldApart` is **violated** |

Type invariants are the first conjunct of an invariant of their module
(`ParentAlive`, `BuffersSound`, `DescriptorsRight`, `ImageSound`, `RefsCounted`,
`NobodyMissed`), or proved with the rest of their module (section 5).

The parts of `parts`:

| part | instance |
|---|---|
| lock | 1 CPU, 3 threads, 2 rounds |
| web | 2 consumers, a ring of 3, files of 2 sizes, 4 connections |
| mem2 | 11 segments, 2 of them for the map, blocks of 1, 2 and 4 |
| malloc | 12 units, `morecore` of at least 4, lengths 1, 2 and 5 |
| sbrk | 3 threads, pages of 2 bytes, user memory of 9, 3 free pages, changes -3 to 3 |
| console | 2 readers, a ring of 3, counters modulo 6, reads of at most 2 |

Why the bounds are enough to be interesting:

* `Sched`: the hazards are between one process and another CPU, or a process
  and an interrupt.  Two CPUs and two processes give every pair; fork, exit and
  wait recycle the second slot while the first runs, and the proofs do the
  rest.  For the scan, three slots, one of them between two others.
* `Proc`: four slots hold `init`, its shell, a child and a thread or
  grandchild; four pids let a slot be used again after it was reaped.
  `MaxPid` bounds `nextpid`, `MayFail` and `Calls` choose what may happen; a pid
  has one page directory at most that is not freed, and there is one more than
  pids (`Dir`), so that the guard `live # Dir` never stops a `fork` or an `exec`.
* `UserLock`: three threads give a holder, a sleeper and a third that comes
  between wakeup and return; the second round lets a thread overtake.
* `Pipe`: a transfer larger than the ring, a ring that wraps, counters that
  wrap (`Word` is a multiple of `PIPESIZE`, as 2^32 is of 512).  `Strings` are
  what is written, `MaxRead` the most that is read.
* `BufCache`: fewer buffers than processes and sectors, so that buffers are
  recycled while somebody waits for them and `bget` runs out of them.
* `FsInode`: two processes in three calls race on one path, on crossing paths,
  up and down through "..", and remove what the other has just looked up; with
  three inodes and three blocks a number is used again, and disk or inodes run
  out (`exhausted`: the panics of `balloc` and `ialloc`, at which the run ends).
  "rmdir" removes directories and uses no ".."; "dots" uses ".." and removes only
  files: section 6 says why not both, and `Orderly` is the condition.  `MaxCalls` bounds the calls.
* `FileTable`: both tables can be full; `MaxRef` bounds how often a file is
  dupped.
* `UserSpace`: memory for the program of one process and a heap or stack of two
  more, so that physical pages run out and heap and stack meet; sizes that end
  inside a page and at its end.  The limit of `new_exec` is 2 pages.
* `Sbrk`: one thread waits for `mem_lock` while another allocates and a third
  still has the old size; both ways to fail; shrinking above 0, to 0 and below.
* `Console`: a line longer than the ring, counters that wrap, a line shared by
  two readers, an end of file behind other input.
* `Umalloc`, `NibbleHeap`: blocks merge on both sides, a request is refused, and
  `morecore` is called again with free blocks left.
* `Reserve`: the limit of 200 percent is a constant of its own, so that with two
  slots one can have what the other asks for; the counter wraps, `total` passes
  the limit (`MaxTotal` bounds it), and two calls overlap in every way.  In the run
  `reserve` it takes three slots to exceed twice `Full`, and the only bid is 0, so
  that the counterexample is a lost addition.
* `WebServer`: the ring is full, wraps and is inserted into in the middle;
  `MaxConns` bounds the connections.
* `Mfs`: one crash falls between any two `pwrite`s of a creation or a write; four blocks are enough for
  a block to be freed and used again.  Calls are made only when the image has
  room (`Fits`), with inode numbers the program looked up or bad ones
  (`Knows`), and `unlink`s only where `set_bit` unmarks no block in use
  (`Safe`, dropped in `mfs_unlink`).  `MaxFlight` is 1: what has not arrived
  after 5 seconds is lost.

Deadlock is checked in `sched`, `fs` and `space_args` (in `fs` the panic of `bget`
is allowed to stop the cache, `Halted`).  The other systems may
stop: the pids of the model are used up, both ends of a pipe are closed, every
connection was made, a kernel has panicked or a server was shut down.  In the
runs `parts` and `resources` no deadlock is claimed for any part; `AllJoin`,
`EveryoneAnswered` and `NobodyMissed` say what must not get stuck.  Symmetry is
used in `resources` (of the writers) and `fs` (of the processes, and of the
processes and sectors of the cache), which check no liveness.

## 4. Fairness

* `Sched` ("uni"): an interrupt stays pending until it is taken (strong fairness
  of the timer), a handler goes on (weak), and a CPU executes code between two
  ticks (strong).  Which calls a program makes is open.  Meant for one CPU:
  with more, nothing promises that the `xchg` loop of `acquire` is not starved.
* `Proc` ("plain"): a begun system call goes on and a killed process leaves at
  its next trap, as `EventuallyRuns` shows for everything runnable; `init.c`
  loops.  No other program has to call anything.
* `UserLock`: a runnable thread is dispatched again and again and gets through
  a step in a time slice.
* `WebServer`: threads that can run do, connections keep coming, and whoever
  connected sends its request and takes its answer (weak fairness of the
  producer and of each consumer).
* `Reserve`: the loop of `scheduler` and the timer tick that ends a process's
  turn (weak fairness of both).
* `Mfs`: the server goes on (weak), is started again when it died (weak; this
  is the operator's part), `select` times out (weak), and of infinitely many
  datagrams one arrives (strong).

The others have no liveness property: their blocked processes wait for what
other programs do.  Their invariants say instead that a sleeper has somebody
who will wake it (`NobodyMissed`, `SleepersServed`, `Terminal`), or that nobody
waits in a circle (`NoEmbrace`).

## 5. Proofs

Each proof module states its theorems for **every value of the constants**: any
number of processes, CPUs, slots, buffers, descriptors, inodes, consumers or
threads, and any size of the tables and rings.  All follow one argument: `IInv`
holds initially, every step keeps it (one lemma or step for each action, and
under it one for each conjunct the action touches), and it implies the
property.  TLC checked each `IInv` on the instance of section 3 first.  No
property of the table is inductive by itself; the next paragraphs say what
was missing.

| module | theorem | states | supposes |
|---|---|---|---|
| `SchedProofs` | `StacksAreSafe`, `RunningCorrect`, `WakeupsKept`, `PanicFree`, `MaskIsRight`, `TypeCorrect` | all invariants of the run `sched` | `SchedAssumption` |
| `ProcProofs` | `ParentsLive`, `ChildrenNotMissed`, `AddressSpacesAreKept` | `ParentAlive`, `NoMissedChild`, `AddressSpacesKept` | `ProcAssumption` |
| | `OnlyZombiesAreReaped` | the action property `OnlyZombiesReaped` | |
| `BufCacheProofs` | `BuffersAreSound`, `SleepersAreServed`, `TypeCorrect` | `BuffersSound`, `SleepersServed` | `BufCacheAssumption` |
| | `BlockStoreImplemented` | `BufCache` implements `BlockStore` | |
| `ResourceProofs` | `NobodyIsMissed`, `PipeImplementsFifo` | `NobodyMissed`; `Pipe` implements `Fifo` | `PipeAssumption` |
| | `CountsAreKept`, `DescriptorsAreKept` | `RefsCounted`, `DescriptorsRight` | no program is `"any"` |
| | `SpaceIsLaidOut` | `SpaceLaidOut` | `SpaceAssumption` |
| `FsInodeProofs` | `ReferencesAreCounted` | `RefsCounted` | `FsAssumption` |
| `FsDiskProofs` | `NeverPanics`, `NoProcessesEmbrace`, `DiskIsSound`, `NothingIsLost` | `FsNeverPanics`, `NoEmbrace`, `DiskSound`, `NothingLost` | `FsAssumption`, `Orderly` |
| | `NamesAreKept` | `FsInode` implements `NameSpace` | |
| `MfsProofs` | `ImageStaysSound` | `ImageSound` | `MfsAssumption`, `Modest` |
| | `StoreIsImplemented` | `Mfs` implements `FileStore` | |
| `PartsProofs` | `SignalsAreKept`, `RingIsQueue` | `SignalsKept`; `WebServer` implements `SffQueue` | `WebAssumption` |
| | `SpaceIsAgreed` | `SpaceAgreed` | `SbrkAssumption` |
| | `NoWakeupLost`, `MutexOnOneCpu`, `TypeCorrect` | `WakeupsKept`, `ImplementsMutex` | `OneCpu` |

The assumptions say what the code's tables and numbers have: sets are finite,
placeholders are not members, sizes are positive.  Those that say more:

* `PipeAssumption`: the ring divides the range of the counters, as 512 divides
  2^32.  Without it a byte changes its place when `nwrite` wraps.
* `CountsAreKept`, `DescriptorsAreKept`: section 6 says what goes wrong with `"any"`.
  With `"inherit"` threads leave the opening to their process, and counts and
  numbers are exact; with `"turns"` they open files one at a time, and all that is
  claimed is that no count is too small.  So neither says anything of threads
  that open files together.
* `FsAssumption`: the trees that a behaviour may start with are finite sets of
  entries, and the calls have paths; any number of calls, with paths of any
  length.
* `Orderly`: ".." is no name that a call can make, a behaviour starts with the
  disk of a tree (`TreeSound`), and its programs either name no ".." or leave
  the names of directories alone: some set of names has those of all
  directories, and nothing of it is unlinked.  A program that does both can
  stand in a directory whose parent is gone, walk to "..", and lock or change
  whatever inode has that number now (section 6); TLC finds `FsNeverPanics`
  violated by such a program within six calls.  Which calls are made, how many, by
  whom and on which paths is open.
* `Modest`: one copy of a request is under way at a time, `unlink` is called where
  `set_bit` unmarks no block of others (without it `ImageSound` is false: section
  6), and what is in the blocks of files is told from the contents of a directory.
* `MfsAssumption`: crashes fall in creations and writes only, and `ImageSound` exempts
  the inode whose `unlink` is served: a crash in `unlink` leaves an entry for a free
  inode (section 6), so `ImageStaysSound` says nothing of one.
* `SpaceAssumption`: `USERTOP` is a multiple of the page, as `exec` supposes, and
  every program leaves room for the free page and the first page of the stack.
* `OneCpu`: section 6, `lock_two_cpus`.

`MCParts`, `MCResources` and `MCFsInode` assume these of the constants of their
runs, and TLC evaluates them.  The theorems hold whatever a run composes a module with: the
MC modules only restrict its behaviours.

*Sched.*  `IInv` adds what the code's comments take for granted.  `LockInv`: who
holds which lock, for each label a stack can stand at, and that the lock a stack
takes into `swtch` is the one the other side releases.  `IntsInv`, `IntenaInv`,
`SavedInv`: when interrupts are on, and that `intena`, or the local that `sched`
saved it in, is the flag of the thread it belongs to.  `StateInv`, `ChildInv`: a
stack that resumes after `sched` belongs to a slot that is not `UNUSED`.
`WakeInv`: a sleeper whose ticks have passed, before the handler's `wakeup`.
`ScanInv`: a process runs only in the middle of its CPU's scan.

*UserLock.*  Who is between `acquire` and `release` of its guard is on the CPU,
what it read of `*l` still stands, and `*l = 1` exactly when there is one holder.

*Proc.*  `FamilyInv`: a parent has not exited and is older (`pid[parent[p]] <
pid[p]`), so that following parents ends, at `init`.  `InitInv`: pid 2 is the
first shell, and what `init` gives to `orphanage` is the pid of a zombie child of
its own, or of nobody if another program has given that one back: only therefore
does `orphanage`, which looks at no state, free nothing that lives when `init`
calls it.  `Inv` is what every state satisfies: `IInv` until the kernel has stopped,
`FamilyInv`, `MissInv` and `TidyInv` as long as nobody has called `orphanage` for a
process that lives (`Defined`), and that with tidy programs nobody ever does.  So
the theorems claim nothing of what follows such a call, which is undefined, and
`OnlyZombiesReaped` says that it is the only step that gives back a slot that is
no zombie's.  `TidyInv` carries the ownership of address spaces: the threads of
one form a family with one eldest, whose `exit` is the last.  `PlaceInv` ties
`EMBRYO` slots to the one call that fills them.

*BufCache.*  `ProcessInv` says for each label what the process may rely on of its
buffer: in `iderw` it is in the queue as long as it must sleep, and once
`bread` has returned it is valid, clean and seen by nobody else (`OneUser`,
`OneBuffer`).  `BufferInv` is the same from the side of the buffer: in use means
there is a user, dirty means valid and queued, clean means equal to the disk.
`DiskInv`: the disk works at the head of the queue.  For the refinement every
action is shown to be one of the store or to leave its blocks and users alone;
in particular recycling a buffer does not change what the store holds.

*Pipe.*  `SleepInv` makes `NobodyMissed` inductive: a writer sleeps only when the
ring is full, a reader when it is empty, so never both; what the counters
differ by stays within the ring (`Used <= PIPESIZE`) through the wrap of the
counters.  The arithmetic of two remainders is in the lemmas on `Mod`, which the
provers use as facts.  The refinement shows that `piperead` takes the head of the
byte stream and `pipewrite` appends to it.

*FileTable.*  `CountInv` is the property; `Standing(f)` counts descriptors, calls
that have a file and no descriptor yet, and calls that are about to close one.
Each action moves at most one unit from one of the three to another, shown by
lemmas on cardinalities.  `PcInv`, `StoreInv`, `OwnInv` say that a slot of the
table that `fdalloc` found free is free when it stores, and that what `dup`
duplicates is still open.  `TurnsInv` says that who takes turns is alone.

*FsInode.*  `IInv` knows for each label of a call which of its pointers `at`, `ip`,
`dp` are set (`PointersSet`), what its pending `iput`s are (`CallTyped`) and what
it is about (`CallFits`).  The theorem is bookkeeping: `Owns(r, f, i)` is the
number of pointers of one process to inode `i`, and lemma `Ledger` shows that an
action which changes `ref` by as much as the process's own sum changes keeps
all counts.  Then each action is a sum over the seven pointers a process may have.

*FsDisk.*  What the properties rest on is one invariant, `DInv`, of which no part is
inductive without the others:

* `LockInv`: who holds `I_BUSY` of what, label by label (`Keeps`).  So `ilock` of
  what is already held and `iunlock` of what is not are excluded.
* `CopyInv`: an in-memory inode that is valid is the one on the disk, but for
  three places: an address that a call has assigned and not yet written
  (`Ahead`), and an inode given back whose `iput` has not ended (`Freed`).
* `PointInv`: whatever a process points to is in use on the disk; `SoleInv`: an
  inode that a call has just allocated, or is freeing, nobody else points to and
  no name leads to.  Its `ref` of one, from `IInv`, is why `iput` may free it.
* `CallInv`: what a call knows at each label: the types of its inodes, what it has
  looked up (`Going`: the entry that `unlink` found is still there, the name that
  `create` found free still is, since the directory is held in between), what it
  has built (`Making`), what it is giving back (`Ending`).
* `FreeInv`: a free inode has no links and no block; one in use without links has
  somebody who points to it, who will free it.
* `BlockInv`: a marked block has exactly one inode; a block that is not marked has
  no entries, so a new directory is empty.
* `DirInv`, `TreeInv`: a directory has a block, but while it is made or freed, the
  root is one, the ".." of a directory is where its name is, and names do not
  form a circle of two.
* `StayInv`: where no directory is removed, each has a name, but while it is made.
* `CountInv`: `nlink` is at least what is due: the names, the ".." of the
  directories inside, and the links that calls have counted and not yet made,
  or removed and still count (`PendIp`, `PendDp`); where no directory is removed,
  exactly that.  With it `nlink < 1` is no panic, and `iput` frees nothing that
  has a name.

The steps fall into three kinds.  Those that change no link, count or block
need only say what p's record comes to (lemmas `Quiet`, `Calmly`, `Level`).
Those that write an inode back (`Flushes`).  Those that take or free an inode or a
block, or make or clear an entry: there every part is redone, with lemmas on
the cardinalities of `To`, `Under`, `ForIp` and `ForDp`.  That the disk of `mkfs` satisfies
`CountInv` is lemma `InitLinks`: its links are the members of the tree.
`NoEmbrace` then follows from `LockInv` and `TreeInv`: who holds a directory waits only
for one that a name in it leads to, never for "..", and two such names would
be a circle.  `DiskSound` follows from `CopyInv`, `BlockInv` and `CountInv`, and
`NothingLost` from these and `FreeInv`, with nobody in a call.

The refinement of `NameSpace` adds `ToldInv`: at which labels a call has made its
change (`done`), and that its answer will say so (`Told`).  Each step is then one
of `NameSpace` or none, according to what it does to links and types: the
entries written by `create` and `link` are `Enter`, the one that `unlink` clears is
`Remove`, `ialloc` and the end of `iput` are `Take` and `GiveBack`, and `itrunc` of a
directory with something left in it is `Discard`.

*Mfs.*  `ImageSound` speaks of the image as a crash would leave it, and each `pwrite`
was computed before the ones ahead of it were done.  So the invariant says what
is still to come.  `PhaseInv`: the list `todo` is one of those that a creation
(`MakeFile`, `MarkDir`, `MakeDir`, `ClearDir`, `Enter`), a write (`MarkBlock`,
`LinkBlock`, `StoreBlock`) or a removal (`Unmark`, `Clear`) has left at this place,
each with what the image is by then: a block that is marked and has no inode
yet, an inode that has no name yet, an entry that names what is free.  There is
one lemma for each of these, and it takes the list to the next one.  Of the
image it knows that a file's addresses are filled from the front (`FileOk`), who has
which block (`OwnInv`), that a block of contents like a directory's is one's
(`BlockInv`), and that an inode has one name at most, none if it is free (`NameInv`).
`ReadyInv`: a request that is called for can also be served when the server crashes
in it and it is sent again, since enough blocks and inodes remain for the
crashes to come (`Spare`).  The blocks that a request takes are a choice
(`Ascending`); lemmas `Sorted` and `FreshBlocks` show that there is one to make, of
free blocks and of no block twice.

`TreeIs` takes the tree of `FileStore` apart into one `Node` for each inode: that
of the image if a name leads there, `Free` if not.  So most `pwrite`s, those of
bitmaps and of inodes without a name, change no node (`OnlyNameless`).  The one that
writes an entry is `Create`; the one that links a block `Grow`, the one that
fills it `Store`, and the one that frees the inode `Remove`.  Lemma
`OneAddress`: a file has a block at one address only, or a write to one address
would show at two.  `AnswersInv`: the reply that is computed, under way or received
is the answer that `FileStore` gives when the call takes effect; a handler that
writes nothing answers the truth about the tree as it is (`AnswersTrue`, one lemma
for each command), and the others fix their answer with their `pwrite`.

*WebServer.*  `UpInv` strengthens `SignalsKept` to hold while the producer has the
mutex.  `RingInv`: the ring is sorted, and its places are the `count` places from
`use_index` (lemmas `Wrap` and `Slots`: one turn around the ring).  Lemma
`Larger` says where the loop of `put` stops, and `PutRing` what it leaves:
everything behind moves one place back.  `OnceInv`: a connection is at one place
only.  With these the first of the ring is the least of the queue.

*Sbrk.*  `LockInv`: all threads take the one lock, so one is inside.  `SizesInv`: all
others know the size that thread has read.  `PagesInv`: what is mapped at each
place of `allocuvm` and `deallocuvm`, `0..page - 1` or what has not been given
back; from the moment a thread has asked to give everything back (`emptied`)
only that nothing else is (`Filled`).  Lemma `Pages` relates page numbers and
addresses: page `k` begins below address `a` exactly if `k < PGROUNDUP(a)`.  That
every page of the size is mapped when `sbrk` returns, also when `kalloc` fails
half-way, follows for processes that have not been emptied; that no page beyond
the size is mapped and none is lost, for all.

*UserSpace.*  `AlignInv`: `heap_bot` and `stack_low_bound` are multiples of the page.
`LayoutInv`: of a process of which no `exec` failed late (`intact`) the pages mapped
are those of program, heap and stack, and `sz` lies between the two bounds.
`FramesInv`: free pages and mapped ones are together `Physical`, so that no page is
lost in `copyuvm` or in a failing `sbrk`; lemma `Accounts` says what it takes for one
process to change its pages.  That what `argptr` accepts of a process other than
pid 1 is mapped, unless its end wraps, is lemma `ArgumentsInside`.

Only model-checked:

* all liveness: the provers handle neither fairness nor `ENABLED`
  (`EventuallyRuns`, `SleeperReturns`, `OrphansReaped`, `KilledExits`, `AllJoin`,
  `EveryoneAnswered`, `CallReturns`, the second half of `SharesKept`);
* `ImplementsMemory`, `ImplementsMalloc` and `HeldApart`: walks along a list, and
  the provers do no induction over data;
* `ImplementsTerminal`, and of `SharesKept` the bound of 200
  percent, not attempted.

## 6. Disagreements with the code

Six runs are violations, each against a statement of the repository:

* `proc_threads`: `wait` frees the page directory of a process whose threads
  live on (`K/proc.c:288`), which `user/ec_init_orphan.c` does on purpose.
* `lock_two_cpus`: the guard of `lock` is a field of the calling process
  (`K/proc.c:477`), which excludes nobody on another CPU; the assertion of
  `user/locks.c:43` fails with the Makefile's `CPUS := 2`.
* `mfs_unlink`: `set_bit(b, 0)` clears other bits (`p5a/server.c:160`, with
  `Math_Pow` of line 39), against "mark the corresponding bit to 0" (line 521).
* `space_args`: `exec` of `p3b` sets `heap_bot` before it can still fail
  (`exec.c:58`); the check that "the pointer lies within the process address
  space" (`syscall.c:58`) then accepts addresses that are not mapped.
* `reserve`: `total += percent` is interrupted by the timer, which takes the CPU in
  kernel mode too (`p2b/xv6/kernel/sysproc.c:58`, `trap.c:103`), and one of two calls is
  forgotten: more than 200 percent are given away, against "sum of reserve
  should not exceed 200" (`defs.h:148`).  `SharesKept` holds as long as no addition
  is lost.
* `heap_nextfit`: `Mem_Free` merges blocks without moving `nxt` off the header
  that disappears (`p3a_contest/mem_contest_t.c:114`), and the same memory is
  given out twice, against "don't overlap" (`p3a/writeable2.c:1`).

Met while modelling, where the repository promises nothing that a run could
refute; the hazards of `PROJECT.json` have the lines.

Kernel of `p4b`:

* `orphanage` gives back the slot of whatever process has the pid, for any caller and
  in any state (`K/sysproc.c:55-62`, `K/proc.c:358-385`).  Of a process that has not exited the
  kernel stack is freed while it is in use, and of a slot that was freed already
  with pid 0 the panic of `kfree` is reached; of a zombie that somebody waits for
  the address space is lost.  `Proc` has the call, with every pid;
* `sbrk` that would give back everything unmaps all pages and then fails, since `growproc`
  takes the size 0 for an error, and leaves `sz` as it was (`K/proc.c:114`); one
  below 0 wraps in `deallocuvm`, changes nothing and succeeds;
* a process (not a thread) that outlives its parent is taken for a thread by
  `wait` (`K/proc.c:285`), and its address space is never freed;
* `kill(0)` marks an unused slot, and the process created there is killed at
  birth (`K/proc.c:561`);
* on two CPUs `unlock` may find nobody asleep yet and the sleeper stays
  (`K/proc.c:479`): `Mutex`, `WakeupsKept` and `AllJoin` are claimed for one CPU;
* a killed pipe writer leaves bytes in the pipe and wakes no reader
  (`K/pipe.c:85`); a `kill` between the test of `killed` and the sleep is
  noticed only at the next wakeup;
* a failed disk read leaves a buffer marked valid (`K/ide.c:105`);
* a file opened by a thread is stored in the tables of all slots with its page
  directory, dead ones too, at a number that may differ from the one returned
  (`K/sysfile.c:54-65`), and `f->ref++` there holds no lock.  With
  `Programs = {"any"}` all properties of the part "files" but `TypeOK` fail; in
  the run threads open files in turns, and the counts are then never too small;
* a directory that is removed while a process stands in it keeps its "..", and
  `namex` follows it to an inode that may since be another one (`K/fs.c:588`);
  something can be created in a removed
  directory (`K/sysfile.c:248`), and nobody frees it afterwards.  So "dots" removes
  no directory, and `NothingLost` is claimed for "dots";
* more files can be open (`NFILE` is 100) than there are inodes in the cache
  (`NINODE` is 50), and `iget` panics when it is full (`K/fs.c:211`);
* a thread cloned by a thread gets that one's `mem_lock`, and a `clone` during
  `sbrk` copies the old `sz`: both make two threads map one page ("remap").
  `Sbrk` leaves both out.

`p2b`: `total` is raised also by calls that fail and is never lowered; an unsigned
sum that wraps would be accepted again (`sysproc.c:58`).  A slot keeps its
reservation for the next process.  Between the type (line 61) and the share
(line 62) a process is drawn with the bid it made before, and `SharesKept` does not count it.

`p3b`: when `sz` ends inside a page the stack can grow to the page right above the
heap, with no free page between them (`README.md:45-47` asks for one);
`argptr` refuses the process with pid 1 nothing (`syscall.c:67-70`), and of all others
accepts a pointer whose end wraps around 2^32: `SpaceLaidOut` claims that
arguments are mapped for neither;
`fetchstr` reads the byte at `sz` even if it is not mapped (`syscall.c:44`);
`sbrk` below `heap_bot` unmaps the program, and the next `fork` panics (`Shrink`
leaves it out); `exec` keeps the old `max_stack_page`, and `new_exec` changes it
even when it fails.

`p3a`: `Math_Pow` of `mem1.c` multiplies as that of `p5a` does, so `Mem_Free` clears
other bits than its own; `Mem_Free` of `mem3.c` reads through a null `next` when the
block is the last.  `p4a`: a request that is refused (404, 501) leaves
`pre_handle` with a structure it never filled in (`request.c:180-190`), which the
producer then puts into the ring; with small requests coming for ever a
large one is never served.  The project's own tests of "smallest file first"
fail (`report.txt:47-53`): a consumer holds the mutex while it answers, so requests
rarely meet in the ring; `ImplementsSff` is about the order in the ring only.

`p5a`: a late duplicate of an answer is taken for the next one (with
`MaxFlight = 2` `ImplementsStore` fails); a crash in `unlink` leaves an entry for
a free inode, on which the repeated request then stops the server; the zeros
for a gap in a file are written at address 0xFFFFFFFF, so the gap shows what
its blocks held before (`FileStore` leaves it open); a full table overruns its
array; `unlink(".")` removes a directory from itself.

## 7. What is not modelled

`PROJECT.json` lists each part.  Whole parts: boot code, interrupt controllers
and multiprocessor tables run once and set up hardware; `syscall.c` has no
state; `printf`, `string.c`, `sh.c` and the test programs are sequential; `p1a`
and `p2a` are small programs around libc; `mkfs` and the Makefiles run on the
host; `p1b` and `p4b/xv6` are earlier copies of the kernel.

In the modelled components:

* `FsInode`: that `ialloc` reads one block of inodes after the other and can miss one
  freed behind it (`K/fs.c:155-166`; it takes the least free inode), indirect blocks,
  device inodes (`mknod`), `readi` and `stat`, a full inode cache, sizes of files; `FileTable`: `sys_pipe`, reading and writing;
* `Sbrk`: page-table formats and the free list of `kalloc.c`; `Umalloc`: the
  unlocked use by `thread_create` and its threads, of which nothing says that it
  should work; `Console`: `consolewrite`, the screen, keyboard tables, the UART, a
  `kill` between the test of `killed` (`K/console.c:232`) and the sleep (237), which is one step;
* `Reserve`: `getpinfo`, `kill`, a second CPU; `UserSpace`: `fetchint` and `fetchstr`,
  programs of several segments, the variant `xv6_xuyi`;
* `mem1.c`, `mem3.c` and the copy under `xuyi` of `p3a`, which fail at once
  (section 6); errors of `request.c` in `p4a`;
* `BufCache`: a disk that fails; `Mfs`: names "." and "..", full tables, a crash
  in the middle of an `unlink`, duplicated answers, the refusals of inode or block numbers
  out of range (`p5a/server.c:172`, 211, 235, 247, 317, 329, 348, 464);
* `WebServer`: a request that is refused (section 6).

## 8. Plan

Done: all components with concurrency, failures or state of their own have a
module, and the safety of scheduler, process table, buffer cache, pipes, open
files, inodes and names, the image of the file server, user lock, web server, `sbrk`
and the memory of `p3b` is proved, the refinements of `BlockStore`, `Fifo`, `FileStore`, `Mutex`, `NameSpace` and
`SffQueue` with it.  Next, the most important first:

1. *Console*: the refinement of `Terminal`, with the lemmas on `Mod` of
   `ResourceProofs`.
2. *FsInode*: indirect blocks in `itrunc` with a crash between them; device
   inodes.  *FileTable*: `sys_pipe`, composed with `Pipe`.  *UserSpace*: the variant
   `xv6_xuyi` of `p3b`.
