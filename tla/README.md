# A TLA+ verification of the CS-1217 operating systems repository

The repository holds the code of an operating systems course. Two kernels carry
its own logic: xv6 in `lab-2/` (with three schedulers to choose from; `assignment-3/`
has the same kernel with a system call trace and `date`), and JOS in `lab-3/` (with
physical page management and a kernel monitor; `lab-1/jos` is an earlier state).
The modules here model the parts of these kernels, and of the programs on top of them,
that are hard to test, TLC checks them on small instances, and TLAPS proves most of the
safety properties and all refinements for every size. Source lines below are relative to `src/`.

## 1. Inventory

| component | state | operations | hard part | what makes it correct |
|---|---|---|---|---|
| process table (`lab-2/proc_original.c`, `trap.c`, `sysproc.c`) | `ptable`, `nextpid`, per CPU `proc`, saved contexts, `ptable.lock`, `tickslock` | fork, exit, wait, kill, yield, sleep/wakeup, timer | lock handed over through `swtch()`, lost wakeups, orphans, failing forks | one CPU per process, no wakeup lost, pids unique, pages conserved, killed processes end |
| round robin (`proc_original.c`) | position of each CPU in the table | `scheduler()` | two walks under one lock | no starvation, bounded overtaking |
| MLFQ (`proc_mlfq_v02.c`) | queues, priorities, budgets, `PromoteAtTime` | `scheduler()`, wakeup, fork, `setpriority` | entries leave and re-enter queues on many paths | no process lost, budget limits time at a level, promotion happens |
| lottery (`proc_lottery_v02.c`, `rand.c`) | tickets, number drawn | `scheduler()`, `settickets`, `getpinfo` | sum and search are two passes, rejection sampling | every draw has a winner, more tickets are no worse |
| spinlocks (`spinlock.c`) | `locked`, per CPU IF, `ncli`, `intena` | acquire, release, pushcli, popcli | interrupts, `swtch()` with a lock held | exclusion, no deadlock with a handler, interrupts as each thread left them |
| buffer cache, sleep locks, disk (`bio.c`, `sleeplock.c`, `ide.c`) | buffers, LRU list, request queue | bread, bwrite, brelse, iderw, ideintr | recycling, sleeping on locks and on the disk, kill | one copy of each block, every request answered, no forgotten sleeper |
| log (`log.c`) | disk, log blocks, header, cache, `outstanding`, `committing` | `begin_op`, `log_write`, `end_op`, commit, recovery | crash between any two writes | atomic and durable transactions, space reserved, no sleeper forgotten |
| inodes and path names (`fs.c`, `sysfile.c`) | dinodes, inode cache, directories | open, create, mkdir, mknod, link, unlink, chdir, close | references and locks on every error path, unlink of what is in use | exact counts, nothing dangling, link counts cover names |
| contents of files (`fs.c`, `file.c`) | bitmap, blocks, `addrs`, size, offsets | filewrite, fileread, itrunc | several steps per block, chunks, other writers | plain byte sequences, blocks owned once, chunks fit the log |
| pipes (`pipe.c`, `file.c`) | ring, counters, open ends, lock | read, write, close | sleeping on both sides, kill, last close | FIFO, no lost wakeup, no use after free |
| xv6 memory (`vm.c`, `kalloc.c`, `exec.c`, `growproc`) | free list, page tables, contents, sizes | sbrk, fork, exec, exit | memory runs out half way | private memory, every page in one place |
| console, keyboard (`console.c`, `kbd.c`) | input ring `r`, `w`, `e`; modifier state | typing, line editing, consoleread | wrap-around, full ring, kill | readers get the lines typed, none is forgotten |
| shell (`sh.c`) | descriptors, file references, pipes | runcmd | who keeps which end open, failing calls | pipelines end |
| malloc (`umalloc.c`), grep (`grep.c`) | free list; line buffer | malloc, free; match | ends of the circular list; long lines | heap partitioned and coalesced; prints what matches |
| JOS memory (`lab-3/kern/pmap.c`, `monitor.c`) | `pages[]`, free list, page directory and tables, TLB | `page_alloc/free/insert/remove`, `pgdir_walk`, `boot_map_region`, `setperm` | re-insertion, memory for tables, stale TLB | counts equal mappings, free pages unreachable, TLB sound |
| JOS debug information (`lab-3/kern/kdebug.c`) | search interval | `stab_binsearch` | mixed types, equal addresses | the file and the function of an address |

Interaction: processes enter the kernel through `trap()`; every blocking operation
ends in `sleep()` and is ended by `wakeup()` or `kill()` of the process table; file
system calls bracket their writes by `begin_op()`/`end_op()`, and the log pins buffers
of the cache until it has written them; pipes are reached through file descriptors whose
reference counts decide when an end is closed. The schedulers are alternatives, each one
a full `proc.c`: they share the process table. JOS is a separate program.

`PROJECT.json` lists every component with its status and every hazard with its line.

## 2. Modules

    ProcTable ── RoundRobin ── RoundRobinHistory ── MCRoundRobin; MCRoundRobinLive
        │   └─── MLFQ ── MLFQHistory ── MCMLFQ
        │   └─── Lottery ── MCLottery
        └─ ProcTableProofs ── SchedulerProofs (RoundRobin, Lottery), MLFQProofs
    BlockStore ◁ BufCache ┐                        (◁: is implemented by)
    TxDisk     ◁ Log      ┴ MCStorage
    ByteFiles  ◁ FileData ┐
    Fifo       ◁ Pipe     ┴ MCFileIO (with Log), MCPipe (Pipe alone)
    FileSys ── MCFileSys
    AddrSpace  ◁ PageMap ── MCPageMap
    UserMemory ◁ Vm, LineInput ◁ Console,
    Spinlock, Kbd, Shell, Umalloc, Grep, KDebug ── MCParts
    StorageProofs (BufCache, Log), FileIOProofs (FileData, Pipe), FileSysProofs (FileSys),
    JOSProofs (PageMap, KDebug), PartsProofs (Spinlock, Console, Kbd, Vm, Umalloc)

MCStorage, MCFileIO and MCParts put independent modules side by side: the variable
`part` is chosen at the start, and a behaviour takes the steps of that part only.

**ProcTable.** A CPU runs its scheduler thread or the kernel thread of `curproc[c]`.
A critical section under `ptable.lock` or `tickslock` is one step, except where the
lock is carried across `swtch()`: `ptlock` stays set from `sched()` until the thread
that is switched to releases it. `fork()` has four steps because allocproc's scan,
kalloc, copyuvm and the last locked assignment are apart. `resume[p]` is the return
address in the saved context. Memory is counted, one page for a stack and one for a
page table. `rem[p]` is what is left of `sleep(n)`. A scheduler that holds the lock
may dispatch any RUNNABLE process: the policy is left to the modules above it.
`KillPids` does not contain 1: `exit()` panics when init exits. init's own `exit()`
on a failed fork of the shell is left out for the same reason.

**RoundRobin, MLFQ, Lottery** extend ProcTable; their scheduler steps are those of
ProcTable with the policy's guard and variables. MLFQ keeps `mlfq_queue_size` as the
last index by way of `Len`, with its off-by-one searches, the order of the loops in
`scheduler()`, and the three places where a process is put back. `ticks` is kept as
differences only. MLFQ is for one CPU: `setpriority()` takes no lock, so on two CPUs
the code has a data race that later work has to model as torn reads. In Lottery
`genrand()` yields any number of `0 .. RAND_MAX`; bins and rejection are those of
`random_at_most()`. The global `pstat` that `scheduler()` fills is read by nobody and
left out (its loop never increments `i`, and `p->inuse`, which `getpinfo()` reports, is
never set). `getpinfo()` with a valid pointer changes nothing the models keep.
RoundRobinHistory and MLFQHistory add a history variable each, which no guard reads: who
was run while a process waited, and the ticks a process has used at its level.

**Spinlock.** Each thread (processes and the CPUs' schedulers) has a stack of frames:
its own code, interrupt handlers on top of it, and `forkret()` of a new process. A
frame knows the locks it holds. `acquire()` is pushcli and the xchg that succeeds;
release is the store and popcli: handlers come in between where IF allows. `Sched` and
`Dispatch` are the two halves of the switch, with `intena` saved by `sched()`. Locks
are numbered in an order in which the kernel's nesting has no cycle, and taken in ascending
order; `ptable.lock` may be anywhere in it (`wait()` takes `kmem.lock` under it, `sleep()`
takes it under its caller's lock), and the run has a lock on either side of it. It is the
ground for taking a critical section as one step elsewhere.

**BlockStore / BufCache.** BlockStore promises one content for each block, changed by
its holder only, and a disk that follows. BufCache has `bget` with the LRU list,
`refcnt`, `B_VALID`, `B_DIRTY`, the sleep lock of each buffer with its sleepers, and the
driver: queue, the drive's command, its interrupt. A section under `bcache.lock`,
`idelock` or a sleep lock's spinlock is a step. Each use of a buffer is a "user" of its own:
a process may hold one while it reads another (`ProcessOf`, `Under`, `Turn`, `MayRead`), as
`write_log()` and `install_trans()` (`log.c:75-76,183-184`), `bmap()` (`fs.c:389-392`) and
`itrunc()` (`fs.c:422-426`) do; `Under` says which block is read under which, without a
cycle in the run. `PinBlock` is what `log_write()` does to a buffer. `kill()` wakes sleepers
at any time. Nothing is assumed about NBUF. Where `bget()` finds no buffer it panics: the
use that called it goes no further while there is none, but the others go on, and it may
when one is free again, so the model has more behaviours than the machine, which stops. That
`bget()` does find one (`BufferLeft`) is a theorem under the hypothesis `EnoughBuffers` only:
a buffer for each use beside the pinned ones. `param.h` has NBUF = LOGSIZE = 30 and NPROC 64
and does not meet it (section 5). Not modelled: reads the drive reports as failed.

**TxDisk / Log.** TxDisk is the promise: operations change a view; the durable state
changes only while no operation is active, to the whole view; a crash falls back to
it. Log has the disk (home blocks, log blocks, header), the cache with B_DIRTY, and a
program counter for each process. Each `bwrite()` of commit and recovery is a step and
`Crash` may come before any of them. `bget()`'s recycling of a clean buffer is a step
that may happen at any time. Mapping: `durable` is what recovery would make of the
disk, `view` is what `bread()` returns (or, until recovery is done, `durable`).

**FileSys.** Inodes on disk and in the cache with `ref`, `valid` and lock; directories
as functions from names to inodes. What a process does under one `ilock()` is one step;
where the code keeps a lock while it takes another, the lock is owned (`lock[i]`).
`iput()` is two steps, the test under the lock and the decrement under `icache.lock`, with
the return point of the caller in `ret`. A process has one descriptor, so `open` can fail
for want of one. The inode cache has room for all inodes (its panic is out of reach when
NINODE references suffice). Path names have up to two elements; "." is walked, ".." is
not. Running out of inodes is a panic, where the model stops. Transactions are in Log.

**ByteFiles / FileData.** ByteFiles is what a file is: a sequence, changed by whole
chunks. FileData has the bitmap, the blocks, `addrs` with the indirect block, and per open
file the offset and where it is in `filewrite()`: allocate (bit, then zeroing, then the
number), copy a round, end the chunk. A round needs up to two allocations. `itrunc()` frees
slot by slot. `logged` collects the blocks of a transaction. The contents at the time the
inode was locked are kept as a history variable: that is what others see until `iunlock()`.
A block is BSIZE words, which a block number fills one of.

**Fifo / Pipe.** Pipe keeps `p->lock` as a variable: between the test of `killed` and
the point in `sleep()` where the process is SLEEPING other steps can happen. The
counters are numbers below `W` (2^32 in the code). Each process holds one descriptor
of its end; `Close` is the reference count of `fileclose()`.

**UserMemory / Vm.** UserMemory: each process has an image of its own, which sbrk, fork,
exec and stores change and failing calls do not, but for `sbrk(-sz)`, which fails and empties
it. Vm has pages with contents (junk after `kfree()`) and page tables (kernel pages, tables,
entries, the guard page without PTE_U). Every `kalloc()` is a step: those of `setupkvm()`
(KVM of them, the directory among them), the page that `allocuvm()` or `copyuvm()` takes
(`job.page`, in no page table yet) and the table that `mappages()` may need for it; other
processes come in between, and each may be refused. On failure the page in hand and all that
was built go back, a half-built kernel part too. `GiveUpAll` is `sbrk(-sz)`: the pages go,
`sz` stays. A `fork()` of such a process panics in `copyuvm()`, where the model stops it; the
process itself may go on calling, which without code it cannot. Freeing several pages is one
step. An address is a byte number, a page PGSIZE bytes. An ELF program is one segment at 0;
`copyout()` of the arguments is one byte at the top of the stack. Left out: the kernel stack's
page (in ProcTable), and the TLB (when `growproc()` fails it skips `switchuvm()`, so freed pages
stay reachable until the next switch).

**LineInput / Console.** LineInput: lines typed and edited, taken by readers in order.
Console has the ring with counters below UMOD, `cons.lock` held from the test to the
sleep, readers that are killed. ^P is left out (procdump prints). **Kbd** models the bytes of keys
with and without the prefix 0xE0; of the tables the modifiers and one letter.

**Shell.** Command trees, processes, descriptors with `fdalloc()`'s lowest free number,
file references, pipes of PIPESIZE bytes. Each system call of `runcmd()` is a step, and
`fileclose()`'s call of `pipeclose()` is one of its own. Programs write, filter or read,
and may stop at any time; every call of the shell may fail. Redirection and the parser
are left out.

**Umalloc, Grep, KDebug.** Umalloc walks the list one step at a time; sizes are in
headers. Other users of `sbrk()` may come between two `morecore()`. Grep has the read loop
and the matcher; `InLanguage` says what a pattern means, independently of the code. KDebug
is `stab_binsearch()` round by round on every table of a few entries.

**AddrSpace / PageMap.** The promise is a map from user addresses to pages, with pages
in use until their last mapping goes. PageMap has reference counts, a free list and
page tables that are themselves the contents of pages, which are full of junk unless
`page_alloc(ALLOC_ZERO)` clears them. Functions are operators from a machine state to
a machine state, composed as the calls are. The kernel runs with interrupts off on one
CPU, so a function is one step; the CPU may load a translation into the TLB between
any two. `mem_init()` maps its regions page by page. Assumed: base memory ends at the
I/O hole (`NBASEMEM = IOHOLE`, 640 KB); with less, `page_init()` counts the pages in
between as free extended memory. Left out: the recursive entry at UVPT, and 4 MB pages,
which no caller asks for (the code would fall through to the 4 KB loop and take the
large page for a page table).

Definitions named "Faulty variant" are plausible mistakes; they are in no
specification and show that the properties notice them.

## 3. Runs

| run | instance | shows |
|---|---|---|
| `round_robin` | 2 CPUs, 4 slots, 4 pages, pids to 4, `sleep(1)`, kill of 0, 2, 3 | types, one CPU per process, living parents, nobody asleep who should have been woken, no page lost in failing forks; nobody is run twice by a CPU over a waiting process |
| `round_robin_live` | 1 CPU, 3 slots, fair | no starvation; killed processes end; orphans are reaped; `sleep` returns |
| `mlfq` | 1 CPU, 3 slots, 2 levels, budget 2, fair | no RUNNABLE process lost; budget limits time at a level; init, in no queue at first, gets the CPU |
| `mlfq_promotion` | 1 CPU, init alone, fair | *violated*: a promotion that is due never happens |
| `lottery` | 2 CPUs, 3 slots, up to 3 tickets, `RAND_MAX` 15 | every draw has a winner; more tickets are no worse |
| `storage` | cache: 2 processes, one of which may hold two blocks, 3 blocks, 2 buffers, 1 pinned, fair disk; log: 2 processes, 2 blocks, 2 values | implements BlockStore, nobody waits in vain, requests are answered; implements TxDisk through crashes, quiet means durable |
| `file_io` | files: 2 inodes, 3 open files, 8 blocks of 2 words, 1 direct block, 3 calls; log space: 3 processes; pipe: 1 reader, 2 writers, PIPESIZE 2, counters mod 4 | implements ByteFiles, blocks owned once, chunks fit; sleepers have to wait and admitted operations fit; implements Fifo across wrap-around, no lost wakeup (but for a killed writer), no use after free |
| `file_system` | 2 processes of 2 calls each on a file with two names and a directory | reference counts exact, nothing dangling, link counts cover names |
| `file_system_deadlock` | the same without the path "." | *violated*: `create()` of one process and `unlink()` of the other wait for each other's inode |
| `pipe_lost_wakeup` | 1 reader, 2 writers, PIPESIZE 1 | *violated*: a killed writer leaves a reader asleep over bytes |
| `page_map` | 11 pages, 4 of them left after boot, 3 addresses in 2 tables | implements AddrSpace; counts, TLB and free list are right |
| `parts` | see `MCParts.cfg` | spinlocks; memory of processes (implements UserMemory); console (implements LineInput) and keyboard; pipelines end; heap partitioned; grep prints what matches; debug information found |

Bounds. `MaxPid` bounds the number of forks, `MaxSleep` the argument of sleep,
`KillPids` and `PriorityPids` the arguments of kill and setpriority, `MaxEntries` the
length of an MLFQ queue (a state constraint; the real arrays hold 2*NPROC. Until init
runs nothing forks and the queues stay below the bound, so InitBoots does not depend on
it), `MaxN` the bytes of one pipe call, `OpBlocks` the blocks of one operation, `VAs`,
`PermArgs`, `SetBits` the arguments of the page functions, `MaxPinned`, `Written` what
is pinned and changed in the cache, `MaxCalls`, `MaxWrite` calls and their size,
`Paths` and `Images` the names and the file system to begin with, `MaxHeld` the locks
held at once, `Programs`, `Increments`, `Targets` what processes do with memory,
`MaxRead`, `Keys`, `Commands`, `NWrites`, `HeapEnd`, `MaxUnits`, `MaxRe`, `MaxText`,
`NStabs`, `MaxAddr` the inputs of the parts.

Three slots give a parent, a child and a grandchild, hence an orphan; four slots on two CPUs
give two forks at a time, and four pages let one of them fail at either allocation. A zombie
that only init can be woken for takes three generations and six pages, more than
`round_robin` has; SleepSafety proves that case with all others. Two blocks tell a partial
transaction from a whole one. Two buffers for three blocks and three uses, one of them
inside another, force recycling while one is pinned, and the cache runs out. One direct
block and three-word writes reach the indirect block, cross block boundaries and take two
chunks. Two slots in the ring with counters mod 4 wrap around within a few bytes, as do
three places in the console's ring with counters mod 6. Eleven pages for two processes,
whose page tables take three each (directory, kernel table, user table) or four, are few
enough for every `kalloc()` of fork, exec and sbrk to fail and enough for each to succeed;
increments of -3, -2 and 3 bytes with pages of two give shrinking by one page and
by two, to the middle of a page and to nothing. Which of the free pages `kalloc()` returns does not matter, so states
that differ in the names of pages alone are one (`VIEW PartsView`: for each page its places
and its contents, with sizes and calls). Three locks have `ptable.lock` in the middle. Five
processes run a pipeline of three programs; two bytes each for pipes of one make writers
wait for room as well as readers for bytes. Four pages after boot are enough for two page
tables and two shared pages in JOS, and few enough for page tables to fail.

Deadlock is checked except where all may end or stop: pipes, files with their bound of
calls, the file system (see `file_system_deadlock`) and the parts; where waiting matters
there an invariant says so (UsersServed, InputFlows, PipelinesSound, HeapSound).

Fairness (`RRFairness`, `MLFQFairness`, one CPU): scheduler steps and steps with
interrupts off are weakly fair, since nothing else can run on that CPU. The timer is
strongly fair: a pending LAPIC interrupt is taken as soon as interrupts are on. Steps
of kernel code that the timer can push back are strongly fair for each process, since
each time slice executes some of them. `InitWaits` is strongly fair because init.c calls
`wait()` in an endless loop. User programs owe nothing. With two CPUs `acquire()`'s
xchg loop gives no fairness, and no liveness is claimed. `BufFairness`: the drive
answers, its interrupt is taken, and a process inside `iderw()` is scheduled again
(RunnableRuns); what processes do with a buffer they hold is not assumed to end. No
liveness is claimed of log, pipes and pages; their lost wakeups are stated as invariants.

## 4. Proofs

Each theorem holds for every value of the constants that satisfies the assumption of its
module. "Property" is the definition that a run checks on a small instance.

| module | theorem | property |
|---|---|---|
| ProcTableProofs | `TypeCorrect`, `Exclusion`, `PidUniqueness` | `TypeOK`, `OneCpuPerProcess`, `PidsUnique` |
| | `FamilySafety` | `LiveParent` and `NoLostChildExit` |
| | `KillReachesWait`, `TickSafety`, `SleepSafety` | `KilledNotInWait`, `NoMissedTick`, all together `SleepersBlocked` |
| | `PageSafety` | `PagesConserved` |
| SchedulerProofs, MLFQProofs | `RoundRobinImplements`, `LotteryImplements`, `MLFQImplements` | each scheduler's specification implies `Spec` of ProcTable |
| | `RoundRobinSafety`, `LotterySafety`, `MLFQSafety` | the invariants carry over to the schedulers |
| SchedulerProofs | `WaitingIsBounded` | `BoundedOvertaking` |
| | `LotteryIsFair` | `LotteryFair` |
| MLFQProofs | `MLFQLosesNobody`, `FeedbackHolds` | `RunnableQueued`, `BudgetLimitsLevel` |
| StorageProofs | `BufWaitsEnd`, `BufOneCopy` | `WaitsEnd`; BlockStore is implemented (`OneCopy`) |
| | `BufNoPanic` | `EnoughBuffers` implies that `bget()` always finds a buffer (`BufferLeft`) |
| | `LogSpaceManaged`, `LogQuietIsDurable`, `LogAtomic` | `SpaceManaged`, `QuietIsDurable`; TxDisk is implemented (`Atomic`) |
| FileIOProofs | `BlocksHaveOneOwner`, `ChunksFitLog`, `DataImplementsFiles` | `BlocksOwnedOnce`, `ChunkFitsLog`; ByteFiles is implemented (`PlainFiles`) |
| | `PipeUsersServed`, `PipeIsFifo` | `UsersServed`; Fifo is implemented (`FirstInFirstOut`) |
| FileSysProofs | `InodesAreSound`, `LinksAreCovered` | `InodesSound`, `LinksCovered` |
| JOSProofs | `PagesAreAccounted`, `TlbIsSound`, `PageMapIsAddressSpace` | `PagesAccounted`, `TlbSound`; AddrSpace is implemented (`AddressSpace`) |
| | `StabsFound` | `RegionsRight` |
| PartsProofs | `SpinlocksSound` | `LocksSound` |
| | `ConsoleInputFlows`, `ConsoleIsLineInput` | `InputFlows`; LineInput is implemented (`LineDiscipline`) |
| | `KbdModifiersFollowKeys` | `ModifiersFollowKeys` |
| | `VmMemorySound`, `VmPrivateMemory` | `MemorySound`; UserMemory is implemented (`PrivateMemory`) |
| | `HeapIsSound` | `HeapSound` |

### The arguments

None of the properties is inductive alone. Each module states an inductive invariant as
a conjunction of named parts; the proof that a step preserves it has a step for each
action and below it one for each part the action can disturb.

**ProcTable.** The invariants are built in layers. `NpOwned` (a process inside fork has
an EMBRYO of its own) keeps other forks, wait and kill away from a half-made child and is
needed by almost all others. `InitLives` (init is never killed, never exits) gives orphans
a living parent; it rests on `KillPids` without 1. `PidsBelowNext` makes a new pid fresh.
`ParentLinks` (the child about to be published belongs to its forker; nobody is its own
parent) carries LiveParent through fork. `TickslockOwned` (on the way into `sleep()` the
process is running and its CPU holds tickslock) is why no tick is missed. `PagesOwned`
(which states own a stack and a page table) turns each step of PagesConserved into the
change of a cardinality by one (`OwnersChange`, by the library's facts on finite sets).

**MLFQ.** RunnableQueued is preserved only together with `WaitingQueued`: sleeping
processes stay in their queue, so that `wakeup1()` and `kill()`, which make them RUNNABLE,
lose nobody even where their search through the queue stops short. BudgetLimitsLevel rests
on `Charged`, about the history `used` of MLFQHistory: what a process has used at its level
and what it has left make up one budget, but for the ticks of its present run (`elapsed`),
which are charged when it leaves the CPU. `setpriority()`, fork and promotion give a full
budget or change nothing (`Topped`); a tick counts in the use and in the run. The demotion
goes through `setpriority(p->pid, ...)`, so it must hit p and nobody else: `LivePids`
(ProcTable: a slot in use has a pid, a process on a CPU is in use) with PidsUnique.

**Round robin.** BoundedOvertaking is an action property over the history `overtaken` of
RoundRobinHistory. `Overtaking` says where the walk of a CPU is that has run q while p was
RUNNABLE: between q and p, past both, or, once it has begun again at the top, before both;
and that between q and p it cannot stop (`Walking`), since it lets ptable.lock go only when
nothing RUNNABLE is before it. The process it runs next is therefore never one p has seen.

**Lottery.** The number drawn is below the sum of the tickets (`DrawInRange`) while the
lock is held, and the search stops at the process whose partial sums enclose it. The
partial sums are a recursive function over the table; what is needed of it is shown by
the least slot where it would fail. That `bins` are equally large makes the winners' shares
of the random numbers ordered like their tickets.

**BufCache.** `BufInv` has the shape of the LRU list (`BufType`), `refcnt` as the number of
users plus the pin (`References`), who owns a sleep lock (`Ownership`), that exactly the
buffers with an unanswered request are in the driver's queue (`Queueing`), that pinned
buffers are few (`FewPinned`), what B_VALID and B_DIRTY mean (`Flags`), that cache, drive
and disk agree (`Media`), and that nobody sleeps on a free lock (`LockSleepersBlocked`).
All of it holds for any NBUF. `BufNoPanic` alone counts buffers, from its hypothesis
`EnoughBuffers`: the other users hold one each, the log holds MaxPinned, so one is free.

**Log.** `LogInv` ties the phases of commit and recovery (`Phases`) to the header in memory
and on disk (`Shape`) and to what the log blocks, home blocks and cache hold
(`Data`); with `Space`, which counts reserved blocks as pairs of operation and block
number, and `SleepersMustWait`. Atomicity is then one statement about what recovery would
make of the disk: of all writes only the header's changes it, to the view that the
operations of the commit have made; erasing the header comes when home blocks have it all.

**FileData.** `DataInv`: who has an inode locked (`Locking`), how far a chunk is (`Chunks`),
which numbers inodes and indirect blocks may hold (`Indirect`), that a block is in use just
when a place in a file, or one allocation under way, has it (`Owned`), that files have a
block for every word (`Covered`), and that a transaction holds nothing but the blocks of its
chunk, their bitmap blocks, the indirect block and its bit (`Logging`). ChunkFitsLog follows
by counting: a chunk has at most ChunkMax words, so it touches one block more than it can
fill, and a block it only begins inside is not new. `Writing` says what is in the blocks
while a chunk is written: the old words, and the new ones up to `pos`; with it each step is
a step of ByteFiles or none.

**FileSys.** `FsInv` follows a process through the stages of its call (`Stage`, an `iput()`
on the way aside): which references it has (`Shape`) and which locks (`LockOwned`). The
cache is write-through (`Cached`), so the disk alone can be reasoned about. What a process
uses or a directory names is allocated (`Alive`). RefsExact is inductive beside these; the
link counts are not: `link()` counts before it writes the name and `unlink()` erases before
it counts, so `LinkBook` adds to names and ".." the links owed by calls under way (`Debt`),
and one for the root, which has no name. That a count reached 0 then means nobody is between
the two halves. `Erasing` (the entry an `unlink()` has found stays while the directory is
locked), `Making` (the inode of `ialloc()` is its maker's alone until it has a name, since
it has no link yet) and `Linking` (no second name for a directory) complete it. Steps fall
in two classes: those that leave the disk alone and get new inodes by name only
(`QuietStep`), and those that change inodes the process uses and directories that nobody
else has locked (`ChangeStep`).

**Pipe.** `PipeInv` has who holds the lock (`LockHeld`), what closed ends look like
(`EndsClosed`), and when readers and writers may sleep (`ReadersWait`, `WritersWait`);
`RingFits` says the difference of the two counters modulo W is at most PIPESIZE. The
refinement maps the ring to the bytes between the counters; reading and writing
positions do not meet because PIPESIZE divides W and is less than W (`FullTurn`,
`ModSame`, `ModDiff`). With `W = PIPESIZE` a full pipe would look empty.

**PageMap.** The invariant `PageInv` speaks about a machine state, so that it can be said of the
states between two calls too: page tables are apart and no free page is listed twice
(`Struct`), user mappings lead to allocated pages that are no tables (`UserPages`), counts
equal mappings (`Counted`), and the TLB follows the tables (`Cached`). `page_insert()`
counts the new mapping first and removes the old one after that: in between one page has
an extra reference, which `Counted` has as a parameter and which is why re-insertion does
not free the page. `Booting` follows `mem_init()`.

**Spinlock.** `SpinInv`: interrupted code holds no lock (`Interrupted`), a thread is on one
CPU at most (`Placed`), what runs on a CPU explains its `ncli`, IF and `intena` and owns
the locks marked as the CPU's (`CpusRun`), and a thread that no CPU runs counts on
`ptable.lock`, which `swtch()` hands over to it (`OthersWait`).

**Console, Kbd.** `ConsoleInv`: the three indices are in order modulo UMOD (`InOrder`),
a reader keeps `cons.lock` from its test to its sleep (`ReadersHold`), and the part after
`w` holds no newline (`LineOpen`). `KbdInv` follows the bytes of one key under way.

**Vm.** `VmInv`: no page has two places in a page table (`TablesApart`); the pages are
divided among the free list, the page tables of processes and the calls under way, each with
the page table it makes and the page in its hand (`PagesDivided`, `Made`); the page table a
call extends has just the pages below `at` (`Progress`), which is why "remap" is out of reach
and why an error path that frees by size frees all there is. For a process's own page table
that holds only while its first page is there (`Within`, `Whole`): `sbrk(-sz)` takes that page,
no later sbrk brings it back, and a fork that has copied a page shows it is there. A page table
is made only inside fork() and exec() (`Calling`), and no child slot is taken twice
(`ChildrenFree`). Since each step writes to free pages and those of one process only, what the
others see stays (`OthersSame`). `VmData` adds what the new pages and the page in hand hold:
zeroes, the copy of the parent's page, the program (`Filling`).

**Umalloc.** `HeapInv`: the free list is a ring in the order of addresses that wraps at base
(`Ring`); the blocks in the list, in use and under way to the list are not empty, do not
overlap and make up the heap (`Packed`); no two blocks of the list are neighbours
(`NoneJoin`); and a scan stands in the list (`CallAt`). `free()` has two joins, and between
them the list still names a block that is gone: `Halfway` says what holds there, with a
list in which the new block is not linked yet. `Listed` is the least set closed under the
links, so that a ring is all reached from freep (`AllListed`) needs no induction over walks,
only a least block that is not reached.

**KDebug.** `StabInv`: while a type is sought in a region, its stabs before `l` are not above
the address and those after `r` are, `r` is the end of the region or stands before a stab
of the type, and `addr` has moved to `addr + 1` only if a stab lies exactly at it
(`Searching`); so at the end `l = r + 1` separates the two. That the first stab is of no
file is what makes the test `lfile == 0` a test for failure. Where two stabs are a byte
apart, `addr + 1` is the next one and the separation is lost: hence the hypothesis of
`RegionsRight` (`ByteRegion`).

### The assumptions

* ProcTable: `KillPids` without 1 (section 2). Lottery: `NPROC * MAXTICKET <= RAND_MAX`.
* BufCache: nothing about `NBUF`; `BufNoPanic` alone has the hypothesis `EnoughBuffers`
  (section 2), which the constants of the code do not satisfy.
* Log: LogSpaceManaged has the hypothesis `LOGSIZE + OpBlocks < NLOG + MAXOPBLOCKS`, with
  NLOG the blocks mkfs reserves, the header among them: as both sizes are the same in the
  code, operations have to write less than they reserve. Section 5 says what happens otherwise.
  ChunkFitsLog shows of a chunk of `filewrite()` only that it writes at most MAXOPBLOCKS, so
  the two do not compose to the absence of the panic in `log_write()`.
* Pipe, Console: the size of the ring divides the counters' modulus and is less than it;
  512, 128 and 2^32 in the code.
* FileData: MAXOPBLOCKS is at least 6 (10 in the code): a chunk of one block needs that many.
* FileSys: the images to begin with are sound (`SoundImage`): entries name allocated inodes
  and link counts suffice, as mkfs and an orderly shutdown leave them.
* Kbd: `Keys` without byte 96, which with the top bit set is the prefix 0xE0.
* PageMap: a page has fewer mappings than `pp_ref` can count; `setperm` is not given PTE_P
  (section 5); the regions of `mem_init()` lie above UTOP and end within the address space.
* Vm: there are pages enough for the first process; a program is a finite sequence of
  bytes that ends below KERNBASE, which `allocuvm()` tests.

### Only model-checked

* Liveness (`round_robin_live`, `InitBoots` of `mlfq`, answered requests in `storage`):
  TLAPS as installed has no rules for fairness and ENABLED.
* Shell: `PipelinesSound` speaks of enabled steps.
* Grep: the matcher and its reference are recursive over the pattern, and what a recursive
  definition computes cannot be proved with the installed provers.

## 5. Where code and text disagree

Shown by a run:

* MLFQ: the loop over a queue ends only when nothing in it is RUNNABLE, so a promotion
  can be put off for ever (`mlfq_promotion`).
* A writer killed on a full pipe leaves readers asleep over bytes (`pipe_lost_wakeup`).
* `iput()` takes the inode's lock whoever else uses the inode. In the trace of
  `file_system_deadlock` one process in `create()` has given the new file its name, unlocked
  the directory and, with the file still locked, is in `iput()` of the directory (`fs.c:334`,
  `sysfile.c:280`); an `unlink()` of that name by the other process has locked the directory
  in between and waits for the file (`sysfile.c:209`). `unlink()` calls `iput()` of the directory
  with the file locked too (`sysfile.c:225`).

Seen while translating, without a run:

* `kill(0)` matches an UNUSED slot and `allocproc()` does not clear `killed`: the next
  process there is born killed. A failed fork leaves its pid in an UNUSED slot with the
  same effect (`proc_original.c:487`). The model has both.
* MLFQ: for the same reason a lower queue is drained while a higher one has work; and the
  search in `wakeup1()` stops one short and adds duplicates (`proc_mlfq_v02.c:616`).
* `getpinfo(0)` returns with `ptable.lock` held (`proc_lottery_v02.c:690`).
* `param.h:11` calls LOGSIZE the number of data blocks, but `mkfs.c` counts the header in
  it: operations that together use every block they were admitted for would run into the
  panic of `log_write()` (`log.c:218`). In `file_io` `OpBlocks < MAXOPBLOCKS`, as for
  the calls of this kernel; with `OpBlocks = MAXOPBLOCKS` TLC finds SpaceManaged violated.
* A kill between the test of `killed` in `piperead()` and `sleep()` is not noticed until
  the reader is woken for another reason (`pipe.c:107`); the same in `consoleread()`.
* Two processes in `iput()` of an unlinked inode may each see the other's reference, and
  neither frees it (`fs.c:337`). FileSys has this; the inode is lost on disk.
* A file created in a directory that is being removed is never freed; `link(f, ".")`
  locks the same inode twice, a deadlock of one process (`fs.c:559`), which is why
  `file_system_deadlock` has no path ".".
* NBUF = LOGSIZE (`param.h:11-12`): a full log pins as many buffers as there are, and readers
  take no `begin_op()`, so `bget()` may panic (`bio.c:92`). BufCache has this.
* `sbrk(-sz)` frees all pages, but `growproc()` takes the 0 for an error and leaves
  `p->sz` (`proc_original.c:169`): a failed call with an effect. Vm has it; MemorySound and
  PrivateMemory except it, and only it, from what they say of sizes and of failed calls.
* A disk read that fails leaves the buffer valid with its old content (`ide.c:118`).
* `stab_binsearch()` looks for `addr + 1` after an exact match: with a region of a single
  byte it finds the next one (`kdebug.c:80`; RegionsRight leaves that case out). For an
  address below all regions of the type it returns a region that does not contain it.
* `grep` forgets what it has of a line when a read brings no newline (`grep.c:29`): longer
  lines are judged by their ends. PrintsMatches is about the lines it keeps.
* `pp_ref` is 16 bits wide and wraps at the 2^16th mapping of a page (`REFMOD`;
  PagesAccounted fails when it is 2).
* `setperm` with PTE_P on an empty entry maps page 0 without a reference; it can only add
  bits, although `lab-3/kern/monitor.c:30` says "set, clear, or change". `SetBits` leaves
  PTE_P out.
* `0xffffffff-KERNBASE` (`pmap.c:221`) is rounded down: the last page of the address
  space is not mapped.

## 6. Not modelled

* `assignment-3/` is the kernel of `lab-2/` once more (the files modelled here are the same
  byte for byte), with a trace and a date; `lab-1/jos` is an earlier `lab-3`. Their lines
  are covered by what is said of the other copy. `proc_mlfq_v01.c`, `proc_lottery_v01.c`
  are drafts of the v02 files. Together with tests (`usertests.c`, the `check_*` functions of
  `pmap.c`), tables (`entrypgdir.c`, key maps) and headers they are most of the repository.
* Interrupt controllers, serial line, screen, boot code, segments: device registers.
* Printing, string functions, parsers (shell, monitor, ELF headers): text and data with
  no state of their own.
* Argument fetching of system calls (`argptr()` and its kin): bounds tests on data.
* MLFQ on two CPUs (data race of `setpriority()`) and beyond the ends of its arrays.
* ".." in path names, redirection, the console's ^P, failing drives.

## 7. Plan

1. MLFQ on two CPUs with the unlocked `setpriority()`; array ends.
2. BufCache's BlockStore as the disk of Log, in place of its atomic writes.

## 8. Running

    tlc -workers 2 -config MCStorage.cfg MCStorage
    tlapm ProcTableProofs.tla

The other modules with proofs are checked the same way; PartsProofs takes longest (about
twelve minutes), StorageProofs, FileIOProofs, FileSysProofs and JOSProofs some minutes
each.
