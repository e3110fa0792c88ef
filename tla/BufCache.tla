------------------------------- MODULE BufCache -------------------------------
(***************************************************************************)
(* The buffer cache (lab-2/bio.c) with the sleep lock of each buffer       *)
(* (sleeplock.c), and the disk driver (ide.c) with its request queue, the  *)
(* drive and its interrupt.  A critical section under bcache.lock, idelock *)
(* or the spinlock of a sleep lock is one step.  A process may hold a      *)
(* buffer while it works on another one: each use of a buffer is a user.   *)
(***************************************************************************)
EXTENDS Integers, Sequences, FiniteSets, SequencesExt

CONSTANTS
  Users, DiskBlocks, BlockVals, NBUF,
  ProcessOf,      \* the process of each user
  Under,          \* <<a, b>>: block b is read by a process that holds block a
  NoUser, NoBlock, NoCmd,
  MaxPinned,      \* bound: buffers log_write() has pinned (LOGSIZE)
  Written, Zero   \* bounds: blocks that change, first content of all blocks

Bufs == 1 .. NBUF

ASSUME BufCacheAssumption ==
  /\ NBUF \in Nat /\ MaxPinned \in Nat /\ IsFiniteSet(Users)
  /\ Written \subseteq DiskBlocks /\ Zero \in BlockVals /\ NoUser \notin Users /\ NoBlock \notin DiskBlocks
  /\ NoCmd \notin [op : {"read", "write"}, block : DiskBlocks \cup {NoBlock}, data : BlockVals]

VARIABLES
  blockno, valid, bdirty, refcnt, owner, bdata,   \* struct buf; owner of the sleep lock
  mru,            \* bcache.head, most recently used first
  idequeue,
  disk,           \* contents of the drive
  cmd,            \* command the drive executes, or NoCmd
  irq,            \* the drive's interrupt is pending
  bpc, cur         \* the buffer a process works on, 0 if none

flagVars == <<blockno, valid, bdirty, refcnt>>
driveVars == <<idequeue, disk, cmd, irq>>
bufVars == <<blockno, valid, bdirty, refcnt, owner, bdata, mru, idequeue, disk, cmd, irq,
             bpc, cur>>

\* In acquiresleep() (lock, locksleep), in bread() before iderw() (read), in
\* iderw() (iosleep, iotest), with the buffer locked (held), in brelse() after
\* releasesleep() (unref).
BufPCs == {"idle", "lock", "locksleep", "read", "iosleep", "iotest", "held", "unref"}

\* binit() and ideinit(); the buffers belong to no block of the root device.
BufInit ==
  /\ blockno = [k \in Bufs |-> NoBlock]
  /\ valid = [k \in Bufs |-> FALSE] /\ bdirty = [k \in Bufs |-> FALSE]
  /\ refcnt = [k \in Bufs |-> 0] /\ owner = [k \in Bufs |-> NoUser]
  /\ bdata = [k \in Bufs |-> Zero]
  /\ mru = [k \in Bufs |-> NBUF + 1 - k]
  /\ idequeue = <<>> /\ disk = [b \in DiskBlocks |-> Zero] /\ cmd = NoCmd /\ irq = FALSE
  /\ bpc = [p \in Users |-> "idle"] /\ cur = [p \in Users |-> 0]

-----------------------------------------------------------------------------
(* bget().  When no buffer is unused it panics, and the process stops here.  *)

Cached(b) == {k \in Bufs : blockno[k] = b}

\* Faulty variant: the buffers the log has pinned are recycled.
UnusedDirty(k) == refcnt[k] = 0

Unused(k) == refcnt[k] = 0 /\ ~bdirty[k]

\* A process does one thing at a time.  write_log() and install_trans() hold a log
\* block while they read a home block, bmap() and itrunc() the indirect block while
\* balloc(), bzero() and bfree() read another one; either may go first again.
OtherUses(p) == {q \in Users \ {p} : ProcessOf[q] = ProcessOf[p]}
Turn(p) == \A q \in OtherUses(p) : bpc[q] \in {"idle", "held"}
MayRead(p, b) ==
  Turn(p) /\ \A q \in OtherUses(p) : bpc[q] = "held" => <<blockno[cur[q]], b>> \in Under

BgetHit(p, b) ==
  /\ bpc[p] = "idle" /\ MayRead(p, b) /\ Cached(b) # {}
  /\ \E k \in Cached(b) :
       /\ refcnt' = [refcnt EXCEPT ![k] = @ + 1]
       /\ cur' = [cur EXCEPT ![p] = k]
  /\ bpc' = [bpc EXCEPT ![p] = "lock"]
  /\ UNCHANGED <<blockno, valid, bdirty, owner, bdata, mru, driveVars>>

\* The least recently used buffer that nobody refers to gets the new block.
BgetRecycle(p, b) ==
  /\ bpc[p] = "idle" /\ MayRead(p, b) /\ Cached(b) = {}
  /\ \E i \in 1 .. NBUF :
       /\ Unused(mru[i]) /\ \A j \in i + 1 .. NBUF : ~Unused(mru[j])
       /\ blockno' = [blockno EXCEPT ![mru[i]] = b]
       /\ valid' = [valid EXCEPT ![mru[i]] = FALSE]
       /\ bdirty' = [bdirty EXCEPT ![mru[i]] = FALSE]
       /\ refcnt' = [refcnt EXCEPT ![mru[i]] = 1]
       /\ cur' = [cur EXCEPT ![p] = mru[i]]
  /\ bpc' = [bpc EXCEPT ![p] = "lock"]
  /\ UNCHANGED <<owner, bdata, mru, driveVars>>

-----------------------------------------------------------------------------
(* Sleep locks.                                                             *)

\* acquiresleep(), then bread()'s test of B_VALID.
AcquireSleep(p) ==
  LET k == cur[p] IN
  /\ bpc[p] = "lock" /\ owner[k] = NoUser
  /\ owner' = [owner EXCEPT ![k] = p]
  /\ bpc' = [bpc EXCEPT ![p] = IF valid[k] THEN "held" ELSE "read"]
  /\ UNCHANGED <<flagVars, bdata, mru, driveVars, cur>>

\* The lock is taken: sleep(lk, &lk->lk).
LockSleep(p) ==
  /\ bpc[p] = "lock" /\ owner[cur[p]] # NoUser
  /\ bpc' = [bpc EXCEPT ![p] = "locksleep"]
  /\ UNCHANGED <<flagVars, owner, bdata, mru, driveVars, cur>>

\* wakeup(&b->lock) and wakeup(b).
WakeLock(f, k) == [q \in Users |-> IF f[q] = "locksleep" /\ cur[q] = k THEN "lock" ELSE f[q]]
\* Faulty variant: ideintr() wakes the sleepers of the lock instead.
WakeIoLock(f, k) == WakeLock(f, k)
WakeIo(f, k) == [q \in Users |-> IF f[q] = "iosleep" /\ cur[q] = k THEN "iotest" ELSE f[q]]

\* kill() makes a sleeping process RUNNABLE whatever it waits for.
KillWakesUser(p) ==
  /\ bpc[p] \in {"locksleep", "iosleep"}
  /\ bpc' = [bpc EXCEPT ![p] = IF @ = "locksleep" THEN "lock" ELSE "iotest"]
  /\ UNCHANGED <<flagVars, owner, bdata, mru, driveVars, cur>>

-----------------------------------------------------------------------------
(* The disk.                                                                *)

\* idestart(b): a write takes the data along.
Command(k, dirt, dat) ==
  [op |-> IF dirt[k] THEN "write" ELSE "read", block |-> blockno[k], data |-> dat[k]]

\* iderw(b) up to sleep(), with the flags and the data of the buffers.
Iderw(p, dirt, dat) ==
  /\ idequeue' = Append(idequeue, cur[p])
  /\ cmd' = IF idequeue = <<>> THEN Command(cur[p], dirt, dat) ELSE cmd
  /\ bpc' = [bpc EXCEPT ![p] = "iosleep"]

\* bread() of a buffer without B_VALID.
ReadBlock(p) ==
  /\ bpc[p] = "read"
  /\ Iderw(p, bdirty, bdata)
  /\ UNCHANGED <<flagVars, owner, bdata, mru, disk, irq, cur>>

\* The loop around sleep() in iderw().
IoTest(p) ==
  LET k == cur[p] IN
  /\ bpc[p] = "iotest"
  /\ bpc' = [bpc EXCEPT ![p] = IF valid[k] /\ ~bdirty[k] THEN "held" ELSE "iosleep"]
  /\ UNCHANGED <<flagVars, owner, bdata, mru, driveVars, cur>>

\* The drive carries out its command and asks for attention.
Drive ==
  /\ cmd # NoCmd /\ ~irq
  /\ disk' = IF cmd.op = "write" THEN [disk EXCEPT ![cmd.block] = cmd.data] ELSE disk
  /\ irq' = TRUE
  /\ UNCHANGED <<flagVars, owner, bdata, mru, idequeue, cmd, bpc, cur>>

\* Faulty variant: the request that waits behind the first is not started.
IdeIntrNoStart ==
  LET k == Head(idequeue) IN
  /\ irq /\ idequeue # <<>>
  /\ idequeue' = Tail(idequeue)
  /\ bdata' = IF bdirty[k] THEN bdata ELSE [bdata EXCEPT ![k] = disk[cmd.block]]
  /\ valid' = [valid EXCEPT ![k] = TRUE] /\ bdirty' = [bdirty EXCEPT ![k] = FALSE]
  /\ bpc' = WakeIo(bpc, k)
  /\ cmd' = NoCmd /\ irq' = FALSE
  /\ UNCHANGED <<blockno, refcnt, owner, mru, disk, cur>>

\* ideintr(): finish the first request, wake its process, start the next one.
IdeIntr ==
  LET k == Head(idequeue) IN
  /\ irq /\ idequeue # <<>>
  /\ idequeue' = Tail(idequeue)
  /\ bdata' = IF bdirty[k] THEN bdata ELSE [bdata EXCEPT ![k] = disk[cmd.block]]
  /\ valid' = [valid EXCEPT ![k] = TRUE] /\ bdirty' = [bdirty EXCEPT ![k] = FALSE]
  /\ bpc' = WakeIo(bpc, k)
  /\ cmd' = IF Len(idequeue) > 1 THEN Command(idequeue[2], bdirty, bdata) ELSE NoCmd
  /\ irq' = FALSE
  /\ UNCHANGED <<blockno, refcnt, owner, mru, disk, cur>>

-----------------------------------------------------------------------------
(* What the holder of a buffer does.                                        *)

\* Change the block and bwrite() it.
Bwrite(p, v) ==
  LET k == cur[p] IN
  /\ bpc[p] = "held" /\ Turn(p) /\ blockno[k] \in Written
  /\ bdata' = [bdata EXCEPT ![k] = v]
  /\ bdirty' = [bdirty EXCEPT ![k] = TRUE]
  /\ Iderw(p, bdirty', bdata')
  /\ UNCHANGED <<blockno, valid, refcnt, owner, mru, disk, irq, cur>>

Pinned == {k \in Bufs : bdirty[k] /\ k \notin Range(idequeue)}

\* Change the block and log_write() it, which sets B_DIRTY and writes later.
PinBlock(p, v) ==
  LET k == cur[p] IN
  /\ bpc[p] = "held" /\ Turn(p) /\ blockno[k] \in Written /\ Cardinality(Pinned \cup {k}) <= MaxPinned
  /\ bdata' = [bdata EXCEPT ![k] = v]
  /\ bdirty' = [bdirty EXCEPT ![k] = TRUE]
  /\ UNCHANGED <<blockno, valid, refcnt, owner, mru, driveVars, bpc, cur>>

\* Faulty variant: nobody is woken.
BrelseUnlockNoWakeup(p) ==
  /\ bpc[p] = "held" /\ Turn(p)
  /\ owner' = [owner EXCEPT ![cur[p]] = NoUser]
  /\ bpc' = [bpc EXCEPT ![p] = "unref"]
  /\ UNCHANGED <<flagVars, bdata, mru, driveVars, cur>>

\* brelse(): releasesleep() first.
BrelseUnlock(p) ==
  /\ bpc[p] = "held" /\ Turn(p)
  /\ owner' = [owner EXCEPT ![cur[p]] = NoUser]
  /\ bpc' = WakeLock([bpc EXCEPT ![p] = "unref"], cur[p])
  /\ UNCHANGED <<flagVars, bdata, mru, driveVars, cur>>

\* The unlinked buffer goes to the head of the list, the others keep their order.
MoveToFront(k) ==
  LET place == CHOOSE i \in Bufs : mru[i] = k IN
  [i \in Bufs |-> IF i = 1 THEN k ELSE IF i <= place THEN mru[i - 1] ELSE mru[i]]

\* brelse(), the part under bcache.lock.
BrelseUnref(p) ==
  LET k == cur[p] IN
  /\ bpc[p] = "unref"
  /\ refcnt' = [refcnt EXCEPT ![k] = @ - 1]
  /\ mru' = IF refcnt[k] = 1 THEN MoveToFront(k) ELSE mru
  /\ bpc' = [bpc EXCEPT ![p] = "idle"] /\ cur' = [cur EXCEPT ![p] = 0]
  /\ UNCHANGED <<blockno, valid, bdirty, owner, bdata, driveVars>>

-----------------------------------------------------------------------------

BufStep(p) ==
  \/ AcquireSleep(p) \/ LockSleep(p) \/ ReadBlock(p) \/ IoTest(p)
  \/ BrelseUnlock(p) \/ BrelseUnref(p)

BufNext ==
  \/ Drive \/ IdeIntr
  \/ \E p \in Users :
       \/ BufStep(p) \/ KillWakesUser(p)
       \/ \E b \in DiskBlocks : BgetHit(p, b) \/ BgetRecycle(p, b)
       \/ \E v \in BlockVals : Bwrite(p, v) \/ PinBlock(p, v)

\* Kernel code goes on, and the drive and its interrupt are never late for ever.
BufFairness ==
  /\ WF_bufVars(Drive) /\ WF_bufVars(IdeIntr)
  /\ \A p \in Users : WF_bufVars(ReadBlock(p)) /\ WF_bufVars(IoTest(p))

BufSpec == BufInit /\ [][BufNext]_bufVars /\ BufFairness

-----------------------------------------------------------------------------
(* Properties.                                                              *)

\* Nobody sleeps on a buffer's lock that is free: releasesleep() wakes all, and
\* whoever loses the race tests again.
LockSleepersBlocked ==
  \A p \in Users : bpc[p] = "locksleep" => owner[cur[p]] # NoUser

\* bget() finds a buffer and does not panic ("no buffers").  This takes a buffer for
\* each use beside those the log may have pinned, which param.h does not provide.
BufferLeft ==
  \A p \in Users : bpc[p] = "idle" => \E k \in Bufs : Unused(k)
EnoughBuffers == NBUF >= MaxPinned + Cardinality(Users)

\* The drive works on the first request of the queue, and only then.
DriveServesQueue ==
  IF idequeue = <<>> THEN cmd = NoCmd /\ ~irq
  ELSE cmd # NoCmd /\ cmd.block = blockno[Head(idequeue)]

\* Every request is answered, whoever else queues and whoever is killed.
IoCompletes ==
  \A p \in Users : bpc[p] = "iosleep" ~> bpc[p] = "held"

\* Refinement: the content of a block is that of its valid buffer, if it has one.
Current(b) == {k \in Cached(b) : valid[k] \/ bdirty[k]}

BlockContent ==
  [b \in DiskBlocks |-> IF Current(b) = {} THEN disk[b] ELSE bdata[CHOOSE k \in Current(b) : TRUE]]
BlockHolder ==
  [b \in DiskBlocks |-> IF Current(b) = {} THEN NoUser ELSE owner[CHOOSE k \in Current(b) : TRUE]]

Store == INSTANCE BlockStore WITH
  Procs <- Users, Blocks <- DiskBlocks, Vals <- BlockVals, NoProc <- NoUser,
  content <- BlockContent, stable <- disk, holder <- BlockHolder

\* The cache is one coherent copy of each block: no update is lost to recycling
\* and no process sees or changes a block another one has locked.
OneCopy == Store!StoreSpec

\* Nobody waits for a buffer in vain: a free lock wakes its sleepers, and the drive is
\* at work on the first request, with the cache full of pinned and used buffers too.
WaitsEnd == LockSleepersBlocked /\ DriveServesQueue
=============================================================================
