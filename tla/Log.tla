---------------------------------- MODULE Log ----------------------------------
(***************************************************************************)
(* The write-ahead log of the file system (lab-2/log.c), with the part of  *)
(* the buffer cache (bio.c) it relies on: a buffer marked B_DIRTY is not   *)
(* recycled.  The machine may crash before any disk write; bwrite() of one *)
(* block is atomic.                                                        *)
(*                                                                         *)
(* Every critical section under log.lock is one step.  The commit runs     *)
(* without log.lock, one step per block.                                   *)
(***************************************************************************)
EXTENDS Integers, Sequences, FiniteSets

CONSTANTS
  Procs,          \* processes that make file system calls
  First,          \* the one whose forkret() calls initlog()
  Blocks, Vals,   \* home blocks and their possible contents
  NoBuf,          \* a block that is not in the cache
  LOGSIZE, MAXOPBLOCKS,
  NLOG,           \* sb.nlog: blocks of the on-disk log, its header included
  OpBlocks        \* different blocks one operation writes at most

ASSUME LogAssumption ==
  /\ IsFiniteSet(Procs) /\ First \in Procs /\ NoBuf \notin Vals
  /\ LOGSIZE \in Nat /\ MAXOPBLOCKS \in Nat \ {0} /\ MAXOPBLOCKS <= LOGSIZE
  /\ NLOG \in Nat /\ OpBlocks \in 0 .. MAXOPBLOCKS

VARIABLES
  home, logblk, head,     \* the disk: home locations, log blocks, log header
  cache, dirty,           \* buffer cache: contents, blocks with B_DIRTY
  lh,                     \* log.lh: block[0 .. n-1]
  outstanding, committing,
  pc, tail,               \* of each process; tail counts from 1
  wrote                   \* blocks the current operation of a process has written

diskVars == <<home, logblk, head>>
logVars == <<home, logblk, head, cache, dirty, lh, outstanding, committing, pc, tail, wrote>>

PCs == {"off", "read_head", "idle", "begin_op", "asleep", "op",
        "write_log", "write_head", "install_trans", "committed"}

Slots == 1 .. LOGSIZE

\* A disk with an empty log, and the first process about to recover from it.
LogInit ==
  /\ home \in [Blocks -> Vals]
  /\ logblk \in [Slots -> Vals]
  /\ head = <<>>
  /\ cache = [b \in Blocks |-> NoBuf] /\ dirty = {}
  /\ lh = <<>> /\ outstanding = 0 /\ committing = FALSE
  /\ pc = [p \in Procs |-> IF p = First THEN "read_head" ELSE "off"]
  /\ tail = [p \in Procs |-> 1]
  /\ wrote = [p \in Procs |-> {}]

-----------------------------------------------------------------------------
(* The buffer cache.                                                        *)

\* What bread(b) returns.
Contents(b) == IF cache[b] = NoBuf THEN home[b] ELSE cache[b]

\* recover_from_log() is not done yet.
Recovering ==
  \E p \in Procs : pc[p] = "read_head" \/ (pc[p] = "install_trans" /\ ~committing)

\* bread() by a process outside any operation, such as a file reader.
Bread(b) ==
  /\ ~Recovering /\ cache[b] = NoBuf
  /\ cache' = [cache EXCEPT ![b] = home[b]]
  /\ UNCHANGED <<diskVars, dirty, lh, outstanding, committing, pc, tail, wrote>>

\* bget() recycles a buffer nobody uses and log_write() has not marked.
Recycle(b) ==
  /\ cache[b] # NoBuf /\ b \notin dirty
  /\ cache' = [cache EXCEPT ![b] = NoBuf]
  /\ UNCHANGED <<diskVars, dirty, lh, outstanding, committing, pc, tail, wrote>>

-----------------------------------------------------------------------------
(* begin_op(), log_write() and end_op().                                    *)

Awake(f) == [p \in Procs |-> IF f[p] = "asleep" THEN "begin_op" ELSE f[p]]

BeginCall(p) ==
  /\ pc[p] = "idle"
  /\ pc' = [pc EXCEPT ![p] = "begin_op"]
  /\ UNCHANGED <<diskVars, cache, dirty, lh, outstanding, committing, tail, wrote>>

\* Faulty variant: the operation that asks is not counted.
MustWaitOthers == committing \/ Len(lh) + outstanding * MAXOPBLOCKS > LOGSIZE

MustWait == committing \/ Len(lh) + (outstanding + 1) * MAXOPBLOCKS > LOGSIZE

\* One round of begin_op()'s loop: sleep(&log), or reserve log space.
BeginOp(p) ==
  /\ pc[p] = "begin_op"
  /\ \/ /\ MustWait
        /\ pc' = [pc EXCEPT ![p] = "asleep"]
        /\ UNCHANGED <<outstanding, wrote>>
     \/ /\ ~MustWait
        /\ outstanding' = outstanding + 1
        /\ pc' = [pc EXCEPT ![p] = "op"]
        /\ wrote' = [wrote EXCEPT ![p] = {}]
  /\ UNCHANGED <<diskVars, cache, dirty, lh, committing, tail>>

\* kill() wakes any sleeper; begin_op() looks at its conditions again.
KillWakes(p) ==
  /\ pc[p] = "asleep"
  /\ pc' = [pc EXCEPT ![p] = "begin_op"]
  /\ UNCHANGED <<diskVars, cache, dirty, lh, outstanding, committing, tail, wrote>>

Logged == {lh[i] : i \in DOMAIN lh}

\* log_write() panics before it looks for the block among those already logged.
Fits == Len(lh) < LOGSIZE /\ Len(lh) < NLOG - 1

\* bread(b); b->data = v; log_write(b); brelse(b).
LogWrite(p, b, v) ==
  /\ pc[p] = "op" /\ Cardinality(wrote[p] \cup {b}) <= OpBlocks /\ Fits
  /\ cache' = [cache EXCEPT ![b] = v]
  /\ lh' = IF b \in Logged THEN lh ELSE Append(lh, b)
  /\ dirty' = dirty \cup {b}
  /\ wrote' = [wrote EXCEPT ![p] = @ \cup {b}]
  /\ UNCHANGED <<diskVars, outstanding, committing, pc, tail>>

\* Faulty variant: end_op() wakes nobody when others are still active.
EndOpNoWakeup(p) ==
  /\ pc[p] = "op" /\ ~committing
  /\ outstanding' = outstanding - 1
  /\ committing' = (outstanding' = 0)
  /\ pc' = [pc EXCEPT ![p] = IF outstanding' # 0 THEN "idle"
                             ELSE IF lh = <<>> THEN "committed" ELSE "write_log"]
  /\ tail' = [tail EXCEPT ![p] = 1]
  /\ wrote' = [wrote EXCEPT ![p] = {}]
  /\ UNCHANGED <<diskVars, cache, dirty, lh>>

\* Faulty variant: commit() is left to a later operation while there is log space.
EndOpLazy(p) ==
  /\ pc[p] = "op" /\ ~committing
  /\ outstanding' = outstanding - 1
  /\ committing' = (outstanding' = 0 /\ Len(lh) + MAXOPBLOCKS > LOGSIZE)
  /\ pc' = IF ~committing' THEN Awake([pc EXCEPT ![p] = "idle"])
           ELSE [pc EXCEPT ![p] = IF lh = <<>> THEN "committed" ELSE "write_log"]
  /\ tail' = [tail EXCEPT ![p] = 1]
  /\ wrote' = [wrote EXCEPT ![p] = {}]
  /\ UNCHANGED <<diskVars, cache, dirty, lh>>

\* end_op() up to commit(), which has nothing to do when the log is empty.  It
\* panics if a commit is under way.
EndOp(p) ==
  /\ pc[p] = "op" /\ ~committing
  /\ outstanding' = outstanding - 1
  /\ committing' = (outstanding' = 0)
  /\ pc' = IF outstanding' # 0 THEN Awake([pc EXCEPT ![p] = "idle"])
           ELSE [pc EXCEPT ![p] = IF lh = <<>> THEN "committed" ELSE "write_log"]
  /\ tail' = [tail EXCEPT ![p] = 1]
  /\ wrote' = [wrote EXCEPT ![p] = {}]
  /\ UNCHANGED <<diskVars, cache, dirty, lh>>

\* end_op() after commit().
EndCommit(p) ==
  /\ pc[p] = "committed"
  /\ committing' = FALSE
  /\ pc' = Awake([pc EXCEPT ![p] = "idle"])
  /\ UNCHANGED <<diskVars, cache, dirty, lh, outstanding, tail, wrote>>

-----------------------------------------------------------------------------
(* commit() and recover_from_log().                                         *)

\* write_log(): one block from the cache to the log.
WriteLog(p) ==
  /\ pc[p] = "write_log"
  /\ LET b == lh[tail[p]] IN
       /\ logblk' = [logblk EXCEPT ![tail[p]] = Contents(b)]
       /\ cache' = [cache EXCEPT ![b] = Contents(b)]
  /\ IF tail[p] < Len(lh)
     THEN tail' = [tail EXCEPT ![p] = @ + 1] /\ UNCHANGED pc
     ELSE pc' = [pc EXCEPT ![p] = "write_head"] /\ UNCHANGED tail
  /\ UNCHANGED <<home, head, dirty, lh, outstanding, committing, wrote>>

\* write_head(): "the true point at which the current transaction commits".
WriteHead(p) ==
  /\ pc[p] = "write_head"
  /\ head' = lh
  /\ pc' = [pc EXCEPT ![p] = "install_trans"]
  /\ tail' = [tail EXCEPT ![p] = 1]
  /\ UNCHANGED <<home, logblk, cache, dirty, lh, outstanding, committing, wrote>>

\* install_trans(): one block from the log to its home, which clears B_DIRTY.
InstallTrans(p) ==
  /\ pc[p] = "install_trans" /\ tail[p] <= Len(lh)
  /\ LET b == lh[tail[p]] IN
       /\ home' = [home EXCEPT ![b] = logblk[tail[p]]]
       /\ cache' = [cache EXCEPT ![b] = logblk[tail[p]]]
       /\ dirty' = dirty \ {b}
  /\ tail' = [tail EXCEPT ![p] = @ + 1]
  /\ UNCHANGED <<logblk, head, lh, outstanding, committing, pc, wrote>>

\* Faulty variant: the log is emptied before the blocks are installed.
ClearHeadEarly(p) ==
  /\ pc[p] = "install_trans"
  /\ head' = <<>>
  /\ IF tail[p] <= Len(lh) THEN UNCHANGED <<lh, pc>>
     ELSE /\ lh' = <<>>
          /\ pc' = IF committing THEN [pc EXCEPT ![p] = "committed"]
                   ELSE [q \in Procs |-> "idle"]
  /\ UNCHANGED <<home, logblk, cache, dirty, outstanding, committing, tail, wrote>>

\* log.lh.n = 0; write_head().  After recovery the system calls may begin.
ClearHead(p) ==
  /\ pc[p] = "install_trans" /\ tail[p] > Len(lh)
  /\ head' = <<>>
  /\ lh' = <<>>
  /\ pc' = IF committing THEN [pc EXCEPT ![p] = "committed"]
           ELSE [q \in Procs |-> "idle"]
  /\ UNCHANGED <<home, logblk, cache, dirty, outstanding, committing, tail, wrote>>

\* recover_from_log(): read_head(), then install_trans() as in commit().
ReadHead(p) ==
  /\ pc[p] = "read_head"
  /\ lh' = head
  /\ pc' = [pc EXCEPT ![p] = "install_trans"]
  /\ tail' = [tail EXCEPT ![p] = 1]
  /\ UNCHANGED <<diskVars, cache, dirty, outstanding, committing, wrote>>

\* Power fails, in operation or in recovery: only the disk survives.
Crash ==
  /\ cache' = [b \in Blocks |-> NoBuf] /\ dirty' = {}
  /\ lh' = <<>> /\ outstanding' = 0 /\ committing' = FALSE
  /\ pc' = [p \in Procs |-> IF p = First THEN "read_head" ELSE "off"]
  /\ tail' = [p \in Procs |-> 1]
  /\ wrote' = [p \in Procs |-> {}]
  /\ UNCHANGED diskVars

CommitStep(p) == WriteLog(p) \/ WriteHead(p) \/ InstallTrans(p) \/ ClearHead(p)

LogStep(p) ==
  \/ BeginCall(p) \/ BeginOp(p) \/ KillWakes(p) \/ EndOp(p) \/ EndCommit(p)
  \/ CommitStep(p) \/ ReadHead(p)
  \/ \E b \in Blocks, v \in Vals : LogWrite(p, b, v)

LogNext ==
  \/ \E p \in Procs : LogStep(p)
  \/ \E b \in Blocks : Bread(b) \/ Recycle(b)
  \/ Crash

LogSpec == LogInit /\ [][LogNext]_logVars

-----------------------------------------------------------------------------
(* Properties.                                                              *)

TypeOK ==
  /\ home \in [Blocks -> Vals] /\ logblk \in [Slots -> Vals]
  /\ head \in Seq(Blocks) /\ lh \in Seq(Blocks)
  /\ cache \in [Blocks -> Vals \cup {NoBuf}] /\ dirty \in SUBSET Blocks
  /\ outstanding \in Nat /\ committing \in BOOLEAN
  /\ pc \in [Procs -> PCs] /\ tail \in [Procs -> Nat]
  /\ wrote \in [Procs -> SUBSET Blocks]

\* What recover_from_log() would make of the disk: the home blocks, under the
\* log blocks the header on disk names.
Recovered ==
  [b \in Blocks |-> IF \E i \in DOMAIN head : head[i] = b
                    THEN logblk[CHOOSE i \in DOMAIN head : head[i] = b]
                    ELSE home[b]]

\* What file system code reads once the system is up.
Seen == IF Recovering THEN Recovered ELSE [b \in Blocks |-> Contents(b)]

T == INSTANCE TxDisk WITH view <- Seen, durable <- Recovered, active <- outstanding

\* Atomic transactions: whatever commit(), a crash in the middle of it, a crash
\* during recovery and the recycling of buffers do to the disk, the blocks that
\* would survive change only when no system call is under way, to what all
\* finished ones wrote.
Atomic == T!TxSpec

\* Once end_op() of the last operation has returned nothing is left to be lost.
QuietIsDurable ==
  ~Recovering /\ outstanding = 0 /\ ~committing => Seen = Recovered

\* Nobody sleeps in begin_op() who could go on: each end of an operation, each
\* commit wakes the sleepers, and new log entries only make them wait longer.
SleepersMustWait == \A p \in Procs : pc[p] = "asleep" => MustWait

\* begin_op() reserves enough: log_write() of an operation that keeps within its
\* number of blocks never panics with "too big a transaction".
SpaceReserved ==
  \A p \in Procs : pc[p] = "op" /\ Cardinality(wrote[p]) < OpBlocks => Fits

\* begin_op() lets in neither too many operations nor too few.
SpaceManaged == SleepersMustWait /\ SpaceReserved
=============================================================================
