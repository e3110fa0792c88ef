--------------------------------- MODULE Pipe ---------------------------------
(***************************************************************************)
(* One pipe (lab-2/pipe.c) shared by processes that read and processes     *)
(* that write, each holding one file descriptor of its end.  p->lock is    *)
(* modelled as a lock: a process keeps it from acquire() to the point in   *)
(* sleep() where the process is SLEEPING, so kill() may come in between.   *)
(***************************************************************************)
EXTENDS Integers, Sequences, FiniteSets

CONSTANTS
  Readers, Writers, Bytes,
  NoPipeUser,         \* the lock is free
  PIPESIZE,
  W,              \* nread and nwrite are unsigned numbers below W
  MaxN            \* bound: largest number of bytes of one call

ASSUME PipeAssumption ==
  /\ Readers \cap Writers = {} /\ NoPipeUser \notin Readers \cup Writers
  /\ PIPESIZE \in Nat \ {0} /\ W \in Nat /\ PIPESIZE < W /\ W % PIPESIZE = 0
  /\ MaxN \in Nat

PipeUsers == Readers \cup Writers

VARIABLES
  pdata, nread, nwrite, readopen, writeopen, lock,    \* struct pipe
  freed,          \* kfree() has been called
  refs,           \* processes whose descriptor keeps file->ref up
  ppc, killed,
  buf,            \* bytes a writer still has to copy
  got, want       \* bytes a reader has copied, and its argument n

pipeVars == <<pdata, nread, nwrite, readopen, writeopen, lock, freed, refs,
              ppc, killed, buf, got, want>>
ringVars == <<pdata, nread, nwrite>>
endVars == <<readopen, writeopen, freed, refs>>

\* piperead() and pipewrite() test their condition (read, write), are about to
\* sleep with the lock held (rsleep, wsleep), sleep, or have been woken and wait
\* for the lock; copy and close are the rest of piperead() and pipeclose().
PipePCs == {"idle", "write", "wsleep", "wasleep", "wwake", "read", "rsleep", "rasleep",
        "rwake", "copy", "close", "gone"}

\* pipealloc(), and the processes have their descriptors.
PipeInit ==
  /\ pdata \in [0 .. PIPESIZE - 1 -> Bytes]
  /\ nread = 0 /\ nwrite = 0
  /\ readopen = TRUE /\ writeopen = TRUE
  /\ lock = NoPipeUser /\ freed = FALSE
  /\ refs = PipeUsers
  /\ ppc = [p \in PipeUsers |-> "idle"]
  /\ killed = [p \in PipeUsers |-> FALSE]
  /\ buf = [p \in Writers |-> <<>>]
  /\ got = [p \in Readers |-> <<>>]
  /\ want = [p \in Readers |-> 0]

-----------------------------------------------------------------------------

WakeReaders(f) == [p \in PipeUsers |-> IF f[p] = "rasleep" THEN "rwake" ELSE f[p]]
WakeWriters(f) == [p \in PipeUsers |-> IF f[p] = "wasleep" THEN "wwake" ELSE f[p]]

\* Faulty variant: the counters are compared as if they never wrapped around.
FullUnwrapped == nwrite >= nread + PIPESIZE

Full == nwrite = (nread + PIPESIZE) % W
Empty == nread = nwrite

\* pipewrite(p, addr, n): acquire(&p->lock).
WriteCall(p, s) ==
  /\ ppc[p] = "idle" /\ ~killed[p] /\ lock = NoPipeUser
  /\ lock' = p
  /\ buf' = [buf EXCEPT ![p] = s]
  /\ ppc' = [ppc EXCEPT ![p] = "write"]
  /\ UNCHANGED <<ringVars, endVars, killed, got, want>>

WriteByte(p) ==
  /\ ppc[p] = "write" /\ buf[p] # <<>> /\ ~Full
  /\ pdata' = [pdata EXCEPT ![nwrite % PIPESIZE] = Head(buf[p])]
  /\ nwrite' = (nwrite + 1) % W
  /\ buf' = [buf EXCEPT ![p] = Tail(@)]
  /\ UNCHANGED <<nread, endVars, lock, ppc, killed, got, want>>

\* The pipe is full: give up, or wake the readers on the way to sleep.
WriteFull(p) ==
  /\ ppc[p] = "write" /\ buf[p] # <<>> /\ Full
  /\ IF ~readopen \/ killed[p]
     THEN /\ lock' = NoPipeUser
          /\ ppc' = [ppc EXCEPT ![p] = "idle"]
          /\ buf' = [buf EXCEPT ![p] = <<>>]
     ELSE /\ ppc' = WakeReaders([ppc EXCEPT ![p] = "wsleep"])
          /\ UNCHANGED <<lock, buf>>
  /\ UNCHANGED <<ringVars, endVars, killed, got, want>>

\* sleep(&p->nwrite, &p->lock).
WriteSleep(p) ==
  /\ ppc[p] = "wsleep"
  /\ lock' = NoPipeUser
  /\ ppc' = [ppc EXCEPT ![p] = "wasleep"]
  /\ UNCHANGED <<ringVars, endVars, killed, buf, got, want>>

WriteResume(p) ==
  /\ ppc[p] = "wwake" /\ lock = NoPipeUser
  /\ lock' = p
  /\ ppc' = [ppc EXCEPT ![p] = "write"]
  /\ UNCHANGED <<ringVars, endVars, killed, buf, got, want>>

\* Faulty variant: the last wakeup(&p->nread) is missing.
WriteDoneNoWakeup(p) ==
  /\ ppc[p] = "write" /\ buf[p] = <<>>
  /\ lock' = NoPipeUser
  /\ ppc' = [ppc EXCEPT ![p] = "idle"]
  /\ UNCHANGED <<ringVars, endVars, killed, buf, got, want>>

WriteDone(p) ==
  /\ ppc[p] = "write" /\ buf[p] = <<>>
  /\ lock' = NoPipeUser
  /\ ppc' = WakeReaders([ppc EXCEPT ![p] = "idle"])
  /\ UNCHANGED <<ringVars, endVars, killed, buf, got, want>>

-----------------------------------------------------------------------------

\* piperead(p, addr, n): acquire(&p->lock).
ReadCall(p, n) ==
  /\ ppc[p] = "idle" /\ ~killed[p] /\ lock = NoPipeUser
  /\ lock' = p
  /\ want' = [want EXCEPT ![p] = n]
  /\ got' = [got EXCEPT ![p] = <<>>]
  /\ ppc' = [ppc EXCEPT ![p] = "read"]
  /\ UNCHANGED <<ringVars, endVars, killed, buf>>

\* The loop around sleep(): wait, return -1 if killed, or go on to copy.
ReadTest(p) ==
  /\ ppc[p] = "read"
  /\ IF ~Empty \/ ~writeopen
     THEN ppc' = [ppc EXCEPT ![p] = "copy"] /\ UNCHANGED lock
     ELSE IF killed[p] THEN ppc' = [ppc EXCEPT ![p] = "idle"] /\ lock' = NoPipeUser
     ELSE ppc' = [ppc EXCEPT ![p] = "rsleep"] /\ UNCHANGED lock
  /\ UNCHANGED <<ringVars, endVars, killed, buf, got, want>>

\* sleep(&p->nread, &p->lock).
ReadSleep(p) ==
  /\ ppc[p] = "rsleep"
  /\ lock' = NoPipeUser
  /\ ppc' = [ppc EXCEPT ![p] = "rasleep"]
  /\ UNCHANGED <<ringVars, endVars, killed, buf, got, want>>

ReadResume(p) ==
  /\ ppc[p] = "rwake" /\ lock = NoPipeUser
  /\ lock' = p
  /\ ppc' = [ppc EXCEPT ![p] = "read"]
  /\ UNCHANGED <<ringVars, endVars, killed, buf, got, want>>

ReadByte(p) ==
  /\ ppc[p] = "copy" /\ Len(got[p]) < want[p] /\ ~Empty
  /\ got' = [got EXCEPT ![p] = Append(@, pdata[nread % PIPESIZE])]
  /\ nread' = (nread + 1) % W
  /\ UNCHANGED <<pdata, nwrite, endVars, lock, ppc, killed, buf, want>>

\* Faulty variant: writers are woken only by a read that empties the pipe.
ReadDoneLazy(p) ==
  /\ ppc[p] = "copy" /\ (Len(got[p]) = want[p] \/ Empty)
  /\ lock' = NoPipeUser
  /\ ppc' = IF Empty THEN WakeWriters([ppc EXCEPT ![p] = "idle"])
           ELSE [ppc EXCEPT ![p] = "idle"]
  /\ UNCHANGED <<ringVars, endVars, killed, buf, got, want>>

ReadDone(p) ==
  /\ ppc[p] = "copy" /\ (Len(got[p]) = want[p] \/ Empty)
  /\ lock' = NoPipeUser
  /\ ppc' = WakeWriters([ppc EXCEPT ![p] = "idle"])
  /\ UNCHANGED <<ringVars, endVars, killed, buf, got, want>>

-----------------------------------------------------------------------------

EndOf(p) == IF p \in Readers THEN Readers ELSE Writers

\* Faulty variant: every close() reaches pipeclose(), not only the last one.
CloseEach(p) ==
  /\ ppc[p] = "idle"
  /\ refs' = refs \ {p}
  /\ ppc' = [ppc EXCEPT ![p] = "close"]
  /\ UNCHANGED <<ringVars, readopen, writeopen, freed, lock, killed, buf, got, want>>

\* close(), by the program or by exit(): fileclose() calls pipeclose() only for
\* the last reference to that end.
Close(p) ==
  /\ ppc[p] = "idle"
  /\ refs' = refs \ {p}
  /\ ppc' = [ppc EXCEPT ![p] = IF refs' \cap EndOf(p) = {} THEN "close" ELSE "gone"]
  /\ UNCHANGED <<ringVars, readopen, writeopen, freed, lock, killed, buf, got, want>>

\* pipeclose() under p->lock; the second end to be closed frees the pipe.
PipeClose(p) ==
  /\ ppc[p] = "close" /\ lock = NoPipeUser
  /\ IF p \in Writers
     THEN writeopen' = FALSE /\ UNCHANGED readopen /\ ppc' = WakeReaders([ppc EXCEPT ![p] = "gone"])
     ELSE readopen' = FALSE /\ UNCHANGED writeopen /\ ppc' = WakeWriters([ppc EXCEPT ![p] = "gone"])
  /\ freed' = (~readopen' /\ ~writeopen')
  /\ UNCHANGED <<ringVars, refs, lock, killed, buf, got, want>>

\* kill() from elsewhere: the flag, and a wakeup if the process is SLEEPING.
Kill(p) ==
  /\ ppc[p] # "gone" /\ ~killed[p]
  /\ killed' = [killed EXCEPT ![p] = TRUE]
  /\ ppc' = [ppc EXCEPT ![p] = IF @ = "rasleep" THEN "rwake"
                             ELSE IF @ = "wasleep" THEN "wwake" ELSE @]
  /\ UNCHANGED <<ringVars, endVars, lock, buf, got, want>>

PipeStep(p) ==
  \/ /\ p \in Writers
     /\ \/ \E n \in 1 .. MaxN : \E s \in [1 .. n -> Bytes] : WriteCall(p, s)
        \/ WriteByte(p) \/ WriteFull(p) \/ WriteSleep(p) \/ WriteResume(p) \/ WriteDone(p)
  \/ /\ p \in Readers
     /\ \/ \E n \in 1 .. MaxN : ReadCall(p, n)
        \/ ReadTest(p) \/ ReadSleep(p) \/ ReadResume(p) \/ ReadByte(p) \/ ReadDone(p)
  \/ Close(p) \/ PipeClose(p) \/ Kill(p)

PipeNext == \E p \in PipeUsers : PipeStep(p)

PipeSpec == PipeInit /\ [][PipeNext]_pipeVars

-----------------------------------------------------------------------------
(* Properties.                                                              *)

Count == (nwrite - nread) % W
Queued == [i \in 1 .. Count |-> pdata[(nread + i - 1) % PIPESIZE]]

F == INSTANCE Fifo WITH q <- Queued, Capacity <- PIPESIZE

\* Bytes come out in the order they went in, none lost, doubled or invented, at
\* most PIPESIZE at a time, whatever readers and writers share the pipe and
\* however often nread and nwrite wrap around.
FirstInFirstOut == F!FifoSpec

\* No reader sleeps over the end of file, and none over bytes unless a writer was
\* killed, which leaves pipewrite() without a wakeup.
ReaderNotForgotten ==
  \A p \in Readers : ppc[p] = "rasleep" /\ lock = NoPipeUser =>
    writeopen /\ (Empty \/ \E w \in Writers : killed[w])

\* "DOC: pipe-empty" (pipe.c:106): a reader waits only while the pipe is empty.
ReaderWaitsForBytes ==
  \A p \in Readers : ppc[p] = "rasleep" /\ lock = NoPipeUser => Empty

\* No writer sleeps when there is room, and none when all readers have gone.
WriterNotForgotten ==
  \A p \in Writers : ppc[p] = "wasleep" /\ lock = NoPipeUser => Full /\ readopen

\* kfree(p) comes after the last use: nobody holds an end or the lock.
NoUseAfterFree ==
  freed => refs = {} /\ lock = NoPipeUser /\ \A p \in PipeUsers : ppc[p] = "gone"

\* A pipe wakes everyone who can go on and outlives all who use it, in whatever
\* order they are killed and close their ends.
UsersServed == ReaderNotForgotten /\ WriterNotForgotten /\ NoUseAfterFree
=============================================================================
