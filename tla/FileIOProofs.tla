----------------------------- MODULE FileIOProofs -----------------------------
(***************************************************************************)
(* Proofs about a pipe (Pipe), for any number of readers and writers, any  *)
(* PIPESIZE and any width of the counters that PIPESIZE divides, and about *)
(* the contents of files (FileData), for any number of inodes, open files  *)
(* and blocks, any size of blocks, of inodes and of writes, and any limit  *)
(* of blocks per operation that leaves room for one block of data.         *)
(***************************************************************************)
EXTENDS Pipe, FileData, FiniteSetTheorems, SequenceTheorems, WellFoundedInduction, TLAPS

USE PipeAssumption

-----------------------------------------------------------------------------
(* The invariant.                                                           *)

WriterPCs == {"idle", "write", "wsleep", "wasleep", "wwake", "close", "gone"}
ReaderPCs == {"idle", "read", "rsleep", "rasleep", "rwake", "copy", "close", "gone"}
LockedPCs == {"write", "wsleep", "read", "rsleep", "copy"}

PipeType ==
  /\ pdata \in [0 .. PIPESIZE - 1 -> Bytes]
  /\ nread \in 0 .. W - 1 /\ nwrite \in 0 .. W - 1
  /\ readopen \in BOOLEAN /\ writeopen \in BOOLEAN /\ freed \in BOOLEAN
  /\ refs \in SUBSET PipeUsers
  /\ ppc \in [PipeUsers -> PipePCs] /\ killed \in [PipeUsers -> BOOLEAN]
  /\ \A p \in Writers : ppc[p] \in WriterPCs
  /\ \A p \in Readers : ppc[p] \in ReaderPCs
  /\ buf \in [Writers -> Seq(Bytes)] /\ got \in [Readers -> Seq(Bytes)]
  /\ want \in [Readers -> Nat]

\* p->lock is held from acquire() to the sleep or the release, by one process.
LockHeld ==
  /\ lock \in PipeUsers \cup {NoPipeUser}
  /\ \A p \in PipeUsers : lock = p <=> ppc[p] \in LockedPCs

\* Only the last one to close an end calls pipeclose(), and an end that is closed
\* has nobody left.
EndsClosed ==
  /\ \A p \in PipeUsers : p \in refs <=> ppc[p] \notin {"close", "gone"}
  /\ \A p \in PipeUsers : ppc[p] = "close" =>
       \A q \in EndOf(p) : q # p => ppc[q] = "gone"
  /\ ~readopen => \A p \in Readers : ppc[p] = "gone"
  /\ ~writeopen => \A p \in Writers : ppc[p] = "gone"
  /\ freed <=> ~readopen /\ ~writeopen

KilledWriter == \E w \in Writers : killed[w]

\* A reader falls asleep on an empty pipe.  While it sleeps there are bytes only
\* as long as a writer is at work, which wakes it before it lets the lock go.
ReadersWait ==
  /\ \A p \in Readers : ppc[p] = "rsleep" => Empty /\ writeopen
  /\ \A p \in Readers : ppc[p] = "rasleep" =>
       writeopen /\ (Empty \/ KilledWriter \/ \E w \in Writers : ppc[w] = "write")

\* A writer falls asleep on a full pipe, which has room again only as long as a
\* reader is copying.
WritersWait ==
  /\ \A p \in Writers : ppc[p] = "wsleep" => Full /\ readopen
  /\ \A p \in Writers : ppc[p] = "wasleep" =>
       readopen /\ (Full \/ \E r \in Readers : ppc[r] = "copy")

PipeInv == PipeType /\ LockHeld /\ EndsClosed /\ ReadersWait /\ WritersWait

-----------------------------------------------------------------------------
(* Every step keeps it.                                                     *)

\* pipealloc() establishes the invariant.
LEMMA PipeInvInit == PipeInit => PipeInv
<1> SUFFICES ASSUME PipeInit PROVE PipeInv
  OBVIOUS
<1> USE DEF PipeInit, PipeUsers
<1>1. PipeType
  <2>1. 0 \in 0 .. W - 1 /\ << >> \in Seq(Bytes)
    OBVIOUS
  <2>2. buf \in [Writers -> Seq(Bytes)] /\ got \in [Readers -> Seq(Bytes)] /\ refs \in SUBSET PipeUsers
    BY <2>1, ZenonT(60)
  <2>3. /\ ppc \in [PipeUsers -> PipePCs] /\ killed \in [PipeUsers -> BOOLEAN]
        /\ want \in [Readers -> Nat]
        /\ \A p \in Writers : ppc[p] \in WriterPCs
        /\ \A p \in Readers : ppc[p] \in ReaderPCs
    BY DEF PipePCs, WriterPCs, ReaderPCs
  <2> QED
    BY <2>1, <2>2, <2>3 DEF PipeType
<1>2. LockHeld
  BY DEF LockHeld, LockedPCs
<1>3. EndsClosed
  BY DEF EndsClosed
<1>4. ReadersWait /\ WritersWait
  BY DEF ReadersWait, WritersWait
<1> QED
  BY <1>1, <1>2, <1>3, <1>4 DEF PipeInv

\* Types, and the places in the code where a process of each end can be.
LEMMA PipeTypeStep ==
  ASSUME PipeType, [PipeNext]_pipeVars PROVE PipeType'
<1> USE DEF PipeUsers, ringVars, endVars, PipePCs, WriterPCs, ReaderPCs, PipeType, WakeReaders, WakeWriters
<1>1. CASE UNCHANGED pipeVars
  BY <1>1 DEF pipeVars
<1>2. ASSUME NEW p \in PipeUsers, PipeStep(p) PROVE PipeType'
  <2>1. ASSUME p \in Writers, NEW n \in 1 .. MaxN, NEW s \in [1 .. n -> Bytes], WriteCall(p, s)
        PROVE  PipeType'
    BY <2>1 DEF WriteCall
  <2>2. CASE p \in Writers /\ WriteByte(p)
    BY <2>2 DEF WriteByte
  <2>3. CASE p \in Writers /\ WriteFull(p)
    <3>1. CASE ~readopen \/ killed[p]
      <4>1. buf' \in [Writers -> Seq(Bytes)]
        <5>1. << >> \in Seq(Bytes) /\ buf' = [buf EXCEPT ![p] = << >>]
          BY <2>3, <3>1 DEF WriteFull
        <5> QED
          BY <5>1, ZenonT(60)
      <4> QED
        BY <2>3, <3>1, <4>1 DEF WriteFull
    <3>2. CASE ~(~readopen \/ killed[p])
      BY <2>3, <3>2 DEF WriteFull
    <3> QED
      BY <3>1, <3>2
  <2>4. CASE p \in Writers /\ WriteSleep(p)
    BY <2>4 DEF WriteSleep
  <2>5. CASE p \in Writers /\ WriteResume(p)
    BY <2>5 DEF WriteResume
  <2>6. CASE p \in Writers /\ WriteDone(p)
    BY <2>6 DEF WriteDone
  <2>7. ASSUME p \in Readers, NEW n \in 1 .. MaxN, ReadCall(p, n) PROVE PipeType'
    BY <2>7 DEF ReadCall
  <2>8. CASE p \in Readers /\ ReadTest(p)
    BY <2>8 DEF ReadTest
  <2>9. CASE p \in Readers /\ ReadSleep(p)
    BY <2>9 DEF ReadSleep
  <2>10. CASE p \in Readers /\ ReadResume(p)
    BY <2>10 DEF ReadResume
  <2>11. CASE p \in Readers /\ ReadByte(p)
    BY <2>11 DEF ReadByte
  <2>12. CASE p \in Readers /\ ReadDone(p)
    BY <2>12 DEF ReadDone
  <2>13. CASE Close(p)
    BY <2>13 DEF Close
  <2>14. CASE PipeClose(p)
    BY <2>14, ZenonT(60) DEF PipeClose
  <2>15. CASE Kill(p)
    BY <2>15 DEF Kill
  <2> QED
    BY <1>2, <2>1, <2>2, <2>3, <2>4, <2>5, <2>6, <2>7, <2>8, <2>9, <2>10, <2>11, <2>12, <2>13, <2>14, <2>15 DEF PipeStep
<1> QED
  BY <1>1, <1>2 DEF PipeNext

\* Whoever is at work on the pipe has the lock.
LEMMA LockStep ==
  ASSUME PipeType, LockHeld, [PipeNext]_pipeVars PROVE LockHeld'
<1> USE DEF PipeUsers, ringVars, endVars, PipePCs, WriterPCs, ReaderPCs, PipeType, LockHeld, LockedPCs, WakeReaders, WakeWriters
<1>1. CASE UNCHANGED pipeVars
  BY <1>1 DEF pipeVars
<1>2. ASSUME NEW p \in PipeUsers, PipeStep(p) PROVE LockHeld'
  <2>1. ASSUME p \in Writers, NEW n \in 1 .. MaxN, NEW s \in [1 .. n -> Bytes], WriteCall(p, s)
        PROVE  LockHeld'
    BY <2>1 DEF WriteCall
  <2>2. CASE p \in Writers /\ WriteByte(p)
    BY <2>2 DEF WriteByte
  <2>3. CASE p \in Writers /\ WriteFull(p)
    BY <2>3, ZenonT(60) DEF WriteFull
  <2>4. CASE p \in Writers /\ WriteSleep(p)
    BY <2>4 DEF WriteSleep
  <2>5. CASE p \in Writers /\ WriteResume(p)
    BY <2>5 DEF WriteResume
  <2>6. CASE p \in Writers /\ WriteDone(p)
    BY <2>6 DEF WriteDone
  <2>7. ASSUME p \in Readers, NEW n \in 1 .. MaxN, ReadCall(p, n) PROVE LockHeld'
    BY <2>7 DEF ReadCall
  <2>8. CASE p \in Readers /\ ReadTest(p)
    BY <2>8, ZenonT(60) DEF ReadTest
  <2>9. CASE p \in Readers /\ ReadSleep(p)
    BY <2>9 DEF ReadSleep
  <2>10. CASE p \in Readers /\ ReadResume(p)
    BY <2>10 DEF ReadResume
  <2>11. CASE p \in Readers /\ ReadByte(p)
    BY <2>11 DEF ReadByte
  <2>12. CASE p \in Readers /\ ReadDone(p)
    BY <2>12 DEF ReadDone
  <2>13. CASE Close(p)
    BY <2>13 DEF Close
  <2>14. CASE PipeClose(p)
    BY <2>14, ZenonT(60) DEF PipeClose
  <2>15. CASE Kill(p)
    BY <2>15 DEF Kill
  <2> QED
    BY <1>2, <2>1, <2>2, <2>3, <2>4, <2>5, <2>6, <2>7, <2>8, <2>9, <2>10, <2>11, <2>12, <2>13, <2>14, <2>15 DEF PipeStep
<1> QED
  BY <1>1, <1>2 DEF PipeNext

\* Closing an end.
LEMMA EndsStep ==
  ASSUME PipeType, EndsClosed, [PipeNext]_pipeVars PROVE EndsClosed'
<1> USE DEF PipeUsers
<1>0. ASSUME UNCHANGED endVars,
             \A q \in PipeUsers : (ppc'[q] = "close" <=> ppc[q] = "close")
                                    /\ (ppc'[q] = "gone" <=> ppc[q] = "gone")
      PROVE  EndsClosed'
  BY <1>0 DEF EndsClosed, EndOf, endVars
<1>1. CASE UNCHANGED pipeVars
  BY <1>1 DEF pipeVars, EndsClosed, EndOf
<1>2. ASSUME NEW p \in PipeUsers, PipeStep(p) PROVE EndsClosed'
  <2>1. ASSUME p \in Writers, NEW n \in 1 .. MaxN, NEW s \in [1 .. n -> Bytes], WriteCall(p, s)
        PROVE  EndsClosed'
    BY <2>1, <1>0 DEF WriteCall, PipeType, WakeReaders, WakeWriters, endVars
  <2>2. CASE p \in Writers /\ WriteByte(p)
    BY <2>2, <1>0 DEF WriteByte, PipeType, WakeReaders, WakeWriters, endVars
  <2>3. CASE p \in Writers /\ WriteFull(p)
    <3>1. CASE ~readopen \/ killed[p]
      BY <2>3, <1>0, <3>1 DEF WriteFull, PipeType, WakeReaders, WakeWriters, endVars
    <3>2. CASE ~(~readopen \/ killed[p])
      BY <2>3, <1>0, <3>2 DEF WriteFull, PipeType, WakeReaders, WakeWriters, endVars
    <3> QED
      BY <3>1, <3>2
  <2>4. CASE p \in Writers /\ WriteSleep(p)
    BY <2>4, <1>0 DEF WriteSleep, PipeType, WakeReaders, WakeWriters, endVars
  <2>5. CASE p \in Writers /\ WriteResume(p)
    BY <2>5, <1>0 DEF WriteResume, PipeType, WakeReaders, WakeWriters, endVars
  <2>6. CASE p \in Writers /\ WriteDone(p)
    BY <2>6, <1>0 DEF WriteDone, PipeType, WakeReaders, WakeWriters, endVars
  <2>7. ASSUME p \in Readers, NEW n \in 1 .. MaxN, ReadCall(p, n) PROVE EndsClosed'
    BY <2>7, <1>0 DEF ReadCall, PipeType, WakeReaders, WakeWriters, endVars
  <2>8. CASE p \in Readers /\ ReadTest(p)
    <3>1. CASE ppc' = [ppc EXCEPT ![p] = "copy"]
      BY <2>8, <1>0, <3>1 DEF ReadTest, PipeType, endVars
    <3>2. CASE ppc' = [ppc EXCEPT ![p] = "idle"]
      BY <2>8, <1>0, <3>2 DEF ReadTest, PipeType, endVars
    <3>3. CASE ppc' = [ppc EXCEPT ![p] = "rsleep"]
      BY <2>8, <1>0, <3>3 DEF ReadTest, PipeType, endVars
    <3> QED
      BY <2>8, <3>1, <3>2, <3>3 DEF ReadTest
  <2>9. CASE p \in Readers /\ ReadSleep(p)
    BY <2>9, <1>0 DEF ReadSleep, PipeType, WakeReaders, WakeWriters, endVars
  <2>10. CASE p \in Readers /\ ReadResume(p)
    BY <2>10, <1>0 DEF ReadResume, PipeType, WakeReaders, WakeWriters, endVars
  <2>11. CASE p \in Readers /\ ReadByte(p)
    BY <2>11, <1>0 DEF ReadByte, PipeType, WakeReaders, WakeWriters, endVars
  <2>12. CASE p \in Readers /\ ReadDone(p)
    BY <2>12, <1>0 DEF ReadDone, PipeType, WakeReaders, WakeWriters, endVars
  <2>13. CASE Close(p)
    BY <2>13 DEF Close, EndsClosed, EndOf, PipeType
  <2>14. CASE PipeClose(p)
    <3>1. CASE p \in Writers
      <4>1. /\ ppc[p] = "close" /\ EndOf(p) = Writers /\ p \notin Readers
            /\ UNCHANGED <<readopen, refs>> /\ ~writeopen' /\ freed' = (~readopen' /\ ~writeopen')
            /\ \A q \in PipeUsers : ppc'[q] = IF q = p THEN "gone"
                                            ELSE IF ppc[q] = "rasleep" THEN "rwake" ELSE ppc[q]
        BY <2>14, <3>1 DEF PipeClose, WakeReaders, PipeType, EndOf
      <4> QED
        BY <3>1, <4>1, ZenonT(60) DEF EndsClosed, EndOf, PipeType
    <3>2. CASE p \notin Writers
      <4>1. /\ ppc[p] = "close" /\ EndOf(p) = Readers /\ p \in Readers
            /\ UNCHANGED <<writeopen, refs>> /\ ~readopen' /\ freed' = (~readopen' /\ ~writeopen')
            /\ \A q \in PipeUsers : ppc'[q] = IF q = p THEN "gone"
                                            ELSE IF ppc[q] = "wasleep" THEN "wwake" ELSE ppc[q]
        BY <2>14, <3>2 DEF PipeClose, WakeWriters, PipeType, EndOf
      <4>2. \A q \in PipeUsers : (q \in Readers /\ q \notin Writers) \/ (q \in Writers /\ q \notin Readers)
        OBVIOUS
      <4>3. \A q \in PipeUsers : ppc'[q] = "close" =>
              \A r \in EndOf(q) : r # q => ppc'[r] = "gone"
        BY <4>1, <4>2 DEF EndsClosed, EndOf
      <4>4. /\ \A q \in PipeUsers : q \in refs' <=> ppc'[q] \notin {"close", "gone"}
            /\ \A q \in Readers : ppc'[q] = "gone"
            /\ ~writeopen' => \A q \in Writers : ppc'[q] = "gone"
        BY <4>1, <4>2 DEF EndsClosed, EndOf
      <4> QED
        BY <4>1, <4>3, <4>4 DEF EndsClosed
    <3> QED
      BY <3>1, <3>2
  <2>15. CASE Kill(p)
    BY <2>15, <1>0 DEF Kill, PipeType, WakeReaders, WakeWriters, endVars
  <2> QED
    BY <1>2, <2>1, <2>2, <2>3, <2>4, <2>5, <2>6, <2>7, <2>8, <2>9, <2>10, <2>11, <2>12, <2>13, <2>14, <2>15 DEF PipeStep
<1> QED
  BY <1>1, <1>2 DEF PipeNext

\* The lock keeps all others out of the code that needs it.
LEMMA OneHolder ==
  ASSUME PipeType, LockHeld, NEW p \in PipeUsers, NEW q \in PipeUsers,
         ppc[p] \in LockedPCs, (ppc[q] \in LockedPCs) \/ lock = NoPipeUser
  PROVE  p = q /\ lock # NoPipeUser
BY DEF LockHeld, PipeUsers

\* No reader is left asleep.
LEMMA ReadersStep ==
  ASSUME PipeType, LockHeld, EndsClosed, ReadersWait, [PipeNext]_pipeVars PROVE ReadersWait'
<1> USE DEF ReadersWait, Empty, Full, PipeUsers, ringVars, endVars, PipeType, LockedPCs, WakeReaders, WakeWriters, KilledWriter
<1>0. \A q, r \in PipeUsers : ppc[q] \in LockedPCs /\ ppc[r] \in LockedPCs => q = r
  BY OneHolder
<1>9. lock = NoPipeUser => \A q \in PipeUsers : ppc[q] \notin LockedPCs
  BY OneHolder
<1> USE <1>0, <1>9
<1>1. CASE UNCHANGED pipeVars
  BY <1>1 DEF pipeVars
<1>2. ASSUME NEW p \in PipeUsers, PipeStep(p) PROVE ReadersWait'
  <2>1. ASSUME p \in Writers, NEW n \in 1 .. MaxN, NEW s \in [1 .. n -> Bytes], WriteCall(p, s)
        PROVE  ReadersWait'
    BY <2>1 DEF WriteCall
  <2>2. CASE p \in Writers /\ WriteByte(p)
    BY <2>2 DEF WriteByte
  <2>3. CASE p \in Writers /\ WriteFull(p)
    <3>1. CASE ~readopen \/ killed[p]
      BY <2>3, <3>1 DEF WriteFull, EndsClosed
    <3>2. CASE ~(~readopen \/ killed[p])
      BY <2>3, <3>2 DEF WriteFull
    <3> QED
      BY <3>1, <3>2
  <2>4. CASE p \in Writers /\ WriteSleep(p)
    BY <2>4 DEF WriteSleep
  <2>5. CASE p \in Writers /\ WriteResume(p)
    BY <2>5 DEF WriteResume
  <2>6. CASE p \in Writers /\ WriteDone(p)
    BY <2>6 DEF WriteDone
  <2>7. ASSUME p \in Readers, NEW n \in 1 .. MaxN, ReadCall(p, n) PROVE ReadersWait'
    BY <2>7 DEF ReadCall
  <2>8. CASE p \in Readers /\ ReadTest(p)
    <3>1. CASE ppc' = [ppc EXCEPT ![p] = "copy"]
      BY <2>8, <3>1 DEF ReadTest
    <3>2. CASE ppc' = [ppc EXCEPT ![p] = "idle"]
      BY <2>8, <3>2 DEF ReadTest
    <3>3. CASE ppc' = [ppc EXCEPT ![p] = "rsleep"]
      BY <2>8, <3>3 DEF ReadTest
    <3> QED
      BY <2>8, <3>1, <3>2, <3>3 DEF ReadTest
  <2>9. CASE p \in Readers /\ ReadSleep(p)
    BY <2>9 DEF ReadSleep
  <2>10. CASE p \in Readers /\ ReadResume(p)
    BY <2>10 DEF ReadResume
  <2>11. CASE p \in Readers /\ ReadByte(p)
    BY <2>11 DEF ReadByte
  <2>12. CASE p \in Readers /\ ReadDone(p)
    BY <2>12 DEF ReadDone
  <2>13. CASE Close(p)
    BY <2>13 DEF Close
  <2>14. CASE PipeClose(p)
    <3>1. CASE p \in Writers
      <4>1. \A q \in PipeUsers : ppc'[q] # "rasleep" /\ ppc[q] \notin LockedPCs
        BY <2>14, <3>1 DEF PipeClose
      <4>2. \A q \in PipeUsers : ppc'[q] # "rsleep"
        BY <2>14, <3>1, <4>1 DEF PipeClose
      <4> QED
        BY <4>1, <4>2
    <3>2. CASE p \notin Writers
      BY <2>14, <3>2 DEF PipeClose
    <3> QED
      BY <3>1, <3>2
  <2>15. CASE Kill(p)
    BY <2>15 DEF Kill
  <2> QED
    BY <1>2, <2>1, <2>2, <2>3, <2>4, <2>5, <2>6, <2>7, <2>8, <2>9, <2>10, <2>11, <2>12, <2>13, <2>14, <2>15 DEF PipeStep
<1> QED
  BY <1>1, <1>2 DEF PipeNext

\* No writer is left asleep.
LEMMA WritersStep ==
  ASSUME PipeType, LockHeld, EndsClosed, WritersWait, [PipeNext]_pipeVars PROVE WritersWait'
<1> USE DEF WritersWait, Empty, Full, PipeUsers, ringVars, endVars, PipeType, LockedPCs, WakeReaders, WakeWriters, KilledWriter
<1>0. \A q, r \in PipeUsers : ppc[q] \in LockedPCs /\ ppc[r] \in LockedPCs => q = r
  BY OneHolder
<1>9. lock = NoPipeUser => \A q \in PipeUsers : ppc[q] \notin LockedPCs
  BY OneHolder
<1> USE <1>0, <1>9
<1>1. CASE UNCHANGED pipeVars
  BY <1>1 DEF pipeVars
<1>2. ASSUME NEW p \in PipeUsers, PipeStep(p) PROVE WritersWait'
  <2>1. ASSUME p \in Writers, NEW n \in 1 .. MaxN, NEW s \in [1 .. n -> Bytes], WriteCall(p, s)
        PROVE  WritersWait'
    BY <2>1 DEF WriteCall
  <2>2. CASE p \in Writers /\ WriteByte(p)
    BY <2>2 DEF WriteByte
  <2>3. CASE p \in Writers /\ WriteFull(p)
    <3>1. CASE ~readopen \/ killed[p]
      BY <2>3, <3>1 DEF WriteFull
    <3>2. CASE ~(~readopen \/ killed[p])
      BY <2>3, <3>2 DEF WriteFull
    <3> QED
      BY <3>1, <3>2
  <2>4. CASE p \in Writers /\ WriteSleep(p)
    BY <2>4 DEF WriteSleep
  <2>5. CASE p \in Writers /\ WriteResume(p)
    BY <2>5 DEF WriteResume
  <2>6. CASE p \in Writers /\ WriteDone(p)
    BY <2>6 DEF WriteDone
  <2>7. ASSUME p \in Readers, NEW n \in 1 .. MaxN, ReadCall(p, n) PROVE WritersWait'
    BY <2>7 DEF ReadCall
  <2>8. CASE p \in Readers /\ ReadTest(p)
    <3>1. CASE ppc' = [ppc EXCEPT ![p] = "copy"]
      BY <2>8, <3>1 DEF ReadTest
    <3>2. CASE ppc' = [ppc EXCEPT ![p] = "idle"]
      BY <2>8, <3>2 DEF ReadTest
    <3>3. CASE ppc' = [ppc EXCEPT ![p] = "rsleep"]
      BY <2>8, <3>3 DEF ReadTest
    <3> QED
      BY <2>8, <3>1, <3>2, <3>3 DEF ReadTest
  <2>9. CASE p \in Readers /\ ReadSleep(p)
    BY <2>9 DEF ReadSleep
  <2>10. CASE p \in Readers /\ ReadResume(p)
    BY <2>10 DEF ReadResume
  <2>11. CASE p \in Readers /\ ReadByte(p)
    BY <2>11 DEF ReadByte
  <2>12. CASE p \in Readers /\ ReadDone(p)
    BY <2>12 DEF ReadDone
  <2>13. CASE Close(p)
    BY <2>13 DEF Close
  <2>14. CASE PipeClose(p)
    <3>1. CASE p \in Writers
      BY <2>14, <3>1 DEF PipeClose
    <3>2. CASE p \notin Writers
      BY <2>14, <3>2 DEF PipeClose
    <3> QED
      BY <3>1, <3>2
  <2>15. CASE Kill(p)
    BY <2>15 DEF Kill
  <2> QED
    BY <1>2, <2>1, <2>2, <2>3, <2>4, <2>5, <2>6, <2>7, <2>8, <2>9, <2>10, <2>11, <2>12, <2>13, <2>14, <2>15 DEF PipeStep
<1> QED
  BY <1>1, <1>2 DEF PipeNext

\* The inductive invariant holds always.
THEOREM PipeInvariance == PipeSpec => []PipeInv
<1>1. PipeInv /\ [PipeNext]_pipeVars => PipeInv'
  BY PipeTypeStep, LockStep, EndsStep, ReadersStep, WritersStep DEF PipeInv
<1> QED
  BY <1>1, PipeInvInit, PTL DEF PipeSpec

\* piperead(), pipewrite() and pipeclose() (pipe.c:60-120) forget nobody: with the
\* lock free no reader sleeps over the end of file, nor over bytes unless a writer
\* was killed, no writer over room or a pipe without readers, and the pipe is freed
\* after its last use, for any number of processes killed at any time.
THEOREM PipeUsersServed == PipeSpec => []UsersServed
<1>1. PipeInv => UsersServed
  <2> SUFFICES ASSUME PipeInv PROVE UsersServed
    OBVIOUS
  <2>1. lock = NoPipeUser => \A p \in PipeUsers : ppc[p] \notin LockedPCs
    BY OneHolder DEF PipeInv
  <2>2. ReaderNotForgotten
    BY <2>1 DEF ReaderNotForgotten, PipeInv, ReadersWait, KilledWriter, LockedPCs, PipeUsers
  <2>3. WriterNotForgotten
    BY <2>1 DEF WriterNotForgotten, PipeInv, WritersWait, LockedPCs, PipeUsers
  <2>4. NoUseAfterFree
    <3> SUFFICES ASSUME freed PROVE refs = {} /\ lock = NoPipeUser /\ \A p \in PipeUsers : ppc[p] = "gone"
      BY DEF NoUseAfterFree
    <3>1. \A p \in PipeUsers : ppc[p] = "gone"
      BY DEF PipeInv, EndsClosed, PipeUsers
    <3>2. refs = {}
      BY <3>1 DEF PipeInv, EndsClosed, PipeType
    <3>3. lock = NoPipeUser
      BY <3>1 DEF PipeInv, LockHeld, LockedPCs
    <3> QED
      BY <3>1, <3>2, <3>3
  <2> QED
    BY <2>2, <2>3, <2>4 DEF UsersServed
<1> QED
  BY <1>1, PipeInvariance, PTL

-----------------------------------------------------------------------------
(* Facts about remainders.                                                  *)

\* Quotient and remainder.
LEMMA DivMod ==
  ASSUME NEW x \in Int, NEW n \in Int, n > 0
  PROVE  x = n * (x \div n) + (x % n) /\ x \div n \in Int /\ x % n \in 0 .. n - 1
OBVIOUS

\* The remainder is unique.
LEMMA ModIs ==
  ASSUME NEW x \in Int, NEW n \in Int, n > 0, NEW r \in 0 .. n - 1, NEW k \in Int, x = n * k + r
  PROVE  x % n = r
OBVIOUS

\* Multiples of n do not change it.
LEMMA ModSame ==
  ASSUME NEW x \in Int, NEW y \in Int, NEW n \in Int, n > 0, NEW k \in Int, x = y + n * k
  PROVE  x % n = y % n
<1> DEFINE r == y % n
           d == y \div n
<1>1. y = n * d + r /\ d \in Int /\ r \in 0 .. n - 1
  BY DivMod
<1> HIDE DEF r, d
<1>2. x = n * (d + k) + r /\ d + k \in Int
  BY <1>1
<1>3. x % n = r
  BY <1>1, <1>2, ModIs
<1> QED
  BY <1>3 DEF r

\* Numbers less than n apart have different ones.
LEMMA ModDiff ==
  ASSUME NEW x \in Int, NEW y \in Int, NEW n \in Int, n > 0, 0 < x - y, x - y < n
  PROVE  x % n # y % n
<1> DEFINE r == y % n
           d == y \div n
           e == x \div n
<1>1. y = n * d + r /\ d \in Int /\ r \in 0 .. n - 1 /\ x = n * e + (x % n) /\ e \in Int
  BY DivMod
<1>2. SUFFICES ASSUME x % n = r PROVE FALSE
  OBVIOUS
<1> HIDE DEF r, d, e
<1>3. x - y = n * (e - d) /\ e - d \in Int
  BY <1>1, <1>2
<1>4. e - d <= 0 \/ e - d >= 1
  BY <1>1
<1>5. n * (e - d) <= 0 \/ n * (e - d) >= n
  BY <1>1, <1>4
<1> QED
  BY <1>3, <1>5

\* A number that leaves 0 .. w - 1 by less than w at either end comes back in.
LEMMA Wrap ==
  ASSUME NEW w \in Nat, w > 0, NEW x \in Int, 0 - w <= x, x < 2 * w
  PROVE  x % w = IF x < 0 THEN x + w ELSE IF x < w THEN x ELSE x - w
<1>1. CASE x < 0
  <2>1. x = w * (0 - 1) + (x + w) /\ x + w \in 0 .. w - 1
    BY <1>1
  <2> QED
    BY <1>1, <2>1, ModIs
<1>2. CASE 0 <= x /\ x < w
  <2>1. x = w * 0 + x /\ x \in 0 .. w - 1
    BY <1>2
  <2> QED
    BY <1>2, <2>1, ModIs
<1>3. CASE x >= w
  <2>1. x = w * 1 + (x - w) /\ x - w \in 0 .. w - 1
    BY <1>3
  <2> QED
    BY <1>3, <2>1, ModIs
<1> QED
  BY <1>1, <1>2, <1>3

-----------------------------------------------------------------------------
(* The ring is a queue.                                                     *)

\* The bytes between two values of the counters.
CountOf(r, w) == (w - r) % W
QueuedOf(d, r, w) == [i \in 1 .. CountOf(r, w) |-> d[(r + i - 1) % PIPESIZE]]

\* A counter goes up by one.
LEMMA NextCount ==
  ASSUME NEW x \in 0 .. W - 1
  PROVE  (x + 1) % W = (IF x + 1 = W THEN 0 ELSE x + 1) /\ (x + 1) % W \in 0 .. W - 1
<1>1. (x + 1) % W = IF x + 1 < W THEN x + 1 ELSE x + 1 - W
  BY Wrap
<1> QED
  BY <1>1

\* The number of bytes in the ring.
LEMMA CountIs ==
  ASSUME NEW r \in 0 .. W - 1, NEW w \in 0 .. W - 1
  PROVE  /\ CountOf(r, w) = IF r <= w THEN w - r ELSE w - r + W
         /\ CountOf(r, w) \in 0 .. W - 1
<1>1. (w - r) % W = IF w - r < 0 THEN w - r + W ELSE w - r
  BY Wrap
<1> QED
  BY <1>1 DEF CountOf

\* The tests of pipewrite() and piperead() count the bytes.
LEMMA FullEmpty ==
  ASSUME NEW r \in 0 .. W - 1, NEW w \in 0 .. W - 1
  PROVE  /\ (w = (r + PIPESIZE) % W) <=> CountOf(r, w) = PIPESIZE
         /\ (r = w) <=> CountOf(r, w) = 0
<1>1. CountOf(r, w) = IF r <= w THEN w - r ELSE w - r + W
  BY CountIs, ZenonT(60)
<1>2. (r + PIPESIZE) % W = IF r + PIPESIZE < W THEN r + PIPESIZE ELSE r + PIPESIZE - W
  BY Wrap
<1> QED
  BY <1>1, <1>2

\* A full turn of the counters is a number of full turns of the ring.
LEMMA FullTurn ==
  ASSUME NEW x \in Int PROVE (x + W) % PIPESIZE = x % PIPESIZE
<1> DEFINE k == W \div PIPESIZE
<1>1. W = PIPESIZE * k /\ k \in Int
  BY DivMod
<1> HIDE DEF k
<1>2. x + W = x + PIPESIZE * k
  BY <1>1
<1> QED
  BY <1>1, <1>2, ModSame

\* Byte v goes to the end of the queue, ...
IsPut(d, r, w, v) ==
  /\ CountOf(r, (w + 1) % W) = CountOf(r, w) + 1
  /\ QueuedOf([d EXCEPT ![w % PIPESIZE] = v], r, (w + 1) % W) = Append(QueuedOf(d, r, w), v)

\* ... and the byte at the read counter is the first of the queue, and leaves it.
IsTake(d, r, w) ==
  /\ CountOf((r + 1) % W, w) = CountOf(r, w) - 1
  /\ QueuedOf(d, r, w) # << >> /\ Head(QueuedOf(d, r, w)) = d[r % PIPESIZE]
  /\ QueuedOf(d, (r + 1) % W, w) = Tail(QueuedOf(d, r, w))

\* pipewrite() appends a byte to the queue.
LEMMA PutByte ==
  ASSUME NEW d \in [0 .. PIPESIZE - 1 -> Bytes], NEW r \in 0 .. W - 1, NEW w \in 0 .. W - 1,
         CountOf(r, w) < PIPESIZE, NEW v \in Bytes
  PROVE  IsPut(d, r, w, v)
<1> DEFINE c == CountOf(r, w)
           w1 == (w + 1) % W
           d1 == [d EXCEPT ![w % PIPESIZE] = v]
<1>1. /\ c \in 0 .. W - 1 /\ c = (IF r <= w THEN w - r ELSE w - r + W)
      /\ w1 = (IF w + 1 = W THEN 0 ELSE w + 1) /\ w1 \in 0 .. W - 1
  BY CountIs, NextCount, ZenonT(60)
<1>2. CountOf(r, w1) = IF r <= w1 THEN w1 - r ELSE w1 - r + W
  <2> HIDE DEF w1
  <2> QED
    BY <1>1, CountIs, ZenonT(60)
<1>3. c < PIPESIZE
  OBVIOUS
<1> HIDE DEF c, w1
<1>4. CountOf(r, w1) = c + 1
  BY <1>1, <1>2, <1>3
<1>5. w % PIPESIZE = (r + c) % PIPESIZE /\ w % PIPESIZE \in 0 .. PIPESIZE - 1
  <2>1. CASE r <= w
    BY <1>1, <2>1, DivMod
  <2>2. CASE r > w
    <3>1. r + c = w + W
      BY <1>1, <2>2
    <3>2. (w + W) % PIPESIZE = w % PIPESIZE /\ w % PIPESIZE \in 0 .. PIPESIZE - 1
      <4>1. w \in Int /\ PIPESIZE \in Int /\ PIPESIZE > 0
        OBVIOUS
      <4> QED
        BY <4>1, FullTurn, DivMod, ZenonT(60)
    <3> QED
      BY <3>1, <3>2
  <2> QED
    BY <2>1, <2>2
<1>6. ASSUME NEW i \in 1 .. c
      PROVE  (r + i - 1) % PIPESIZE \in 0 .. PIPESIZE - 1 /\ (r + i - 1) % PIPESIZE # w % PIPESIZE
  <2>1. /\ r + i - 1 \in Int /\ r + c \in Int
        /\ 0 < (r + c) - (r + i - 1) /\ (r + c) - (r + i - 1) < PIPESIZE
    BY <1>1, <1>3
  <2>2. (r + c) % PIPESIZE # (r + i - 1) % PIPESIZE
    BY <2>1, ModDiff, SMTT(40)
  <2> QED
    BY <1>5, <2>1, <2>2, DivMod
<1>7. QueuedOf(d1, r, w1) = [i \in 1 .. c + 1 |-> d1[(r + i - 1) % PIPESIZE]]
  BY <1>4 DEF QueuedOf
<1>8. QueuedOf(d, r, w) = [i \in 1 .. c |-> d[(r + i - 1) % PIPESIZE]]
  BY DEF QueuedOf, c
<1>9. QueuedOf(d, r, w) \in Seq(Bytes) /\ Len(QueuedOf(d, r, w)) = c
  BY <1>1, <1>6, <1>8
<1>10. \A i \in 1 .. c : d1[(r + i - 1) % PIPESIZE] = d[(r + i - 1) % PIPESIZE]
  BY <1>6
<1>11. d1[(r + (c + 1) - 1) % PIPESIZE] = v
  <2>1. r + (c + 1) - 1 = r + c
    BY <1>1
  <2> QED
    BY <1>5, <2>1
<1> HIDE DEF d1
<1>12. QueuedOf(d1, r, w1) = Append(QueuedOf(d, r, w), v)
  <2> DEFINE q == QueuedOf(d, r, w)
             q1 == QueuedOf(d1, r, w1)
  <2>1. q \in Seq(Bytes) /\ Len(q) = c
    BY <1>9
  <2>2. q1 \in Seq(Bytes) /\ Len(q1) = c + 1
    <3>1. \A i \in 1 .. c + 1 : d1[(r + i - 1) % PIPESIZE] \in Bytes
      <4>1. \A i \in 1 .. c : d[(r + i - 1) % PIPESIZE] \in Bytes
        BY <1>6
      <4>2. \A i \in 1 .. c + 1 : i \in 1 .. c \/ i = c + 1
        BY <1>1
      <4> QED
        BY <1>10, <1>11, <4>1, <4>2
    <3>2. c + 1 \in Nat
      BY <1>1
    <3> QED
      BY <1>7, <3>1, <3>2
  <2>3. ASSUME NEW i \in 1 .. c + 1 PROVE q1[i] = IF i = c + 1 THEN v ELSE q[i]
    <3>1. q1[i] = d1[(r + i - 1) % PIPESIZE]
      BY <1>7
    <3>2. CASE i = c + 1
      BY <1>11, <3>1, <3>2
    <3>3. CASE i # c + 1
      <4>1. i \in 1 .. c
        BY <1>1, <3>3
      <4> QED
        BY <1>8, <1>10, <3>1, <3>3, <4>1
    <3> QED
      BY <3>2, <3>3
  <2> HIDE DEF q, q1
  <2>4. /\ Append(q, v) \in Seq(Bytes) /\ Len(Append(q, v)) = c + 1
        /\ \A i \in 1 .. c + 1 : Append(q, v)[i] = IF i = c + 1 THEN v ELSE q[i]
    BY <1>1, <2>1, SMTT(40)
  <2>5. q1 = Append(q, v)
    BY <2>2, <2>3, <2>4, SeqEqual
  <2> QED
    BY <2>5 DEF q, q1
<1> QED
  BY <1>4, <1>12 DEF IsPut, c, w1, d1

\* piperead() takes the first byte of the queue.
LEMMA TakeByte ==
  ASSUME NEW d \in [0 .. PIPESIZE - 1 -> Bytes], NEW r \in 0 .. W - 1, NEW w \in 0 .. W - 1,
         r # w
  PROVE  IsTake(d, r, w)
<1> DEFINE c == CountOf(r, w)
           r1 == (r + 1) % W
<1>1. /\ c \in 0 .. W - 1 /\ c = (IF r <= w THEN w - r ELSE w - r + W)
      /\ r1 = (IF r + 1 = W THEN 0 ELSE r + 1) /\ r1 \in 0 .. W - 1
  BY CountIs, NextCount, ZenonT(60)
<1>2. CountOf(r1, w) = IF r1 <= w THEN w - r1 ELSE w - r1 + W
  <2> HIDE DEF r1
  <2> QED
    BY <1>1, CountIs, ZenonT(60)
<1> HIDE DEF c, r1
<1>3. CountOf(r1, w) = c - 1 /\ c > 0
  BY <1>1, <1>2
<1>4. ASSUME NEW i \in 1 .. c
      PROVE  (r + i - 1) % PIPESIZE \in 0 .. PIPESIZE - 1
  <2>1. r + i - 1 \in Int
    BY <1>1
  <2> QED
    BY <2>1, DivMod
<1>5. ASSUME NEW i \in 1 .. c - 1
      PROVE  (r1 + i - 1) % PIPESIZE = (r + (i + 1) - 1) % PIPESIZE
  <2>1. CASE r + 1 = W
    <3>1. r1 + i - 1 \in Int /\ r + (i + 1) - 1 = (r1 + i - 1) + W
      BY <1>1, <2>1
    <3> QED
      BY <3>1, FullTurn
  <2>2. CASE r + 1 # W
    <3>1. r + (i + 1) - 1 = r1 + i - 1
      BY <1>1, <2>2
    <3> QED
      BY <3>1
  <2> QED
    BY <2>1, <2>2
<1> DEFINE q == QueuedOf(d, r, w)
           q1 == QueuedOf(d, r1, w)
<1>6. q = [i \in 1 .. c |-> d[(r + i - 1) % PIPESIZE]]
  BY DEF QueuedOf, c
<1>7. q1 = [i \in 1 .. c - 1 |-> d[(r1 + i - 1) % PIPESIZE]]
  BY <1>3 DEF QueuedOf
<1> HIDE DEF q, q1
<1>8. q \in Seq(Bytes) /\ Len(q) = c
  BY <1>1, <1>4, <1>6
<1>9. q # << >> /\ Head(q) = d[r % PIPESIZE]
  <2>1. r + 1 - 1 = r /\ 1 \in 1 .. c
    BY <1>1, <1>3
  <2>2. q[1] = d[r % PIPESIZE]
    BY <1>6, <2>1
  <2> QED
    BY <1>3, <1>8, <2>2
<1>10. q1 = [i \in 1 .. c - 1 |-> q[i + 1]]
  <2>1. \A i \in 1 .. c - 1 : i + 1 \in 1 .. c /\ q[i + 1] = d[(r + (i + 1) - 1) % PIPESIZE]
    BY <1>1, <1>6
  <2> QED
    BY <1>5, <1>7, <2>1
<1>11. q1 = Tail(q)
  <2>1. q1 \in Seq(Bytes) /\ Len(q1) = c - 1
    BY <1>1, <1>3, <1>8, <1>10
  <2>2. /\ Tail(q) \in Seq(Bytes) /\ Len(Tail(q)) = c - 1
        /\ \A i \in 1 .. c - 1 : Tail(q)[i] = q[i + 1]
    BY <1>8, <1>9, HeadTailProperties
  <2>3. \A i \in 1 .. c - 1 : q1[i] = q[i + 1]
    BY <1>10
  <2> QED
    BY <2>1, <2>2, <2>3, SeqEqual
<1> QED
  BY <1>3, <1>9, <1>11 DEF IsTake, c, r1, q, q1

\* The ring never holds more than PIPESIZE bytes.
RingFits == CountOf(nread, nwrite) <= PIPESIZE

\* Queued is a queue between the counters, and the tests count its bytes.
LEMMA QueuedIs ==
  ASSUME PipeType
  PROVE  /\ Queued = QueuedOf(pdata, nread, nwrite) /\ CountOf(nread, nwrite) \in 0 .. W - 1
         /\ Full <=> CountOf(nread, nwrite) = PIPESIZE
         /\ Empty <=> CountOf(nread, nwrite) = 0
         /\ Queued \in Seq(Bytes) /\ Len(Queued) = CountOf(nread, nwrite)
<1> DEFINE c == CountOf(nread, nwrite)
<1>1. nread \in 0 .. W - 1 /\ nwrite \in 0 .. W - 1 /\ pdata \in [0 .. PIPESIZE - 1 -> Bytes]
  BY DEF PipeType
<1>2. Queued = QueuedOf(pdata, nread, nwrite)
  BY DEF Queued, QueuedOf, Count, CountOf
<1>3. Full <=> c = PIPESIZE
  BY <1>1, FullEmpty, ZenonT(60) DEF Full
<1>4. Empty <=> c = 0
  BY <1>1, FullEmpty, ZenonT(60) DEF Empty
<1>5. c \in 0 .. W - 1
  BY <1>1, CountIs, ZenonT(60)
<1>6. Queued \in Seq(Bytes) /\ Len(Queued) = c
  <2>1. Queued = [i \in 1 .. c |-> pdata[(nread + i - 1) % PIPESIZE]]
    BY <1>2 DEF QueuedOf
  <2>2. ASSUME NEW i \in 1 .. c PROVE pdata[(nread + i - 1) % PIPESIZE] \in Bytes
    <3>1. nread + i - 1 \in Int
      BY <1>1, <1>5
    <3>2. (nread + i - 1) % PIPESIZE \in 0 .. PIPESIZE - 1
      BY <3>1, DivMod
    <3> QED
      BY <1>1, <3>2
  <2>3. c \in Nat
    BY <1>5
  <2> HIDE DEF c
  <2> QED
    BY <2>1, <2>2, <2>3
<1> QED
  BY <1>2, <1>3, <1>4, <1>5, <1>6

\* What the steps do to the queue: pipewrite() puts a byte at its end, piperead()
\* takes one from its front, and no other step touches it.
LEMMA FifoStep ==
  ASSUME PipeType, PipeType', RingFits, [PipeNext]_pipeVars
  PROVE  RingFits' /\ [F!FifoNext]_(F!fifoVars)
<1> USE DEF ringVars
<1>0. /\ nread \in 0 .. W - 1 /\ nwrite \in 0 .. W - 1 /\ pdata \in [0 .. PIPESIZE - 1 -> Bytes]
      /\ got \in [Readers -> Seq(Bytes)] /\ buf \in [Writers -> Seq(Bytes)]
  BY DEF PipeType
<1>1. ASSUME UNCHANGED ringVars PROVE RingFits' /\ Queued' = Queued
  BY <1>1 DEF RingFits, CountOf, Queued, Count
<1>2. ASSUME UNCHANGED ringVars, UNCHANGED got PROVE RingFits' /\ [F!FifoNext]_(F!fifoVars)
  BY <1>1, <1>2 DEF F!fifoVars
<1>3. CASE UNCHANGED pipeVars
  BY <1>2, <1>3 DEF pipeVars
<1>4. ASSUME NEW p \in Writers, WriteByte(p) PROVE RingFits' /\ [F!FifoNext]_(F!fifoVars)
  <2> DEFINE v == Head(buf[p])
  <2>1. /\ pdata' = [pdata EXCEPT ![nwrite % PIPESIZE] = v] /\ nwrite' = (nwrite + 1) % W
        /\ nread' = nread /\ got' = got /\ buf[p] # << >> /\ ~Full
    BY <1>4 DEF WriteByte
  <2>2. v \in Bytes
    BY <1>0, <2>1
  <2>3. CountOf(nread, nwrite) < PIPESIZE /\ CountOf(nread, nwrite) \in Nat
    BY <2>1, QueuedIs DEF RingFits
  <2> HIDE DEF v
  <2>4. /\ CountOf(nread', nwrite') = CountOf(nread, nwrite) + 1
        /\ QueuedOf(pdata', nread', nwrite') = Append(QueuedOf(pdata, nread, nwrite), v)
    <3>1. IsPut(pdata, nread, nwrite, v)
      BY <1>0, <2>2, <2>3, PutByte, ZenonT(60)
    <3> QED
      BY <2>1, <3>1 DEF IsPut
  <2>5. RingFits'
    BY <2>3, <2>4 DEF RingFits
  <2>6. Queued' = QueuedOf(pdata', nread', nwrite')
    BY DEF Queued, QueuedOf, Count, CountOf
  <2>7. Queued = QueuedOf(pdata, nread, nwrite) /\ Len(Queued) < PIPESIZE
    BY <2>3, QueuedIs
  <2>8. F!Put(v)
    BY <2>1, <2>4, <2>6, <2>7 DEF F!Put
  <2> QED
    BY <2>2, <2>5, <2>8 DEF F!FifoNext
<1>5. ASSUME NEW p \in Readers, ReadByte(p) PROVE RingFits' /\ [F!FifoNext]_(F!fifoVars)
  <2>1. /\ got' = [got EXCEPT ![p] = Append(@, pdata[nread % PIPESIZE])]
        /\ nread' = (nread + 1) % W /\ UNCHANGED <<pdata, nwrite>> /\ nread # nwrite
    BY <1>5 DEF ReadByte, Empty
  <2>2. /\ CountOf(nread', nwrite') = CountOf(nread, nwrite) - 1
        /\ QueuedOf(pdata, nread, nwrite) # << >>
        /\ Head(QueuedOf(pdata, nread, nwrite)) = pdata[nread % PIPESIZE]
        /\ QueuedOf(pdata', nread', nwrite') = Tail(QueuedOf(pdata, nread, nwrite))
    <3>1. IsTake(pdata, nread, nwrite)
      BY <1>0, <2>1, TakeByte, ZenonT(60)
    <3> QED
      BY <2>1, <3>1 DEF IsTake
  <2>3. Queued' = QueuedOf(pdata', nread', nwrite')
    BY DEF Queued, QueuedOf, Count, CountOf
  <2>4. Queued = QueuedOf(pdata, nread, nwrite) /\ CountOf(nread, nwrite) \in Nat
    BY QueuedIs
  <2>5. RingFits'
    BY <2>2, <2>4 DEF RingFits
  <2>6. F!Take(p)
    BY <2>1, <2>2, <2>3, <2>4 DEF F!Take
  <2> QED
    BY <2>5, <2>6 DEF F!FifoNext
<1>6. ASSUME NEW p \in Readers, NEW n \in 1 .. MaxN, ReadCall(p, n)
      PROVE  RingFits' /\ [F!FifoNext]_(F!fifoVars)
  <2>1. UNCHANGED ringVars /\ got' = [got EXCEPT ![p] = << >>]
    BY <1>6 DEF ReadCall
  <2>2. RingFits' /\ F!StartRead(p)
    BY <1>1, <2>1 DEF F!StartRead
  <2> QED
    BY <2>2 DEF F!FifoNext
<1>7. ASSUME NEW p \in PipeUsers, PipeStep(p) PROVE RingFits' /\ [F!FifoNext]_(F!fifoVars)
  <2>1. \/ UNCHANGED ringVars /\ UNCHANGED got
        \/ p \in Writers /\ WriteByte(p)
        \/ p \in Readers /\ (ReadByte(p) \/ \E n \in 1 .. MaxN : ReadCall(p, n))
    BY <1>7 DEF PipeStep, WriteCall, WriteFull, WriteSleep, WriteResume, WriteDone,
         ReadTest, ReadSleep, ReadResume, ReadDone, Close, PipeClose, Kill
  <2> QED
    BY <1>2, <1>4, <1>5, <1>6, <2>1
<1> QED
  BY <1>3, <1>7 DEF PipeNext

\* A pipe (pipe.c) is a bounded queue: bytes come out in the order they went in,
\* none lost, doubled or invented, at most PIPESIZE of them, for any number of
\* readers and writers and however often nread and nwrite wrap around.
THEOREM PipeIsFifo == PipeSpec => FirstInFirstOut
<1>1. PipeInit => RingFits /\ F!FifoInit
  <2> SUFFICES ASSUME PipeInit PROVE RingFits /\ F!FifoInit
    OBVIOUS
  <2>1. PipeType /\ nread = nwrite /\ nread \in 0 .. W - 1 /\ nwrite \in 0 .. W - 1
    BY PipeInvInit DEF PipeInv, PipeType, PipeInit
  <2>2. CountOf(nread, nwrite) = 0
    BY <2>1, FullEmpty, ZenonT(60)
  <2>3. RingFits
    BY <2>2 DEF RingFits
  <2>4. Queued \in Seq(Bytes) /\ Len(Queued) = 0
    BY <2>1, <2>2, <2>3, QueuedIs
  <2> QED
    BY <2>3, <2>4 DEF F!FifoInit, PipeInit
<1>2. PipeInv /\ PipeInv' /\ RingFits /\ [PipeNext]_pipeVars => RingFits' /\ [F!FifoNext]_(F!fifoVars)
  BY FifoStep DEF PipeInv
<1> QED
  BY <1>1, <1>2, PipeInvariance, PTL DEF PipeSpec, FirstInFirstOut, F!FifoSpec

-----------------------------------------------------------------------------
(* The contents of files: the invariant.                                    *)

HIDE PipeAssumption

Active == {"bmap", "bzero", "end"}

Entries == {"bits", "data"} \X Nat
Calls == [pc : Active \cup {"idle", "chunk"}, todo : Nat, n : Nat, pos : Nat,
          new : 0 .. NBlocks, logged : SUBSET Entries]

\* Types.
DataType ==
  /\ bitmap \subseteq DataBlocks
  /\ DOMAIN store = DataBlocks /\ \A b \in DataBlocks : DOMAIN store[b] = 0 .. BSIZE - 1
  /\ addrs \in [Inodes -> [0 .. NDIRECT -> 0 .. NBlocks]]
  /\ len \in [Inodes -> Nat]
  /\ held \in [Inodes -> Opens \cup {"itrunc", "none"}]
  /\ off \in [Opens -> Nat]
  /\ wr \in [Opens -> Calls]
  /\ slot \in [Inodes -> 0 .. MAXFILE + 1]
  /\ DOMAIN before = Inodes

\* Who has the lock of an inode: the call in its critical section, or itrunc().
Locking ==
  /\ \A d \in Opens : wr[d].pc \in Active => held[InodeOf[d]] = d
  /\ \A i \in Inodes : held[i] \in Opens => InodeOf[held[i]] = i /\ wr[held[i]].pc \in Active
  /\ \A i \in Inodes : held[i] # "itrunc" => slot[i] = 0
  /\ \A d \in Opens : held[InodeOf[d]] = "itrunc" => wr[d].pc = "idle"
  /\ \A d \in Opens : wr[d].new # 0 <=> wr[d].pc = "bzero"

\* How far the chunk of a call is.
ChunkOf(d) ==
  /\ wr[d].pc = "chunk" => wr[d].todo > 0
  /\ wr[d].pc \in Active =>
       /\ 0 < wr[d].n /\ wr[d].n <= ChunkMax /\ wr[d].n <= wr[d].todo
       /\ off[d] <= len[InodeOf[d]] /\ off[d] + wr[d].n <= MAXFILE * BSIZE
       /\ off[d] <= wr[d].pos /\ wr[d].pos <= off[d] + wr[d].n
       /\ wr[d].pos = off[d] + wr[d].n <=> wr[d].pc = "end"
  /\ wr[d].pc = "bzero" => Lookup(InodeOf[d], Missing(d)) = 0
  /\ wr[d].pc \notin Active => wr[d].logged = {}

Chunks == \A d \in Opens : ChunkOf(d)

\* Inodes and indirect blocks hold block numbers; what itrunc() has freed is not named.
Numbers(i) ==
  /\ \A bn \in 0 .. MAXFILE : Lookup(i, bn) \in 0 .. NBlocks
  /\ addrs[i][NDIRECT] # 0 => slot[i] <= MAXFILE
  /\ \A k \in 0 .. NDIRECT - 1 : k < slot[i] => addrs[i][k] = 0

Indirect == \A i \in Inodes : Numbers(i)

\* Inode i has block b at number bn, and itrunc() has not been there.
Has(i, bn, b) == bn \in 0 .. MAXFILE /\ slot[i] <= bn /\ Lookup(i, bn) = b

\* A block in use has one owner, one that is not has none.
Owned ==
  /\ \A i, j \in Inodes : \A bn, bm \in 0 .. MAXFILE : \A b \in DataBlocks :
       Has(i, bn, b) /\ Has(j, bm, b) => i = j /\ bn = bm
  /\ \A i \in Inodes : \A bn \in 0 .. MAXFILE : \A d \in Opens : \A b \in DataBlocks :
       wr[d].new = b => ~Has(i, bn, b)
  /\ \A d, e \in Opens : wr[d].new # 0 /\ wr[d].new = wr[e].new => d = e
  /\ \A b \in DataBlocks :
       b \in bitmap <=> (\E i \in Inodes : \E bn \in 0 .. MAXFILE : Has(i, bn, b))
                        \/ (\E d \in Opens : wr[d].new = b)

\* Files have a block for each of their words, and for those just written.
CoverOf(i) ==
  /\ len[i] <= MAXFILE * BSIZE
  /\ held[i] # "itrunc" => \A bn \in 0 .. MAXFILE - 1 : bn * BSIZE < len[i] => Lookup(i, bn) # 0

WrittenTo(d) ==
  wr[d].pc \in Active =>
    \A bn \in 0 .. MAXFILE - 1 : bn * BSIZE < wr[d].pos => Lookup(InodeOf[d], bn) # 0

Covered == (\A i \in Inodes : CoverOf(i)) /\ \A d \in Opens : WrittenTo(d)

\* The block that number bn of d's inode has, or is about to have.
Block(d, bn) == IF wr[d].pc = "bzero" /\ bn = Missing(d) THEN wr[d].new ELSE Lookup(InodeOf[d], bn)

\* The blocks a chunk is about, and those of them it may have to allocate: when it begins
\* inside a block, not that one.
FirstBlock(d) == off[d] \div BSIZE
LastBlock(d) == (off[d] + wr[d].n - 1) \div BSIZE
FirstNew(d) == IF off[d] % BSIZE = 0 THEN FirstBlock(d) ELSE FirstBlock(d) + 1

\* Nothing else is in a transaction than the blocks of its chunk, their bits, the indirect
\* block and its bit.
Belongs(d, x) ==
  \/ \E bn \in FirstBlock(d) .. LastBlock(d) : Block(d, bn) # 0 /\ x = <<"data", Block(d, bn)>>
  \/ \E bn \in FirstNew(d) .. LastBlock(d) : Block(d, bn) # 0 /\ x = <<"bits", Block(d, bn) \div BPB>>
  \/ /\ Block(d, MAXFILE) # 0
     /\ x \in {<<"data", Block(d, MAXFILE)>>, <<"bits", Block(d, MAXFILE) \div BPB>>}

LoggedOf(d) == wr[d].pc \in Active => \A x \in wr[d].logged : Belongs(d, x)

Logging == \A d \in Opens : LoggedOf(d)

Word(i, k) == store[Lookup(i, k \div BSIZE)][k % BSIZE]

\* What is in the blocks while a chunk is written.
WritingOf(d) ==
  LET i == InodeOf[d] IN
  wr[d].pc \in Active =>
    /\ Len(before[i]) = len[i]
    /\ \A k \in Nat : k < len[i] \/ k < wr[d].pos =>
         Word(i, k) = IF off[d] <= k /\ k < wr[d].pos THEN WordOf[d] ELSE before[i][k + 1]

Writing == \A d \in Opens : WritingOf(d)

DataInv == DataType /\ Locking /\ Chunks /\ Indirect /\ Owned /\ Covered /\ Logging

USE FileDataAssumption DEF DataBlocks

LEMMA Sizes == MAXFILE = NDIRECT + BSIZE /\ MAXFILE \in Nat /\ MAXFILE * BSIZE \in Nat
BY DEF MAXFILE, NINDIRECT

LEMMA MaxFile == MAXFILE = NDIRECT + BSIZE /\ MAXFILE \in Nat
BY DEF MAXFILE, NINDIRECT

LEMMA Min2 ==
  ASSUME NEW a \in Int, NEW b \in Int
  PROVE  Min({a, b}) = IF a <= b THEN a ELSE b
BY DEF Min

LEMMA Max2 ==
  ASSUME NEW a \in Int, NEW b \in Int
  PROVE  Max({a, b}) = IF a >= b THEN a ELSE b
BY DEF Max

\* Word k of a file is in one of its blocks.
LEMMA BlockOf ==
  ASSUME NEW k \in Nat
  PROVE  /\ k \div BSIZE \in Nat /\ k % BSIZE \in 0 .. BSIZE - 1
         /\ (k \div BSIZE) * BSIZE <= k /\ k < (k \div BSIZE) * BSIZE + BSIZE
         /\ k = (k \div BSIZE) * BSIZE + (k % BSIZE)
         /\ \A m \in Nat : k < m * BSIZE => k \div BSIZE < m
<1> DEFINE q == k \div BSIZE
           r == k % BSIZE
<1>1. k = BSIZE * q + r /\ q \in Int /\ r \in 0 .. BSIZE - 1
  BY DivMod
<1> HIDE DEF q, r
<1>2. q >= 0
  <2>1. CASE q <= 0 - 1
    <3>1. BSIZE * q <= BSIZE * (0 - 1)
      BY <1>1, <2>1
    <3> QED
      BY <1>1, <3>1
  <2> QED
    BY <1>1, <2>1
<1>3. q * BSIZE = BSIZE * q /\ q * BSIZE \in Nat
  BY <1>1, <1>2
<1>4. ASSUME NEW m \in Nat, k < m * BSIZE PROVE q < m
  <2>1. CASE m <= q
    <3>1. m * BSIZE <= q * BSIZE
      BY <1>1, <1>2, <2>1
    <3> QED
      BY <1>1, <1>3, <1>4, <3>1
  <2> QED
    BY <1>1, <2>1
<1>5. q \in Nat /\ r \in 0 .. BSIZE - 1 /\ q * BSIZE <= k /\ k < q * BSIZE + BSIZE /\ k = q * BSIZE + r
  BY <1>1, <1>2, <1>3
<1> QED
  BY <1>4, <1>5 DEF q, r

\* Types of single values.
LEMMA CallType ==
  ASSUME DataType
  PROVE  /\ wr \in [Opens -> Calls]
         /\ DOMAIN held = Inodes /\ DOMAIN slot = Inodes /\ DOMAIN addrs = Inodes /\ DOMAIN before = Inodes
         /\ DOMAIN len = Inodes /\ DOMAIN off = Opens /\ DOMAIN wr = Opens
BY DEF DataType

LEMMA CallFields ==
  ASSUME DataType, NEW d \in Opens
  PROVE  /\ wr[d].pc \in Active \cup {"idle", "chunk"} /\ wr[d].todo \in Nat /\ wr[d].n \in Nat
         /\ wr[d].pos \in Nat /\ wr[d].new \in 0 .. NBlocks /\ wr[d].logged \in SUBSET Entries
         /\ off[d] \in Nat /\ InodeOf[d] \in Inodes /\ len[InodeOf[d]] \in Nat
<1>1. wr \in [Opens -> Calls]
  BY CallType
<1>2. wr[d] \in Calls
  BY <1>1
<1>3. off[d] \in Nat /\ InodeOf[d] \in Inodes /\ len[InodeOf[d]] \in Nat
  BY DEF DataType
<1> QED
  BY <1>2, <1>3 DEF Calls

\* A change to a call keeps its type.
LEMMA CallSet ==
  ASSUME NEW r \in Calls, NEW pc \in Active \cup {"idle", "chunk"}, NEW x \in Nat, NEW y \in Nat,
         NEW b \in 0 .. NBlocks, NEW L \in SUBSET Entries
  PROVE  /\ [r EXCEPT !.pc = pc, !.todo = x] \in Calls
         /\ [r EXCEPT !.pc = pc, !.n = x, !.pos = y] \in Calls
         /\ [r EXCEPT !.pc = pc, !.new = b, !.logged = L] \in Calls
         /\ [r EXCEPT !.pos = x, !.logged = L, !.pc = pc] \in Calls
<1> USE DEF Calls
<1>1. [r EXCEPT !.pc = pc, !.todo = x] \in Calls
  OBVIOUS
<1>2. [r EXCEPT !.pc = pc, !.n = x, !.pos = y] \in Calls
  OBVIOUS
<1>3. [r EXCEPT !.pc = pc, !.new = b, !.logged = L] \in Calls
  OBVIOUS
<1>4. [r EXCEPT !.pos = x, !.logged = L, !.pc = pc] \in Calls
  OBVIOUS
<1> QED
  BY <1>1, <1>2, <1>3, <1>4

LEMMA LookupType ==
  ASSUME DataType, Indirect, NEW i \in Inodes, NEW bn \in 0 .. MAXFILE
  PROVE  Lookup(i, bn) \in 0 .. NBlocks
BY DEF Indirect, Numbers

\* The place of a round: a number of the file's, and what bmap() lacks for it.
LEMMA PlaceOf ==
  ASSUME DataType, Locking, Chunks, Indirect, NEW d \in Opens, wr[d].pc \in {"bmap", "bzero"}
  PROVE  /\ InodeOf[d] \in Inodes /\ held[InodeOf[d]] = d /\ slot[InodeOf[d]] = 0
         /\ wr[d].pos < off[d] + wr[d].n /\ wr[d].pos \in Nat
         /\ wr[d].pos \div BSIZE \in 0 .. MAXFILE - 1
         /\ Missing(d) \in 0 .. MAXFILE
         /\ IF wr[d].pos \div BSIZE >= NDIRECT /\ addrs[InodeOf[d]][NDIRECT] = 0
            THEN Missing(d) = MAXFILE ELSE Missing(d) = wr[d].pos \div BSIZE
<1>1. InodeOf[d] \in Inodes /\ held[InodeOf[d]] = d /\ slot[InodeOf[d]] = 0
  BY DEF Locking, Active, DataType
<1>2. wr[d].pos \in Nat /\ off[d] \in Nat /\ wr[d].n \in Nat
  BY CallFields
<1>3. wr[d].pos < off[d] + wr[d].n /\ off[d] + wr[d].n <= MAXFILE * BSIZE
  BY <1>2 DEF Chunks, ChunkOf, Active
<1>4. MAXFILE \in Nat /\ MAXFILE * BSIZE \in Nat
  BY Sizes
<1>5. wr[d].pos < MAXFILE * BSIZE
  BY <1>2, <1>3, <1>4
<1> DEFINE q == wr[d].pos \div BSIZE
<1>6. q \in Nat /\ q < MAXFILE
  BY <1>2, <1>4, <1>5, BlockOf
<1> HIDE DEF q
<1>7. q \in 0 .. MAXFILE - 1
  BY <1>4, <1>6
<1>8. Missing(d) = IF q >= NDIRECT /\ addrs[InodeOf[d]][NDIRECT] = 0 THEN MAXFILE ELSE q
  BY DEF Missing, q
<1>9. Missing(d) \in 0 .. MAXFILE
  BY <1>4, <1>7, <1>8
<1> QED
  BY <1>1, <1>2, <1>3, <1>7, <1>8, <1>9 DEF q

-----------------------------------------------------------------------------
(* What the steps do to block numbers.                                      *)

\* The blocks of an inode's indirect block and of its other numbers.
LEMMA HasFacts ==
  ASSUME DataType, Indirect, NEW i \in Inodes
  PROVE  /\ addrs[i][NDIRECT] \in 0 .. NBlocks
         /\ Lookup(i, MAXFILE) = addrs[i][NDIRECT]
         /\ addrs[i][NDIRECT] # 0 => addrs[i][NDIRECT] \in DataBlocks /\ Has(i, MAXFILE, addrs[i][NDIRECT])
         /\ \A bn \in 0 .. MAXFILE : slot[i] <= bn /\ Lookup(i, bn) # 0 =>
              Lookup(i, bn) \in DataBlocks /\ Has(i, bn, Lookup(i, bn))
<1>1. addrs[i][NDIRECT] \in 0 .. NBlocks /\ Lookup(i, MAXFILE) = addrs[i][NDIRECT]
  BY Sizes DEF DataType, Lookup
<1>2. addrs[i][NDIRECT] # 0 => addrs[i][NDIRECT] \in DataBlocks /\ Has(i, MAXFILE, addrs[i][NDIRECT])
  BY <1>1, Sizes DEF Has, Indirect, Numbers
<1>3. ASSUME NEW bn \in 0 .. MAXFILE, slot[i] <= bn, Lookup(i, bn) # 0
      PROVE  Lookup(i, bn) \in DataBlocks /\ Has(i, bn, Lookup(i, bn))
  <2>1. Lookup(i, bn) \in 0 .. NBlocks
    BY LookupType
  <2> QED
    BY <1>3, <2>1 DEF Has
<1> QED
  BY <1>1, <1>2, <1>3

LEMMA LookupSame ==
  ASSUME store' = store, addrs' = addrs, NEW i, NEW bn
  PROVE  Lookup(i, bn)' = Lookup(i, bn)
BY DEF Lookup

\* The new block goes where it was missing, and nothing else changes.
LEMMA InstallFacts ==
  ASSUME DataInv, NEW d \in Opens, Install(d)
  PROVE  /\ InodeOf[d] \in Inodes /\ wr[d].new \in DataBlocks /\ Lookup(InodeOf[d], Missing(d)) = 0
         /\ Missing(d) \in 0 .. MAXFILE /\ held[InodeOf[d]] = d /\ slot[InodeOf[d]] = 0
         /\ (Missing(d) < NDIRECT \/ Missing(d) = MAXFILE \/ addrs[InodeOf[d]][NDIRECT] # 0)
BY PlaceOf, CallFields DEF Install, DataInv, Chunks, ChunkOf, Locking

LEMMA InstallLookup ==
  ASSUME DataInv, NEW d \in Opens, Install(d), NEW j \in Inodes, NEW bm \in 0 .. MAXFILE
  PROVE  Lookup(j, bm)' = IF j = InodeOf[d] /\ bm = Missing(d) THEN wr[d].new ELSE Lookup(j, bm)
<1> DEFINE i == InodeOf[d]
           b == wr[d].new
           bn == Missing(d)
           ind == addrs[i][NDIRECT]
<1>1. i \in Inodes /\ b \in DataBlocks /\ bn \in 0 .. MAXFILE /\ (bn < NDIRECT \/ bn = MAXFILE \/ ind # 0)
  BY InstallFacts
<1>2. DataType /\ Indirect
  BY DEF DataInv
<1>3. \A k \in Inodes : addrs[k][NDIRECT] # b
  BY <1>1, <1>2, HasFacts, Sizes DEF DataInv, Owned
<1>4. \A k \in Inodes : k # i /\ ind # 0 => addrs[k][NDIRECT] # ind
  BY <1>1, <1>2, HasFacts, Sizes DEF DataInv, Owned
<1>5. addrs[j] \in [0 .. NDIRECT -> 0 .. NBlocks] /\ addrs[i] \in [0 .. NDIRECT -> 0 .. NBlocks]
      /\ DOMAIN addrs = Inodes
  BY <1>1, <1>2 DEF DataType
<1>6. DOMAIN store = DataBlocks /\ \A c \in DataBlocks : DOMAIN store[c] = 0 .. BSIZE - 1
  BY <1>2 DEF DataType
<1>7. ind \in 0 .. NBlocks /\ addrs[j][NDIRECT] \in 0 .. NBlocks
  BY <1>5
<1> HIDE DEF i, b, bn, ind
<1>8. CASE bn < NDIRECT \/ bn = MAXFILE
  <2>1. /\ addrs' = [addrs EXCEPT ![i][IF bn = MAXFILE THEN NDIRECT ELSE bn] = b]
        /\ store' = [store EXCEPT ![b] = Zeroed(b)]
    BY <1>8 DEF Install, i, b, bn
  <2>2. CASE j # i
    <3>1. addrs'[j] = addrs[j]
      BY <1>1, <1>5, <2>1, <2>2
    <3>2. addrs[j][NDIRECT] # 0 => store'[addrs[j][NDIRECT]] = store[addrs[j][NDIRECT]]
      BY <1>1, <1>3, <1>6, <1>7, <2>1
    <3> QED
      BY <2>2, <3>1, <3>2 DEF Lookup, i, bn, b
  <2>3. CASE j = i /\ bn = MAXFILE
    <3>1. addrs'[j] = [addrs[j] EXCEPT ![NDIRECT] = b]
      BY <1>1, <1>5, <2>1, <2>3
    <3>2. addrs'[j][NDIRECT] = b /\ \A k \in 0 .. NDIRECT - 1 : addrs'[j][k] = addrs[j][k]
      BY <1>5, <3>1
    <3>3. store'[b] = [k \in 0 .. BSIZE - 1 |-> 0]
      BY <1>1, <1>6, <2>1 DEF Zeroed
    <3>4. addrs[j][NDIRECT] = 0
      BY <1>2, <2>3, InstallFacts, HasFacts DEF i, bn
    <3>5. bm \in NDIRECT .. MAXFILE - 1 => store'[b][bm - NDIRECT] = 0
      BY <3>3, Sizes
    <3> QED
      BY <1>1, <2>3, <3>2, <3>4, <3>5, Sizes DEF Lookup, i, bn, b
  <2>4. CASE j = i /\ bn < NDIRECT
    <3>0. bn # MAXFILE
      BY <1>1, <2>4, Sizes
    <3>1. addrs'[j] = [addrs[j] EXCEPT ![bn] = b]
      BY <1>5, <2>1, <2>4, <3>0
    <3>2. addrs'[j][bn] = b /\ \A k \in 0 .. NDIRECT : k # bn => addrs'[j][k] = addrs[j][k]
      BY <1>1, <1>5, <2>4, <3>1
    <3>3. addrs[j][NDIRECT] # 0 => store'[addrs[j][NDIRECT]] = store[addrs[j][NDIRECT]]
      BY <1>1, <1>3, <1>6, <1>7, <2>1
    <3> QED
      BY <1>1, <2>4, <3>2, <3>3, Sizes DEF Lookup, i, bn, b
  <2> QED
    BY <1>8, <2>2, <2>3, <2>4
<1>9. CASE ~(bn < NDIRECT \/ bn = MAXFILE)
  <2>1. /\ store' = [[store EXCEPT ![b] = Zeroed(b)] EXCEPT ![ind][bn - NDIRECT] = b]
        /\ addrs' = addrs
    BY <1>9 DEF Install, i, b, bn, ind
  <2>2. ind \in DataBlocks /\ ind # b /\ bn - NDIRECT \in 0 .. BSIZE - 1
    BY <1>1, <1>3, <1>7, <1>9, Sizes DEF ind
  <2>3. store'[ind] = [store[ind] EXCEPT ![bn - NDIRECT] = b]
    BY <1>1, <1>6, <2>1, <2>2
  <2>4. \A c \in DataBlocks : c # ind /\ c # b => store'[c] = store[c]
    BY <1>1, <1>6, <2>1, <2>2
  <2>5. CASE j = i
    <3>1. bm >= NDIRECT /\ bm # MAXFILE => bm - NDIRECT \in 0 .. BSIZE - 1
      BY Sizes
    <3>2. bm >= NDIRECT /\ bm # MAXFILE =>
            store'[ind][bm - NDIRECT] = IF bm = bn THEN b ELSE store[ind][bm - NDIRECT]
      BY <1>1, <1>6, <2>2, <2>3, <3>1
    <3> QED
      BY <1>1, <1>9, <2>1, <2>2, <2>5, <3>2 DEF Lookup, i, bn, b, ind
  <2>6. CASE j # i
    <3>1. addrs[j][NDIRECT] # 0 => store'[addrs[j][NDIRECT]] = store[addrs[j][NDIRECT]]
      BY <1>3, <1>4, <1>7, <1>9, <1>1, <2>4, <2>6
    <3> QED
      BY <2>1, <2>6, <3>1 DEF Lookup, i, bn, b
  <2> QED
    BY <2>5, <2>6
<1> QED
  BY <1>8, <1>9

\* The block that a round writes to.
LEMMA CopyFacts ==
  ASSUME DataInv, NEW d \in Opens, Copy(d)
  PROVE  LET i == InodeOf[d]  q == wr[d].pos \div BSIZE  b == Lookup(i, q) IN
         /\ i \in Inodes /\ held[i] = d /\ slot[i] = 0
         /\ q \in 0 .. MAXFILE - 1 /\ b \in DataBlocks /\ Has(i, q, b)
         /\ \A j \in Inodes : addrs[j][NDIRECT] # b
<1> DEFINE i == InodeOf[d]
           q == wr[d].pos \div BSIZE
           b == Lookup(i, q)
<1>1. DataType /\ Indirect /\ Chunks /\ Locking /\ Owned /\ wr[d].pc = "bmap" /\ Lookup(i, Missing(d)) # 0
  BY DEF DataInv, Copy
<1>2. /\ i \in Inodes /\ held[i] = d /\ slot[i] = 0 /\ q \in 0 .. MAXFILE - 1
      /\ Missing(d) = IF q >= NDIRECT /\ addrs[i][NDIRECT] = 0 THEN MAXFILE ELSE q
  BY <1>1, PlaceOf
<1> HIDE DEF i, q
<1>3. Missing(d) = q
  BY <1>1, <1>2, HasFacts
<1>4. b # 0 /\ q \in 0 .. MAXFILE /\ slot[i] <= q
  BY <1>1, <1>2, <1>3, Sizes
<1>5. b \in DataBlocks /\ Has(i, q, b)
  BY <1>1, <1>2, <1>4, HasFacts
<1>6. ASSUME NEW j \in Inodes, addrs[j][NDIRECT] = b PROVE FALSE
  <2>1. Has(j, MAXFILE, b)
    BY <1>1, <1>5, <1>6, HasFacts
  <2>2. MAXFILE = q
    BY <1>1, <1>2, <1>5, <2>1, Sizes DEF Owned, Has
  <2> QED
    BY <1>2, <2>2, Sizes
<1> QED
  BY <1>2, <1>5, <1>6 DEF i, q

LEMMA CopyLookup ==
  ASSUME DataInv, NEW d \in Opens, Copy(d), NEW j \in Inodes, NEW bm \in 0 .. MAXFILE
  PROVE  Lookup(j, bm)' = Lookup(j, bm)
<1> DEFINE b == Lookup(InodeOf[d], wr[d].pos \div BSIZE)
<1>1. b \in DataBlocks /\ addrs[j][NDIRECT] # b
  BY CopyFacts
<1>2. store' = Copied(d, b) /\ addrs' = addrs
  BY DEF Copy
<1>3. DOMAIN store = DataBlocks /\ addrs[j][NDIRECT] \in 0 .. NBlocks
  BY DEF DataInv, DataType
<1> HIDE DEF b
<1>4. addrs[j][NDIRECT] # 0 => store'[addrs[j][NDIRECT]] = store[addrs[j][NDIRECT]]
  BY <1>1, <1>2, <1>3 DEF Copied
<1> QED
  BY <1>2, <1>4 DEF Lookup

\* itrunc() leaves the numbers it has not come to.
LEMMA TruncLookup ==
  ASSUME DataInv, NEW i \in Inodes, TruncRound(i), NEW j \in Inodes, NEW bm \in 0 .. MAXFILE,
         j # i \/ bm > slot[i]
  PROVE  Lookup(j, bm)' = Lookup(j, bm)
<1>1. store' = store /\ slot[i] \in 0 .. MAXFILE /\ addrs[i] \in [0 .. NDIRECT -> 0 .. NBlocks]
      /\ DOMAIN addrs = Inodes
  BY Sizes DEF TruncRound, DataInv, DataType
<1>2. CASE addrs' = addrs
  BY <1>1, <1>2, LookupSame
<1>3. CASE addrs' # addrs
  <2>1. addrs' = [addrs EXCEPT ![i] =
                 IF slot[i] < NDIRECT THEN [addrs[i] EXCEPT ![slot[i]] = 0]
                 ELSE IF slot[i] = MAXFILE THEN [addrs[i] EXCEPT ![NDIRECT] = 0] ELSE addrs[i]]
    BY <1>3 DEF TruncRound, Bfree
  <2>2. CASE j # i
    BY <1>1, <2>1, <2>2 DEF Lookup
  <2>3. CASE j = i /\ slot[i] < NDIRECT
    <3>1. addrs'[i] = [addrs[i] EXCEPT ![slot[i]] = 0]
      BY <1>1, <2>1, <2>3
    <3>2. \A k \in 0 .. NDIRECT : k # slot[i] => addrs'[i][k] = addrs[i][k]
      BY <1>1, <3>1
    <3>3. addrs'[i][NDIRECT] = addrs[i][NDIRECT] /\ (bm < NDIRECT => addrs'[i][bm] = addrs[i][bm])
      BY <2>3, <3>2
    <3> QED
      BY <1>1, <2>3, <3>3 DEF Lookup
  <2>4. CASE j = i /\ slot[i] >= NDIRECT
    <3>1. addrs'[i] = addrs[i]
      BY <1>1, <2>1, <2>4
    <3> QED
      BY <1>1, <2>4, <3>1 DEF Lookup
  <2> QED
    BY <1>1, <2>2, <2>3, <2>4
<1> QED
  BY <1>2, <1>3

-----------------------------------------------------------------------------
(* Types and locks.                                                         *)

LEMMA Least ==
  ASSUME NEW T \in SUBSET Nat, T # {}
  PROVE  \E x \in T : \A y \in T : x <= y
<1>1. IsWellFoundedOn(OpToRel(<, Nat), Nat)
  BY NatLessThanWellFounded
<1>2. \E x \in T : \A y \in T : ~ (<<y, x>> \in OpToRel(<, Nat))
  BY <1>1, WFMin
<1>3. \A x \in T, y \in T : ~ (<<y, x>> \in OpToRel(<, Nat)) => x <= y
  BY DEF OpToRel
<1> QED
  BY <1>2, <1>3

\* balloc() returns a block that is free.
LEMMA FreeBlock ==
  ASSUME DataBlocks \ bitmap # {}
  PROVE  Min(DataBlocks \ bitmap) \in DataBlocks \ bitmap
<1> DEFINE T == DataBlocks \ bitmap
<1>1. T \in SUBSET Nat
  OBVIOUS
<1> HIDE DEF T
<1>2. \E x \in T : \A y \in T : x <= y
  BY <1>1, Least DEF T
<1>3. Min(T) \in T
  BY <1>2 DEF Min
<1> QED
  BY <1>3 DEF T

LEMMA ChunkSize ==
  /\ (MaxOpBlocks - 1 - 1 - 2) \div 2 \in Nat
  /\ 2 * ((MaxOpBlocks - 1 - 1 - 2) \div 2) <= MaxOpBlocks - 4
  /\ ChunkMax = ((MaxOpBlocks - 1 - 1 - 2) \div 2) * BSIZE
  /\ ChunkMax \in Nat /\ ChunkMax > 0
<1> DEFINE k == (MaxOpBlocks - 1 - 1 - 2) \div 2
<1>1. k \in Nat /\ k >= 1 /\ 2 * k <= MaxOpBlocks - 4
  OBVIOUS
<1>2. ChunkMax = k * BSIZE
  BY DEF ChunkMax
<1> HIDE DEF k
<1>3. k * BSIZE >= 1 * BSIZE /\ k * BSIZE \in Nat
  BY <1>1
<1> QED
  BY <1>1, <1>2, <1>3 DEF k

LEMMA RoundFacts ==
  ASSUME DataType, Locking, Chunks, Indirect, NEW d \in Opens, wr[d].pc = "bmap"
  PROVE  /\ Round(d) \in Nat /\ Round(d) > 0 /\ wr[d].pos + Round(d) <= off[d] + wr[d].n
         /\ (wr[d].pos % BSIZE) + Round(d) <= BSIZE
         /\ wr[d].pos + Round(d) # off[d] + wr[d].n => (wr[d].pos % BSIZE) + Round(d) = BSIZE
<1>1. wr[d].pos < off[d] + wr[d].n /\ wr[d].pos \in Nat
  BY PlaceOf
<1>2. off[d] \in Nat /\ wr[d].n \in Nat
  BY CallFields
<1> DEFINE r == wr[d].pos % BSIZE
<1>3. r \in 0 .. BSIZE - 1
  BY <1>1, BlockOf
<1> DEFINE x == off[d] + wr[d].n - wr[d].pos
<1>4. Round(d) = IF x <= BSIZE - r THEN x ELSE BSIZE - r
  <2>1. x \in Int /\ BSIZE - r \in Int
    BY <1>1, <1>2, <1>3
  <2> HIDE DEF x, r
  <2>2. Min({x, BSIZE - r}) = IF x <= BSIZE - r THEN x ELSE BSIZE - r
    BY <2>1, Min2
  <2> QED
    BY <2>2 DEF Round, x, r
<1> HIDE DEF r
<1>5. (r + Round(d) <= BSIZE) /\ (wr[d].pos + Round(d) # off[d] + wr[d].n => r + Round(d) = BSIZE)
  BY <1>1, <1>2, <1>3, <1>4
<1>6. Round(d) \in Nat /\ Round(d) > 0 /\ wr[d].pos + Round(d) <= off[d] + wr[d].n
  BY <1>1, <1>2, <1>3, <1>4
<1> QED
  BY <1>5, <1>6 DEF r

\* The operations of one open file.
OpensStep(d) ==
  \/ \E n \in 1 .. MaxWrite : FileRead(d, n) \/ StartWrite(d, n)
  \/ Chunk(d) \/ Balloc(d) \/ Install(d) \/ Copy(d) \/ EndChunk(d)

LEMMA StoreType ==
  ASSUME DataType, NEW b \in DataBlocks, NEW f, DOMAIN f = 0 .. BSIZE - 1
  PROVE  LET s == [store EXCEPT ![b] = f] IN
         DOMAIN s = DataBlocks /\ \A c \in DataBlocks : DOMAIN s[c] = 0 .. BSIZE - 1
BY DEF DataType

LEMMA DataTypeStep ==
  ASSUME DataInv, [DataNext]_fileVars
  PROVE  DataType'
<1>0. DataType /\ Locking /\ Chunks /\ Indirect
  BY DEF DataInv
<1>00. wr \in [Opens -> Calls] /\ NoWrite \in Calls
  BY <1>0, CallType DEF NoWrite, Calls
<1>1. ASSUME NEW d \in Opens, NEW n \in 1 .. MaxWrite, FileRead(d, n) PROVE DataType'
  <2>1. off[d] + n \in Int /\ len[InodeOf[d]] \in Int /\ off[d] + n >= 0 /\ len[InodeOf[d]] >= 0
    BY <1>0, CallFields
  <2>2. Min({off[d] + n, len[InodeOf[d]]}) \in Nat
    BY <2>1, Min2
  <2>3. off' \in [Opens -> Nat]
    BY <1>0, <1>1, <2>2 DEF FileRead, DataType
  <2> QED
    BY <1>0, <1>1, <2>3 DEF FileRead, DataType
<1>2. ASSUME NEW d \in Opens, NEW n \in 1 .. MaxWrite, StartWrite(d, n) PROVE DataType'
  <2>1. wr' \in [Opens -> Calls]
    <3>1. [NoWrite EXCEPT !.pc = "chunk", !.todo = n] \in Calls
      <4>1. n \in Nat /\ "chunk" \in Active \cup {"idle", "chunk"} /\ 0 \in 0 .. NBlocks /\ {} \in SUBSET Entries
        OBVIOUS
      <4> QED
        BY <1>00, <4>1, CallSet
    <3>2. wr' = [wr EXCEPT ![d] = [NoWrite EXCEPT !.pc = "chunk", !.todo = n]]
      BY <1>2 DEF StartWrite
    <3> QED
      BY <1>00, <3>1, <3>2
  <2> QED
    BY <1>0, <1>2, <2>1 DEF StartWrite, DataType
<1>3. ASSUME NEW d \in Opens, Chunk(d) PROVE DataType'
  <2> DEFINE n == Min({wr[d].todo, ChunkMax})
  <2>1. n \in Nat /\ InodeOf[d] \in Inodes /\ off[d] \in Nat
    BY <1>0, CallFields, ChunkSize, Min2
  <2> HIDE DEF n
  <2>3. CASE wr' = [wr EXCEPT ![d] = NoWrite] /\ UNCHANGED <<held, before>>
    <3>1. wr' \in [Opens -> Calls]
      BY <1>00, <2>3
    <3> QED
      BY <1>0, <1>3, <2>3, <3>1 DEF Chunk, DataType
  <2>4. CASE /\ wr' = [wr EXCEPT ![d].pc = "bmap", ![d].n = n, ![d].pos = off[d]]
             /\ held' = [held EXCEPT ![InodeOf[d]] = d]
             /\ before' = [before EXCEPT ![InodeOf[d]] = Content(InodeOf[d])]
    <3>1. wr' \in [Opens -> Calls]
      <4>1. /\ wr[d] \in Calls /\ "bmap" \in Active \cup {"idle", "chunk"}
            /\ 0 \in 0 .. NBlocks /\ {} \in SUBSET Entries
        BY <1>00 DEF Active
      <4>2. [wr[d] EXCEPT !.pc = "bmap", !.n = n, !.pos = off[d]] \in Calls
        BY <2>1, <4>1, CallSet
      <4> QED
        BY <1>00, <2>4, <4>2
    <3>2. held' \in [Inodes -> Opens \cup {"itrunc", "none"}] /\ DOMAIN before' = Inodes
      BY <1>0, <2>1, <2>4 DEF DataType
    <3> QED
      BY <1>0, <1>3, <3>1, <3>2 DEF Chunk, DataType
  <2> QED
    BY <1>3, <2>3, <2>4 DEF Chunk, n
<1>4. ASSUME NEW d \in Opens, Balloc(d) PROVE DataType'
  <2> DEFINE b == Min(DataBlocks \ bitmap)
  <2>1. b \in DataBlocks /\ b \in 0 .. NBlocks
    BY <1>4, FreeBlock DEF Balloc
  <2>3. wr' = [wr EXCEPT ![d].pc = "bzero", ![d].new = b, ![d].logged = wr[d].logged \cup {<<"bits", b \div BPB>>}]
        /\ bitmap' = bitmap \cup {b}
    BY <1>4 DEF Balloc
  <2> HIDE DEF b
  <2>2. b \div BPB \in Nat
    BY <2>1, DivMod
  <2>4. wr' \in [Opens -> Calls]
    <3>1. <<"bits", b \div BPB>> \in Entries /\ wr[d].logged \in SUBSET Entries
      BY <1>0, <2>2, CallFields DEF Entries
    <3> DEFINE L == wr[d].logged \cup {<<"bits", b \div BPB>>}
    <3>2. L \in SUBSET Entries
      BY <3>1
    <3> HIDE DEF L
    <3>3. wr' = [wr EXCEPT ![d].pc = "bzero", ![d].new = b, ![d].logged = L]
      BY <2>3 DEF L
    <3> QED
      BY <1>00, <2>1, <3>2, <3>3 DEF Active, Calls
  <2> QED
    BY <1>0, <1>4, <2>1, <2>3, <2>4 DEF Balloc, DataType
<1>5. ASSUME NEW d \in Opens, Install(d) PROVE DataType'
  <2> DEFINE i == InodeOf[d]
             b == wr[d].new
             bn == Missing(d)
             ind == addrs[i][NDIRECT]
             cleared == [store EXCEPT ![b] = Zeroed(b)]
  <2>1. i \in Inodes /\ b \in DataBlocks /\ bn \in 0 .. MAXFILE /\ (bn < NDIRECT \/ bn = MAXFILE \/ ind # 0)
    BY <1>5, InstallFacts
  <2>2. ind \in 0 .. NBlocks
    BY <1>0, <2>1, HasFacts
  <2>3. DOMAIN cleared = DataBlocks /\ \A c \in DataBlocks : DOMAIN cleared[c] = 0 .. BSIZE - 1
    <3>1. DOMAIN Zeroed(b) = 0 .. BSIZE - 1
      BY DEF Zeroed
    <3> HIDE DEF b
    <3> QED
      BY <1>0, <2>1, <3>1, StoreType
  <2> HIDE DEF i, b, bn, ind, cleared
  <2>4. addrs' \in [Inodes -> [0 .. NDIRECT -> 0 .. NBlocks]]
        /\ DOMAIN store' = DataBlocks /\ \A c \in DataBlocks : DOMAIN store'[c] = 0 .. BSIZE - 1
    <3>1. CASE bn < NDIRECT \/ bn = MAXFILE
      <4> DEFINE k == IF bn = MAXFILE THEN NDIRECT ELSE bn
      <4>1. addrs' = [addrs EXCEPT ![i][k] = b] /\ store' = cleared
        BY <1>5, <3>1 DEF Install, i, b, bn, cleared
      <4>2. k \in 0 .. NDIRECT
        BY <2>1, <3>1, Sizes
      <4> HIDE DEF k
      <4>3. addrs \in [Inodes -> [0 .. NDIRECT -> 0 .. NBlocks]]
        BY <1>0 DEF DataType
      <4>4. addrs' \in [Inodes -> [0 .. NDIRECT -> 0 .. NBlocks]]
        BY <2>1, <4>1, <4>2, <4>3
      <4> QED
        BY <2>3, <4>1, <4>4
    <3>2. CASE ~(bn < NDIRECT \/ bn = MAXFILE)
      <4>1. store' = [cleared EXCEPT ![ind][bn - NDIRECT] = b] /\ addrs' = addrs
        BY <1>5, <3>2 DEF Install, i, b, bn, ind, cleared
      <4>2. bn - NDIRECT \in 0 .. BSIZE - 1 /\ ind \in DataBlocks
        BY <2>1, <2>2, <3>2, Sizes
      <4>3. DOMAIN store' = DataBlocks /\ \A c \in DataBlocks : DOMAIN store'[c] = 0 .. BSIZE - 1
        BY <2>3, <4>1, <4>2
      <4>4. addrs \in [Inodes -> [0 .. NDIRECT -> 0 .. NBlocks]]
        BY <1>0 DEF DataType
      <4> QED
        BY <4>1, <4>3, <4>4
    <3> QED
      BY <3>1, <3>2
  <2>5. wr' \in [Opens -> Calls]
    <3> DEFINE L == wr[d].logged \cup {<<"data", b>>} \cup
                            (IF bn < NDIRECT \/ bn = MAXFILE THEN {} ELSE {<<"data", ind>>})
    <3>1. wr' = [wr EXCEPT ![d].pc = "bmap", ![d].new = 0, ![d].logged = L]
      BY <1>5 DEF Install, i, b, bn, ind
    <3>2. <<"data", b>> \in Entries /\ <<"data", ind>> \in Entries /\ wr[d].logged \in SUBSET Entries
      BY <1>0, <2>1, <2>2, CallFields DEF Entries
    <3>3. L \in SUBSET Entries
      BY <3>2
    <3> HIDE DEF L
    <3>4. [wr[d] EXCEPT !.pc = "bmap", !.new = 0, !.logged = L] \in Calls
      <4>1. wr[d] \in Calls /\ 0 \in 0 .. NBlocks /\ "bmap" \in Active \cup {"idle", "chunk"}
        BY <1>00 DEF Active
      <4> QED
        BY <3>3, <4>1, CallSet
    <3> QED
      BY <1>00, <3>1, <3>4
  <2> QED
    BY <1>0, <1>5, <2>4, <2>5 DEF Install, DataType
<1>6. ASSUME NEW d \in Opens, Copy(d) PROVE DataType'
  <2> DEFINE b == Lookup(InodeOf[d], wr[d].pos \div BSIZE)
  <2>1. b \in DataBlocks
    BY <1>6, CopyFacts
  <2>2. store' = Copied(d, b)
    BY <1>6 DEF Copy
  <2> DEFINE L == wr[d].logged \cup {<<"data", b>>}
             x == wr[d].pos + Round(d)
             pc == IF x = off[d] + wr[d].n THEN "end" ELSE "bmap"
  <2>3. wr' = [wr EXCEPT ![d].pos = x, ![d].logged = L, ![d].pc = pc]
    BY <1>6 DEF Copy
  <2>4. x \in Nat /\ pc \in Active
    BY <1>0, <1>6, RoundFacts, CallFields DEF Copy, Active
  <2>5. L \in SUBSET Entries
    BY <1>0, <2>1, CallFields DEF Entries
  <2> HIDE DEF b, L, x, pc
  <2>6. DOMAIN store' = DataBlocks /\ \A c \in DataBlocks : DOMAIN store'[c] = 0 .. BSIZE - 1
    <3> DEFINE f == [k \in 0 .. BSIZE - 1 |->
                     IF k >= wr[d].pos % BSIZE /\ k < (wr[d].pos % BSIZE) + Round(d) THEN WordOf[d] ELSE store[b][k]]
    <3>1. DOMAIN f = 0 .. BSIZE - 1
      OBVIOUS
    <3>2. store' = [store EXCEPT ![b] = f]
      BY <2>2 DEF Copied
    <3> HIDE DEF f
    <3> QED
      BY <1>0, <2>1, <3>1, <3>2, StoreType
  <2>7. wr' \in [Opens -> Calls]
    <3>1. wr[d] \in Calls /\ pc \in Active \cup {"idle", "chunk"} /\ 0 \in 0 .. NBlocks
      BY <1>00, <2>4
    <3>2. [wr[d] EXCEPT !.pos = x, !.logged = L, !.pc = pc] \in Calls
      BY <2>4, <2>5, <3>1, CallSet
    <3> QED
      BY <1>00, <2>3, <3>2
  <2> QED
    BY <1>0, <1>6, <2>6, <2>7 DEF Copy, DataType
<1>7. ASSUME NEW d \in Opens, EndChunk(d) PROVE DataType'
  <2>1. wr[d].pos \in Nat /\ len[InodeOf[d]] \in Nat /\ wr[d].todo \in Nat /\ wr[d].n \in Nat
    BY <1>0, CallFields
  <2>2. Max({len[InodeOf[d]], wr[d].pos}) \in Nat
    <3> DEFINE x == len[InodeOf[d]]
               y == wr[d].pos
    <3>1. x \in Nat /\ y \in Nat /\ x \in Int /\ y \in Int
      BY <2>1
    <3> HIDE DEF x, y
    <3>2. Max({x, y}) \in Nat
      BY <3>1, Max2
    <3> QED
      BY <3>2 DEF x, y
  <2>3. len' \in [Inodes -> Nat] /\ off' \in [Opens -> Nat] /\ held' \in [Inodes -> Opens \cup {"itrunc", "none"}]
    BY <1>0, <1>7, <2>1, <2>2 DEF EndChunk, DataType
  <2>4. wr[d].todo - wr[d].n \in Nat
    BY <1>0, <1>7, <2>1 DEF EndChunk, Chunks, ChunkOf, Active
  <2>5. wr' \in [Opens -> Calls]
    <3> DEFINE r == IF wr[d].todo - wr[d].n = 0 THEN NoWrite
                    ELSE [NoWrite EXCEPT !.pc = "chunk", !.todo = wr[d].todo - wr[d].n]
    <3>1. r \in Calls
      BY <1>00, <2>4 DEF NoWrite, Calls
    <3>2. wr' = [wr EXCEPT ![d] = r]
      BY <1>7 DEF EndChunk
    <3> HIDE DEF r
    <3> QED
      BY <1>00, <3>1, <3>2
  <2> QED
    BY <1>0, <1>7, <2>3, <2>5 DEF EndChunk, DataType
<1>8. ASSUME NEW i \in Inodes, StartTrunc(i) PROVE DataType'
  <2>1. slot' \in [Inodes -> 0 .. MAXFILE + 1] /\ held' \in [Inodes -> Opens \cup {"itrunc", "none"}]
    BY <1>0, <1>8, MaxFile DEF StartTrunc, DataType
  <2>2. DOMAIN before' = Inodes
    BY <1>0, <1>8 DEF StartTrunc, DataType
  <2> QED
    BY <1>0, <1>8, <2>1, <2>2 DEF StartTrunc, DataType
<1>9. ASSUME NEW i \in Inodes, TruncRound(i) PROVE DataType'
  <2>1. slot' \in [Inodes -> 0 .. MAXFILE + 1]
    BY <1>0, <1>9, MaxFile DEF TruncRound, DataType
  <2>2. addrs' \in [Inodes -> [0 .. NDIRECT -> 0 .. NBlocks]]
    <3>1. addrs \in [Inodes -> [0 .. NDIRECT -> 0 .. NBlocks]] /\ slot[i] \in Nat
      BY <1>0 DEF DataType
    <3>2. [addrs[i] EXCEPT ![NDIRECT] = 0] \in [0 .. NDIRECT -> 0 .. NBlocks]
          /\ (slot[i] < NDIRECT => [addrs[i] EXCEPT ![slot[i]] = 0] \in [0 .. NDIRECT -> 0 .. NBlocks])
      BY <3>1
    <3> QED
      BY <1>9, <3>1, <3>2 DEF TruncRound, Bfree
  <2>3. bitmap' \subseteq DataBlocks
    BY <1>0, <1>9 DEF TruncRound, DataType, Bfree
  <2> QED
    BY <1>0, <1>9, <2>1, <2>2, <2>3 DEF TruncRound, DataType
<1>10. ASSUME NEW i \in Inodes, EndTrunc(i) PROVE DataType'
  <2>1. slot' \in [Inodes -> 0 .. MAXFILE + 1] /\ held' \in [Inodes -> Opens \cup {"itrunc", "none"}]
    BY <1>0, <1>10, MaxFile DEF EndTrunc, DataType
  <2>2. len' \in [Inodes -> Nat] /\ off' \in [Opens -> Nat]
    BY <1>0, <1>10 DEF EndTrunc, DataType
  <2> QED
    BY <1>0, <1>10, <2>1, <2>2 DEF EndTrunc, DataType
<1>11. CASE UNCHANGED fileVars
  BY <1>0, <1>11 DEF fileVars, DataType
<1> QED
  BY <1>1, <1>2, <1>3, <1>4, <1>5, <1>6, <1>7, <1>8, <1>9, <1>10, <1>11 DEF DataNext

\* The call of one open file changes.
LEMMA OneCall ==
  ASSUME DataType, NEW d \in Opens,
         \/ \E n : StartWrite(d, n)
         \/ Chunk(d) \/ Balloc(d) \/ Install(d) \/ Copy(d) \/ EndChunk(d)
  PROVE  \A e \in Opens : e # d => wr'[e] = wr[e]
BY CallType DEF StartWrite, Chunk, Balloc, Install, Copy, EndChunk

LEMMA LockingStep ==
  ASSUME DataInv, [DataNext]_fileVars
  PROVE  Locking'
<1>0. DataType /\ Locking /\ Chunks /\ Indirect
  BY DEF DataInv
<1> USE DEF Active
<1>1. ASSUME NEW d \in Opens, NEW n \in 1 .. MaxWrite, FileRead(d, n) PROVE Locking'
  BY <1>0, <1>1 DEF FileRead, Locking
<1>2. ASSUME NEW d \in Opens, NEW n \in 1 .. MaxWrite, StartWrite(d, n) PROVE Locking'
  <2>1. wr'[d].pc = "chunk" /\ wr'[d].new = 0 /\ \A e \in Opens : e # d => wr'[e] = wr[e]
    BY <1>0, <1>2, CallType DEF StartWrite, NoWrite
  <2> QED
    BY <1>0, <1>2, <2>1 DEF StartWrite, Locking
<1>3. ASSUME NEW d \in Opens, Chunk(d) PROVE Locking'
  <2>1. CASE wr' = [wr EXCEPT ![d] = NoWrite] /\ UNCHANGED <<held, before>>
    <3>1. wr'[d].pc = "idle" /\ wr'[d].new = 0 /\ \A e \in Opens : e # d => wr'[e] = wr[e]
      BY <1>0, <2>1, CallType DEF NoWrite
    <3> QED
      BY <1>0, <1>3, <2>1, <3>1 DEF Chunk, Locking
  <2>2. CASE /\ wr' = [wr EXCEPT ![d].pc = "bmap", ![d].n = Min({wr[d].todo, ChunkMax}), ![d].pos = off[d]]
             /\ held' = [held EXCEPT ![InodeOf[d]] = d]
    <3>1. /\ wr'[d].pc = "bmap" /\ wr'[d].new = wr[d].new
          /\ \A e \in Opens : e # d => wr'[e] = wr[e]
      BY <1>0, <2>2, CallType DEF Calls
    <3>2. held'[InodeOf[d]] = d /\ \A i \in Inodes : i # InodeOf[d] => held'[i] = held[i]
      BY <1>0, <2>2, CallType
    <3> QED
      BY <1>0, <1>3, <3>1, <3>2 DEF Chunk, Locking
  <2> QED
    BY <1>3, <2>1, <2>2 DEF Chunk
<1>4. ASSUME NEW d \in Opens, Balloc(d) PROVE Locking'
  <2>1. Min(DataBlocks \ bitmap) \in DataBlocks
    BY <1>4, FreeBlock DEF Balloc
  <2>2. /\ wr'[d].pc = "bzero" /\ wr'[d].new = Min(DataBlocks \ bitmap)
        /\ \A e \in Opens : e # d => wr'[e] = wr[e]
    BY <1>0, <1>4, CallType DEF Balloc, Calls
  <2>3. wr'[d].new # 0
    BY <2>1, <2>2
  <2>4. wr[d].pc = "bmap" /\ held' = held /\ slot' = slot
    BY <1>4 DEF Balloc
  <2> QED
    BY <1>0, <2>2, <2>3, <2>4 DEF Locking
<1>5. ASSUME NEW d \in Opens, Install(d) PROVE Locking'
  <2>1. /\ wr'[d].pc = "bmap" /\ wr'[d].new = 0
        /\ \A e \in Opens : e # d => wr'[e] = wr[e]
    BY <1>0, <1>5, CallType DEF Install, Calls
  <2>2. wr[d].pc = "bzero" /\ held' = held /\ slot' = slot
    BY <1>5 DEF Install
  <2> QED
    BY <1>0, <2>1, <2>2 DEF Locking
<1>6. ASSUME NEW d \in Opens, Copy(d) PROVE Locking'
  <2>1. /\ wr'[d].pc \in {"bmap", "end"} /\ wr'[d].new = wr[d].new
        /\ \A e \in Opens : e # d => wr'[e] = wr[e]
    BY <1>0, <1>6, CallType DEF Copy, Calls
  <2>2. wr[d].pc = "bmap" /\ held' = held /\ slot' = slot
    BY <1>6 DEF Copy
  <2> QED
    BY <1>0, <2>1, <2>2 DEF Locking
<1>7. ASSUME NEW d \in Opens, EndChunk(d) PROVE Locking'
  <2>1. /\ wr'[d].pc \in {"idle", "chunk"} /\ wr'[d].new = 0
        /\ \A e \in Opens : e # d => wr'[e] = wr[e]
    BY <1>0, <1>7, CallType DEF EndChunk, NoWrite
  <2>2. held'[InodeOf[d]] = "none" /\ \A i \in Inodes : i # InodeOf[d] => held'[i] = held[i]
    BY <1>0, <1>7, CallType DEF EndChunk
  <2> QED
    BY <1>0, <1>7, <2>1, <2>2 DEF EndChunk, Locking
<1>8. ASSUME NEW i \in Inodes, StartTrunc(i) PROVE Locking'
  BY <1>0, <1>8, CallType DEF StartTrunc, Locking
<1>9. ASSUME NEW i \in Inodes, TruncRound(i) PROVE Locking'
  BY <1>0, <1>9, CallType DEF TruncRound, Locking
<1>10. ASSUME NEW i \in Inodes, EndTrunc(i) PROVE Locking'
  BY <1>0, <1>10, CallType DEF EndTrunc, Locking
<1>11. CASE UNCHANGED fileVars
  BY <1>0, <1>11 DEF fileVars, Locking
<1> QED
  BY <1>1, <1>2, <1>3, <1>4, <1>5, <1>6, <1>7, <1>8, <1>9, <1>10, <1>11 DEF DataNext

-----------------------------------------------------------------------------
(* What the steps leave alone.                                              *)

\* A step of d, or of itrunc(), that touches the inodes I, which nobody else has locked.
Frame(I, d) ==
  /\ \A j \in Inodes \ I :
       /\ addrs'[j] = addrs[j] /\ slot'[j] = slot[j] /\ held'[j] = held[j] /\ len'[j] = len[j]
       /\ \A bm \in 0 .. MAXFILE : Lookup(j, bm)' = Lookup(j, bm)
  /\ \A e \in Opens \ {d} : wr'[e] = wr[e] /\ (InodeOf[e] \notin I => off'[e] = off[e])
  /\ \A i \in I : held[i] \in {d, "none", "itrunc"}

\* The place bmap() is at does not change when nothing of the call does.
LEMMA MissingSame ==
  ASSUME NEW e \in Opens, wr'[e] = wr[e], addrs'[InodeOf[e]] = addrs[InodeOf[e]]
  PROVE  Missing(e)' = Missing(e)
BY DEF Missing

LEMMA CallsLeft ==
  ASSUME DataInv, NEW I, NEW d, Frame(I, d), NEW e \in Opens, e # d
  PROVE  ChunkOf(e)' /\ WrittenTo(e)' /\ LoggedOf(e)'
<1>0. DataType /\ Locking /\ Chunks /\ Indirect /\ Covered /\ Logging
  BY DEF DataInv
<1>1. wr'[e] = wr[e] /\ (InodeOf[e] \notin I => off'[e] = off[e]) /\ InodeOf[e] \in Inodes
  BY <1>0, CallFields DEF Frame
<1>2. CASE wr[e].pc \notin Active
  <2>1. ChunkOf(e)
    BY <1>0 DEF Chunks
  <2>2. wr'[e].pc \notin Active /\ wr'[e].pc # "bzero"
    BY <1>1, <1>2 DEF Active
  <2> QED
    BY <1>1, <2>1, <2>2 DEF ChunkOf, WrittenTo, LoggedOf
<1>3. CASE wr[e].pc \in Active
  <2>1. held[InodeOf[e]] = e
    BY <1>0, <1>3 DEF Locking
  <2>2. InodeOf[e] \notin I
    BY <2>1 DEF Frame
  <2> DEFINE i == InodeOf[e]
  <2>3. /\ addrs'[i] = addrs[i] /\ slot'[i] = slot[i] /\ held'[i] = held[i] /\ len'[i] = len[i]
        /\ \A bm \in 0 .. MAXFILE : Lookup(i, bm)' = Lookup(i, bm)
    BY <1>1, <2>2 DEF Frame
  <2>4. off'[e] = off[e]
    BY <1>1, <2>2
  <2>5. Missing(e)' = Missing(e)
    BY <1>1, <2>3, MissingSame
  <2>6. ChunkOf(e) /\ WrittenTo(e) /\ LoggedOf(e)
    BY <1>0 DEF Chunks, Covered, Logging
  <2>7. wr[e].pc = "bzero" => Missing(e) \in 0 .. MAXFILE
    BY <1>0, PlaceOf
  <2>8. ChunkOf(e)'
    BY <1>1, <2>3, <2>4, <2>5, <2>6, <2>7 DEF ChunkOf
  <2>9. WrittenTo(e)'
    BY <1>1, <2>3, <2>6, Sizes DEF WrittenTo
  <2>10. FirstBlock(e) \in 0 .. MAXFILE - 1 /\ LastBlock(e) \in 0 .. MAXFILE - 1
    <3>1. off[e] \in Nat /\ wr[e].n \in Nat /\ wr[e].n > 0 /\ off[e] + wr[e].n <= MAXFILE * BSIZE
      BY <1>0, <1>3, <2>6, CallFields DEF ChunkOf
    <3>2. off[e] < MAXFILE * BSIZE /\ off[e] + wr[e].n - 1 < MAXFILE * BSIZE /\ off[e] + wr[e].n - 1 \in Nat
      BY <3>1, Sizes
    <3> QED
      BY <3>1, <3>2, BlockOf, Sizes DEF FirstBlock, LastBlock
  <2>11. \A bm \in 0 .. MAXFILE : Block(e, bm)' = Block(e, bm)
    BY <1>1, <2>3, <2>5 DEF Block
  <2>12. FirstBlock(e)' = FirstBlock(e) /\ LastBlock(e)' = LastBlock(e) /\ FirstNew(e)' = FirstNew(e)
    BY <1>1, <2>4 DEF FirstBlock, LastBlock, FirstNew
  <2>13. FirstNew(e) \in Nat
    BY <2>10, Sizes DEF FirstNew
  <2>14. \A bm : (bm \in FirstBlock(e) .. LastBlock(e) \/ bm \in FirstNew(e) .. LastBlock(e)) => bm \in 0 .. MAXFILE
    BY <2>10, <2>13, Sizes
  <2>15. \A x : Belongs(e, x) => Belongs(e, x)'
    BY <2>11, <2>12, <2>14, Sizes DEF Belongs
  <2>16. LoggedOf(e)'
    BY <1>1, <2>6, <2>15 DEF LoggedOf
  <2> QED
    BY <2>8, <2>9, <2>16
<1> QED
  BY <1>2, <1>3

LEMMA InodesLeft ==
  ASSUME DataInv, NEW I, NEW d, Frame(I, d), NEW j \in Inodes, j \notin I
  PROVE  Numbers(j)' /\ CoverOf(j)'
<1>1. Numbers(j) /\ CoverOf(j)
  BY DEF DataInv, Indirect, Covered
<1>2. /\ addrs'[j] = addrs[j] /\ slot'[j] = slot[j] /\ held'[j] = held[j] /\ len'[j] = len[j]
      /\ \A bm \in 0 .. MAXFILE : Lookup(j, bm)' = Lookup(j, bm)
  BY DEF Frame
<1> QED
  BY <1>1, <1>2, Sizes DEF Numbers, CoverOf

-----------------------------------------------------------------------------
(* What the steps change.                                                   *)

LEMMA ReadEffect ==
  ASSUME DataInv, NEW d \in Opens, NEW n \in 1 .. MaxWrite, FileRead(d, n)
  PROVE  /\ Frame({InodeOf[d]}, d) /\ UNCHANGED <<bitmap, store, addrs, len, held, wr, slot, before>>
         /\ wr[d].pc = "idle"
BY CallType DEF FileRead, Frame, Lookup, DataInv

LEMMA StartEffect ==
  ASSUME DataInv, NEW d \in Opens, NEW n \in 1 .. MaxWrite, StartWrite(d, n)
  PROVE  /\ Frame({}, d) /\ UNCHANGED <<bitmap, store, addrs, len, held, off, slot, before>>
         /\ wr[d].pc = "idle"
         /\ wr'[d] = [NoWrite EXCEPT !.pc = "chunk", !.todo = n]
         /\ wr'[d].pc = "chunk" /\ wr'[d].todo = n /\ wr'[d].new = 0 /\ wr'[d].logged = {}
<1>1. wr' = [wr EXCEPT ![d] = [NoWrite EXCEPT !.pc = "chunk", !.todo = n]] /\ DOMAIN wr = Opens
  BY CallType DEF StartWrite, DataInv
<1>2. wr'[d] = [NoWrite EXCEPT !.pc = "chunk", !.todo = n] /\ \A e \in Opens \ {d} : wr'[e] = wr[e]
  BY <1>1
<1>3. UNCHANGED <<bitmap, store, addrs, len, held, off, slot, before>> /\ wr[d].pc = "idle"
  BY DEF StartWrite
<1> QED
  BY <1>2, <1>3 DEF Frame, Lookup, NoWrite

\* filewrite() locks the inode, or gives up.
LEMMA ChunkEffect ==
  ASSUME DataInv, NEW d \in Opens, Chunk(d)
  PROVE  /\ Frame({InodeOf[d]}, d) /\ UNCHANGED <<bitmap, store, addrs, len, off, slot>>
         /\ wr[d].pc = "chunk" /\ held[InodeOf[d]] = "none"
         /\ \/ /\ wr'[d].pc = "idle" /\ wr'[d].new = 0 /\ wr'[d].logged = {}
               /\ held' = held /\ before' = before
            \/ /\ wr'[d].pc = "bmap" /\ wr'[d].todo = wr[d].todo /\ wr'[d].pos = off[d]
               /\ wr'[d].new = wr[d].new /\ wr'[d].logged = wr[d].logged
               /\ wr'[d].n = (IF wr[d].todo <= ChunkMax THEN wr[d].todo ELSE ChunkMax)
               /\ off[d] <= len[InodeOf[d]] /\ off[d] + wr'[d].n <= MAXFILE * BSIZE
               /\ held' = [held EXCEPT ![InodeOf[d]] = d]
               /\ before' = [before EXCEPT ![InodeOf[d]] = Content(InodeOf[d])]
<1> DEFINE n == Min({wr[d].todo, ChunkMax})
           i == InodeOf[d]
<1>0. DataType
  BY DEF DataInv
<1>1. n = (IF wr[d].todo <= ChunkMax THEN wr[d].todo ELSE ChunkMax) /\ i \in Inodes
      /\ off[d] \in Nat /\ len[i] \in Nat /\ n \in Nat /\ MAXFILE * BSIZE \in Nat
  <2>1. wr[d].todo \in Nat /\ i \in Inodes /\ off[d] \in Nat /\ len[i] \in Nat
    BY <1>0, CallFields
  <2>2. ChunkMax \in Nat
    BY ChunkSize
  <2>3. n = (IF wr[d].todo <= ChunkMax THEN wr[d].todo ELSE ChunkMax)
    BY <2>1, <2>2, Min2
  <2> HIDE DEF n, i
  <2> QED
    BY <2>1, <2>2, <2>3, Sizes
<1>2. /\ wr[d].pc = "chunk" /\ held[i] = "none" /\ UNCHANGED <<bitmap, store, addrs, len, off, slot>>
      /\ IF off[d] > len[i] \/ off[d] + n > MAXFILE * BSIZE
         THEN wr' = [wr EXCEPT ![d] = NoWrite] /\ UNCHANGED <<held, before>>
         ELSE /\ wr' = [wr EXCEPT ![d].pc = "bmap", ![d].n = n, ![d].pos = off[d]]
              /\ held' = [held EXCEPT ![i] = d] /\ before' = [before EXCEPT ![i] = Content(i)]
  BY DEF Chunk
<1> HIDE DEF n, i
<1>3. wr \in [Opens -> Calls] /\ DOMAIN wr = Opens /\ DOMAIN held = Inodes
  BY <1>0, CallType
<1>4. \A e \in Opens \ {d} : wr'[e] = wr[e]
  BY <1>2, <1>3
<1>5. \A j \in Inodes \ {i} : held'[j] = held[j]
  BY <1>2, <1>3
<1>6. Frame({i}, d)
  BY <1>1, <1>2, <1>4, <1>5 DEF Frame, Lookup
<1>7. CASE off[d] > len[i] \/ off[d] + n > MAXFILE * BSIZE
  <2>1. wr'[d] = NoWrite /\ held' = held /\ before' = before
    BY <1>2, <1>3, <1>7
  <2> QED
    BY <1>2, <1>6, <2>1 DEF i, NoWrite
<1>8. CASE ~(off[d] > len[i] \/ off[d] + n > MAXFILE * BSIZE)
  <2>1. wr'[d] = [wr[d] EXCEPT !.pc = "bmap", !.n = n, !.pos = off[d]] /\ wr[d] \in Calls
    BY <1>2, <1>3, <1>8
  <2>2. /\ wr'[d].pc = "bmap" /\ wr'[d].todo = wr[d].todo /\ wr'[d].pos = off[d] /\ wr'[d].n = n
        /\ wr'[d].new = wr[d].new /\ wr'[d].logged = wr[d].logged
    BY <2>1 DEF Calls
  <2>3. off[d] <= len[i] /\ off[d] + n <= MAXFILE * BSIZE
    BY <1>1, <1>8
  <2> QED
    BY <1>1, <1>2, <1>6, <1>8, <2>2, <2>3 DEF i
<1> QED
  BY <1>7, <1>8

LEMMA BallocEffect ==
  ASSUME DataInv, NEW d \in Opens, Balloc(d)
  PROVE  /\ Frame({InodeOf[d]}, d) /\ UNCHANGED <<store, addrs, len, held, off, slot, before>>
         /\ wr[d].pc = "bmap" /\ Lookup(InodeOf[d], Missing(d)) = 0
         /\ wr'[d].new \in DataBlocks \ bitmap /\ bitmap' = bitmap \cup {wr'[d].new}
         /\ wr'[d].pc = "bzero" /\ wr'[d].todo = wr[d].todo /\ wr'[d].n = wr[d].n /\ wr'[d].pos = wr[d].pos
         /\ wr'[d].logged = wr[d].logged \cup {<<"bits", wr'[d].new \div BPB>>}
<1> DEFINE b == Min(DataBlocks \ bitmap)
           L == wr[d].logged \cup {<<"bits", b \div BPB>>}
<1>1. b \in DataBlocks \ bitmap
  BY FreeBlock DEF Balloc
<1>2. /\ wr[d].pc = "bmap" /\ Lookup(InodeOf[d], Missing(d)) = 0 /\ bitmap' = bitmap \cup {b}
      /\ wr' = [wr EXCEPT ![d].pc = "bzero", ![d].new = b, ![d].logged = L]
      /\ UNCHANGED <<store, addrs, len, held, off, slot, before>>
  BY DEF Balloc
<1>3. wr \in [Opens -> Calls] /\ InodeOf[d] \in Inodes /\ held[InodeOf[d]] = d
  BY <1>2, CallType DEF DataInv, Locking, Active
<1> HIDE DEF b, L
<1>4. wr[d] \in Calls /\ wr'[d] = [wr[d] EXCEPT !.pc = "bzero", !.new = b, !.logged = L]
      /\ \A e \in Opens \ {d} : wr'[e] = wr[e]
  BY <1>2, <1>3
<1>5. Frame({InodeOf[d]}, d)
  BY <1>2, <1>3, <1>4 DEF Frame, Lookup
<1>6. wr'[d].pc = "bzero" /\ wr'[d].todo = wr[d].todo /\ wr'[d].n = wr[d].n /\ wr'[d].pos = wr[d].pos
      /\ wr'[d].new = b /\ wr'[d].logged = L
  BY <1>4 DEF Calls
<1> QED
  BY <1>1, <1>2, <1>5, <1>6 DEF L

LEMMA InstallEffect ==
  ASSUME DataInv, NEW d \in Opens, Install(d)
  PROVE  /\ Frame({InodeOf[d]}, d) /\ UNCHANGED <<bitmap, len, held, off, slot, before>>
         /\ wr[d].pc = "bzero"
         /\ wr'[d].pc = "bmap" /\ wr'[d].new = 0
         /\ wr'[d].todo = wr[d].todo /\ wr'[d].n = wr[d].n /\ wr'[d].pos = wr[d].pos
         /\ wr'[d].logged = wr[d].logged \cup {<<"data", wr[d].new>>} \cup
              (IF Missing(d) < NDIRECT \/ Missing(d) = MAXFILE THEN {} ELSE {<<"data", addrs[InodeOf[d]][NDIRECT]>>})
<1> DEFINE i == InodeOf[d]
           b == wr[d].new
           ind == addrs[i][NDIRECT]
           L == wr[d].logged \cup {<<"data", b>>} \cup
                  (IF Missing(d) < NDIRECT \/ Missing(d) = MAXFILE THEN {} ELSE {<<"data", ind>>})
<1>1. /\ wr[d].pc = "bzero" /\ UNCHANGED <<bitmap, len, held, off, slot, before>>
      /\ wr' = [wr EXCEPT ![d].pc = "bmap", ![d].new = 0, ![d].logged = L]
  BY DEF Install
<1>2. wr \in [Opens -> Calls] /\ i \in Inodes /\ held[i] = d
  BY <1>1, CallType DEF DataInv, Locking, Active
<1> HIDE DEF L
<1>4. wr[d] \in Calls /\ wr'[d] = [wr[d] EXCEPT !.pc = "bmap", !.new = 0, !.logged = L]
      /\ \A e \in Opens \ {d} : wr'[e] = wr[e]
  BY <1>1, <1>2
<1>5. wr'[d].pc = "bmap" /\ wr'[d].todo = wr[d].todo /\ wr'[d].n = wr[d].n /\ wr'[d].pos = wr[d].pos
      /\ wr'[d].new = 0 /\ wr'[d].logged = L
  BY <1>4 DEF Calls
<1>6. \A j \in Inodes \ {i} : addrs'[j] = addrs[j]
  BY <1>2, CallType DEF Install, DataInv
<1>7. \A j \in Inodes \ {i} : \A bm \in 0 .. MAXFILE : Lookup(j, bm)' = Lookup(j, bm)
  BY InstallLookup
<1>8. Frame({i}, d)
  BY <1>1, <1>2, <1>4, <1>6, <1>7 DEF Frame
<1> QED
  BY <1>1, <1>5, <1>8 DEF L

LEMMA CopyEffect ==
  ASSUME DataInv, NEW d \in Opens, Copy(d)
  PROVE  /\ Frame({InodeOf[d]}, d) /\ UNCHANGED <<bitmap, addrs, len, held, off, slot, before>>
         /\ wr[d].pc = "bmap" /\ wr'[d].new = wr[d].new /\ wr'[d].todo = wr[d].todo /\ wr'[d].n = wr[d].n
         /\ wr'[d].pos = wr[d].pos + Round(d)
         /\ wr'[d].pc = (IF wr[d].pos + Round(d) = off[d] + wr[d].n THEN "end" ELSE "bmap")
         /\ wr'[d].logged = wr[d].logged \cup {<<"data", Lookup(InodeOf[d], wr[d].pos \div BSIZE)>>}
         /\ store' = Copied(d, Lookup(InodeOf[d], wr[d].pos \div BSIZE))
<1> DEFINE L == wr[d].logged \cup {<<"data", Lookup(InodeOf[d], wr[d].pos \div BSIZE)>>}
           x == wr[d].pos + Round(d)
           pc == IF x = off[d] + wr[d].n THEN "end" ELSE "bmap"
<1>1. /\ wr[d].pc = "bmap" /\ UNCHANGED <<bitmap, addrs, len, held, off, slot, before>>
      /\ wr' = [wr EXCEPT ![d].pos = x, ![d].logged = L, ![d].pc = pc]
      /\ store' = Copied(d, Lookup(InodeOf[d], wr[d].pos \div BSIZE))
  BY DEF Copy
<1>2. wr \in [Opens -> Calls] /\ InodeOf[d] \in Inodes /\ held[InodeOf[d]] = d
  BY <1>1, CallType DEF DataInv, Locking, Active
<1> HIDE DEF L, x, pc
<1>3. wr[d] \in Calls /\ wr'[d] = [wr[d] EXCEPT !.pos = x, !.logged = L, !.pc = pc]
      /\ \A e \in Opens \ {d} : wr'[e] = wr[e]
  BY <1>1, <1>2
<1>4. wr'[d].pc = pc /\ wr'[d].todo = wr[d].todo /\ wr'[d].n = wr[d].n /\ wr'[d].pos = x
      /\ wr'[d].new = wr[d].new /\ wr'[d].logged = L
  BY <1>3 DEF Calls
<1>5. \A j \in Inodes : \A bm \in 0 .. MAXFILE : Lookup(j, bm)' = Lookup(j, bm)
  BY CopyLookup
<1>6. Frame({InodeOf[d]}, d)
  BY <1>1, <1>2, <1>3, <1>5 DEF Frame
<1> QED
  BY <1>1, <1>4, <1>6 DEF L, x, pc

LEMMA EndEffect ==
  ASSUME DataInv, NEW d \in Opens, EndChunk(d)
  PROVE  /\ Frame({InodeOf[d]}, d) /\ UNCHANGED <<bitmap, store, addrs, slot, before>>
         /\ wr[d].pc = "end" /\ InodeOf[d] \in Inodes /\ held[InodeOf[d]] = d
         /\ off' = [off EXCEPT ![d] = wr[d].pos] /\ held' = [held EXCEPT ![InodeOf[d]] = "none"]
         /\ len' = [len EXCEPT ![InodeOf[d]] = IF @ >= wr[d].pos THEN @ ELSE wr[d].pos]
         /\ wr'[d].new = 0 /\ wr'[d].logged = {}
         /\ \/ wr'[d].pc = "idle"
            \/ wr'[d].pc = "chunk" /\ wr'[d].todo = wr[d].todo - wr[d].n /\ wr[d].todo # wr[d].n
<1> DEFINE i == InodeOf[d]
           todo == wr[d].todo - wr[d].n
<1>0. DataType
  BY DEF DataInv
<1>1. /\ wr[d].pc = "end" /\ UNCHANGED <<bitmap, store, addrs, slot, before>>
      /\ len' = [len EXCEPT ![i] = Max({len[i], wr[d].pos})]
      /\ off' = [off EXCEPT ![d] = wr[d].pos] /\ held' = [held EXCEPT ![i] = "none"]
      /\ wr' = [wr EXCEPT ![d] = IF todo = 0 THEN NoWrite
                                 ELSE [NoWrite EXCEPT !.pc = "chunk", !.todo = todo]]
  BY DEF EndChunk
<1>2. /\ wr \in [Opens -> Calls] /\ i \in Inodes /\ held[i] = d
      /\ DOMAIN held = Inodes /\ DOMAIN len = Inodes /\ DOMAIN off = Opens
  BY <1>0, <1>1, CallType DEF DataInv, Locking, Active
<1>3. wr[d].pos \in Nat /\ len[i] \in Nat /\ wr[d].todo \in Nat /\ wr[d].n \in Nat
  BY <1>0, CallFields
<1>4. Max({len[i], wr[d].pos}) = IF len[i] >= wr[d].pos THEN len[i] ELSE wr[d].pos
  BY <1>3, Max2
<1> HIDE DEF i
<1>5. /\ wr'[d] = (IF todo = 0 THEN NoWrite ELSE [NoWrite EXCEPT !.pc = "chunk", !.todo = todo])
      /\ \A e \in Opens \ {d} : wr'[e] = wr[e]
  BY <1>1, <1>2
<1>6. /\ \A e \in Opens \ {d} : off'[e] = off[e]
      /\ \A j \in Inodes \ {i} : held'[j] = held[j] /\ len'[j] = len[j]
  BY <1>1, <1>2
<1>7. Frame({i}, d)
  BY <1>1, <1>2, <1>5, <1>6 DEF Frame, Lookup
<1>8. /\ wr'[d].new = 0 /\ wr'[d].logged = {}
      /\ \/ wr'[d].pc = "idle"
         \/ wr'[d].pc = "chunk" /\ wr'[d].todo = todo /\ todo # 0
  BY <1>5 DEF NoWrite
<1>9. todo # 0 => wr[d].todo # wr[d].n
  BY <1>3
<1> QED
  BY <1>1, <1>2, <1>4, <1>7, <1>8, <1>9 DEF i

LEMMA TruncEffect ==
  ASSUME DataInv, NEW i \in Inodes, StartTrunc(i) \/ TruncRound(i) \/ EndTrunc(i)
  PROVE  Frame({i}, "none") /\ wr' = wr /\ store' = store
<1>0. DataType
  BY DEF DataInv
<1>1. CASE StartTrunc(i)
  BY <1>0, <1>1, CallType DEF StartTrunc, Frame, Lookup
<1>2. CASE TruncRound(i)
  <2>1. \A j \in Inodes \ {i} : \A bm \in 0 .. MAXFILE : Lookup(j, bm)' = Lookup(j, bm)
    BY <1>2, TruncLookup
  <2>2. \A j \in Inodes \ {i} : addrs'[j] = addrs[j] /\ slot'[j] = slot[j]
    BY <1>0, <1>2, CallType DEF TruncRound, Bfree
  <2> QED
    BY <1>2, <2>1, <2>2 DEF TruncRound, Frame
<1>3. CASE EndTrunc(i)
  BY <1>0, <1>3, CallType DEF EndTrunc, Frame, Lookup
<1> QED
  BY <1>1, <1>2, <1>3

-----------------------------------------------------------------------------
(* The steps preserve each part.                                            *)

LEMMA ChunksStep ==
  ASSUME DataInv, [DataNext]_fileVars
  PROVE  Chunks'
<1>0. DataType /\ Locking /\ Chunks /\ Indirect
  BY DEF DataInv
<1>1. ASSUME NEW I, NEW d \in Opens, Frame(I, d), ChunkOf(d)' PROVE Chunks'
  BY <1>1, CallsLeft DEF Chunks
<1>2. ASSUME NEW d \in Opens, NEW n \in 1 .. MaxWrite, FileRead(d, n) PROVE Chunks'
  <2>1. Frame({InodeOf[d]}, d) /\ wr' = wr /\ wr[d].pc = "idle" /\ ChunkOf(d)
    BY <1>0, <1>2, ReadEffect DEF Chunks
  <2>2. ChunkOf(d)'
    BY <2>1 DEF ChunkOf, Active
  <2> QED
    BY <1>1, <2>1, <2>2
<1>3. ASSUME NEW d \in Opens, NEW n \in 1 .. MaxWrite, StartWrite(d, n) PROVE Chunks'
  <2>1. Frame({}, d) /\ wr'[d].pc = "chunk" /\ wr'[d].todo = n /\ wr'[d].logged = {}
    BY <1>3, StartEffect
  <2>2. ChunkOf(d)'
    BY <2>1 DEF ChunkOf, Active
  <2> QED
    BY <1>1, <2>1, <2>2
<1>4. ASSUME NEW d \in Opens, Chunk(d) PROVE Chunks'
  <2>1. Frame({InodeOf[d]}, d) /\ wr[d].pc = "chunk" /\ off' = off /\ len' = len
    BY <1>4, ChunkEffect
  <2>2. CASE wr'[d].pc = "idle" /\ wr'[d].new = 0 /\ wr'[d].logged = {}
    <3>1. ChunkOf(d)'
      BY <2>2 DEF ChunkOf, Active
    <3> QED
      BY <1>1, <2>1, <3>1
  <2>3. CASE /\ wr'[d].pc = "bmap" /\ wr'[d].todo = wr[d].todo /\ wr'[d].pos = off[d]
             /\ wr'[d].n = (IF wr[d].todo <= ChunkMax THEN wr[d].todo ELSE ChunkMax)
             /\ off[d] <= len[InodeOf[d]] /\ off[d] + wr'[d].n <= MAXFILE * BSIZE
    <3>1. wr[d].todo \in Nat /\ wr[d].todo > 0 /\ off[d] \in Nat
      BY <1>0, <2>1, CallFields DEF Chunks, ChunkOf
    <3>2. 0 < wr'[d].n /\ wr'[d].n <= ChunkMax /\ wr'[d].n <= wr'[d].todo /\ wr'[d].n \in Nat
      BY <2>3, <3>1, ChunkSize
    <3>3. wr'[d].pos # off'[d] + wr'[d].n /\ off'[d] <= wr'[d].pos /\ wr'[d].pos <= off'[d] + wr'[d].n
      BY <2>1, <2>3, <3>1, <3>2
    <3>4. ChunkOf(d)'
      BY <2>1, <2>3, <3>2, <3>3 DEF ChunkOf, Active, ChunkMax, MAXFILE, NINDIRECT
    <3> QED
      BY <1>1, <2>1, <3>4
  <2> QED
    BY <1>4, <2>2, <2>3, ChunkEffect
<1>5. ASSUME NEW d \in Opens, Balloc(d) PROVE Chunks'
  <2>1. /\ Frame({InodeOf[d]}, d) /\ UNCHANGED <<store, addrs, len, held, off, slot, before>>
        /\ wr[d].pc = "bmap" /\ Lookup(InodeOf[d], Missing(d)) = 0
        /\ wr'[d].pc = "bzero" /\ wr'[d].todo = wr[d].todo /\ wr'[d].n = wr[d].n /\ wr'[d].pos = wr[d].pos
    BY <1>5, BallocEffect
  <2>2. Missing(d)' = Missing(d)
    BY <2>1 DEF Missing
  <2>3. Lookup(InodeOf[d], Missing(d))' = 0
    BY <2>1, <2>2 DEF Lookup
  <2>4. ChunkOf(d)
    BY <1>0 DEF Chunks
  <2>5. ChunkOf(d)'
    BY <2>1, <2>3, <2>4 DEF ChunkOf, Active
  <2> QED
    BY <1>1, <2>1, <2>5
<1>6. ASSUME NEW d \in Opens, Install(d) PROVE Chunks'
  <2>1. /\ Frame({InodeOf[d]}, d) /\ UNCHANGED <<len, off>> /\ wr[d].pc = "bzero"
        /\ wr'[d].pc = "bmap" /\ wr'[d].todo = wr[d].todo /\ wr'[d].n = wr[d].n /\ wr'[d].pos = wr[d].pos
    BY <1>6, InstallEffect
  <2>2. ChunkOf(d)
    BY <1>0 DEF Chunks
  <2>3. ChunkOf(d)'
    BY <2>1, <2>2 DEF ChunkOf, Active
  <2> QED
    BY <1>1, <2>1, <2>3
<1>7. ASSUME NEW d \in Opens, Copy(d) PROVE Chunks'
  <2>1. /\ Frame({InodeOf[d]}, d) /\ UNCHANGED <<len, off>> /\ wr[d].pc = "bmap"
        /\ wr'[d].todo = wr[d].todo /\ wr'[d].n = wr[d].n /\ wr'[d].pos = wr[d].pos + Round(d)
        /\ wr'[d].pc = (IF wr[d].pos + Round(d) = off[d] + wr[d].n THEN "end" ELSE "bmap")
    BY <1>7, CopyEffect
  <2>2. ChunkOf(d) /\ off[d] \in Nat /\ wr[d].pos \in Nat
    BY <1>0, CallFields DEF Chunks
  <2>3. Round(d) \in Nat /\ wr[d].pos + Round(d) <= off[d] + wr[d].n
    BY <1>0, <2>1, RoundFacts
  <2>4. off[d] <= wr'[d].pos /\ wr'[d].pos <= off[d] + wr[d].n
    BY <2>1, <2>2, <2>3 DEF ChunkOf, Active
  <2>5. ChunkOf(d)'
    BY <2>1, <2>2, <2>4 DEF ChunkOf, Active
  <2> QED
    BY <1>1, <2>1, <2>5
<1>8. ASSUME NEW d \in Opens, EndChunk(d) PROVE Chunks'
  <2>1. /\ Frame({InodeOf[d]}, d) /\ wr[d].pc = "end" /\ wr'[d].logged = {}
        /\ \/ wr'[d].pc = "idle"
           \/ wr'[d].pc = "chunk" /\ wr'[d].todo = wr[d].todo - wr[d].n /\ wr[d].todo # wr[d].n
    BY <1>8, EndEffect
  <2>2. wr[d].todo \in Nat /\ wr[d].n \in Nat /\ wr[d].n <= wr[d].todo
    BY <1>0, <2>1, CallFields DEF Chunks, ChunkOf, Active
  <2>3. ChunkOf(d)'
    BY <2>1, <2>2 DEF ChunkOf, Active
  <2> QED
    BY <1>1, <2>1, <2>3
<1>9. ASSUME NEW i \in Inodes, StartTrunc(i) \/ TruncRound(i) \/ EndTrunc(i) PROVE Chunks'
  <2>1. Frame({i}, "none")
    BY <1>9, TruncEffect
  <2> QED
    BY <2>1, CallsLeft DEF Chunks
<1>10. CASE UNCHANGED fileVars
  <2>1. Frame({}, "none")
    BY <1>10 DEF Frame, fileVars, Lookup
  <2> QED
    BY <2>1, CallsLeft DEF Chunks
<1> QED
  BY <1>2, <1>3, <1>4, <1>5, <1>6, <1>7, <1>8, <1>9, <1>10 DEF DataNext

\* A step that leaves all numbers leaves what is said of them.
LEMMA NumbersSame ==
  ASSUME DataInv, NEW i \in Inodes, addrs'[i] = addrs[i], slot'[i] = slot[i],
         \A bm \in 0 .. MAXFILE : Lookup(i, bm)' = Lookup(i, bm)
  PROVE  Numbers(i)'
BY DEF DataInv, Indirect, Numbers

\* A round of itrunc().
LEMMA TruncNumbers ==
  ASSUME DataInv, NEW i \in Inodes, TruncRound(i)
  PROVE  Numbers(i)'
<1>0. DataType /\ Indirect /\ Numbers(i)
  BY DEF DataInv, Indirect
<1>1. /\ slot[i] \in 0 .. MAXFILE /\ slot'[i] = slot[i] + 1 /\ store' = store
      /\ addrs[i] \in [0 .. NDIRECT -> 0 .. NBlocks] /\ DOMAIN addrs = Inodes
  BY <1>0, CallType, Sizes DEF TruncRound, DataType
<1>2. Lookup(i, MAXFILE) = addrs[i][NDIRECT]
  BY <1>0, HasFacts
<1>3. CASE Lookup(i, slot[i]) = 0
  <2>1. addrs' = addrs
    BY <1>3 DEF TruncRound
  <2>2. \A bm \in 0 .. MAXFILE : Lookup(i, bm)' = Lookup(i, bm)
    BY <1>1, <2>1, LookupSame
  <2>3. slot[i] < NDIRECT => addrs[i][slot[i]] = 0
    BY <1>3 DEF Lookup
  <2>4. \A bm \in 0 .. MAXFILE : Lookup(i, bm)' \in 0 .. NBlocks
    BY <1>0, <2>2 DEF Numbers
  <2>5. addrs[i][NDIRECT] # 0 => slot'[i] <= MAXFILE
    <3>1. addrs[i][NDIRECT] # 0 => slot[i] # MAXFILE
      BY <1>2, <1>3
    <3> QED
      BY <1>1, <3>1, MaxFile
  <2>6. \A k \in 0 .. NDIRECT - 1 : k < slot[i] + 1 => addrs[i][k] = 0
    <3>1. \A k \in 0 .. NDIRECT - 1 : k < slot[i] => addrs[i][k] = 0
      BY <1>0 DEF Numbers
    <3> QED
      BY <1>1, <2>3, <3>1
  <2> QED
    BY <1>1, <2>1, <2>4, <2>5, <2>6 DEF Numbers
<1>4. CASE Lookup(i, slot[i]) # 0
  <2>1. addrs' = [addrs EXCEPT ![i] =
                 IF slot[i] < NDIRECT THEN [addrs[i] EXCEPT ![slot[i]] = 0]
                 ELSE IF slot[i] = MAXFILE THEN [addrs[i] EXCEPT ![NDIRECT] = 0] ELSE addrs[i]]
    BY <1>4 DEF TruncRound, Bfree
  <2>2. CASE slot[i] < NDIRECT
    <3>1. addrs'[i] = [addrs[i] EXCEPT ![slot[i]] = 0]
      BY <1>1, <2>1, <2>2
    <3>2. addrs'[i][slot[i]] = 0 /\ \A k \in 0 .. NDIRECT : k # slot[i] => addrs'[i][k] = addrs[i][k]
      BY <1>1, <2>2, <3>1
    <3>3. addrs'[i][NDIRECT] = addrs[i][NDIRECT]
      BY <2>2, <3>2
    <3>4. \A bm \in 0 .. MAXFILE : Lookup(i, bm)' = IF bm = slot[i] THEN 0 ELSE Lookup(i, bm)
      BY <1>1, <2>2, <3>2, <3>3 DEF Lookup
    <3>5. \A bm \in 0 .. MAXFILE : Lookup(i, bm)' \in 0 .. NBlocks
      BY <1>0, <3>4 DEF Numbers
    <3>6. \A k \in 0 .. NDIRECT - 1 : k < slot[i] + 1 => addrs'[i][k] = 0
      BY <1>0, <1>1, <3>2 DEF Numbers
    <3> QED
      BY <1>1, <2>2, <3>5, <3>6, Sizes DEF Numbers
  <2>3. CASE slot[i] >= NDIRECT /\ slot[i] # MAXFILE
    <3>1. addrs'[i] = addrs[i]
      BY <1>1, <2>1, <2>3
    <3>2. \A bm \in 0 .. MAXFILE : Lookup(i, bm)' = Lookup(i, bm)
      BY <1>1, <3>1 DEF Lookup
    <3>3. \A bm \in 0 .. MAXFILE : Lookup(i, bm)' \in 0 .. NBlocks
      BY <1>0, <3>2 DEF Numbers
    <3> DEFINE s == slot[i]
    <3>0. s \in 0 .. MAXFILE /\ slot'[i] = s + 1 /\ s >= NDIRECT /\ s # MAXFILE
      BY <1>1, <2>3
    <3>4. \A k \in 0 .. NDIRECT - 1 : addrs[i][k] = 0
      <4>1. \A k \in 0 .. NDIRECT - 1 : k < s => addrs[i][k] = 0
        BY <1>0 DEF Numbers
      <4> HIDE DEF s
      <4>2. \A k \in 0 .. NDIRECT - 1 : k < s
        BY <3>0, MaxFile
      <4> QED
        BY <4>1, <4>2
    <3>5. slot'[i] <= MAXFILE
      <4> HIDE DEF s
      <4> QED
        BY <3>0, MaxFile
    <3> QED
      BY <3>1, <3>3, <3>4, <3>5 DEF Numbers
  <2>4. CASE slot[i] = MAXFILE
    <3>1. addrs'[i] = [addrs[i] EXCEPT ![NDIRECT] = 0]
      BY <1>1, <2>1, <2>4, Sizes
    <3>2. addrs'[i][NDIRECT] = 0 /\ \A k \in 0 .. NDIRECT - 1 : addrs'[i][k] = addrs[i][k]
      BY <1>1, <3>1
    <3>3. \A bm \in 0 .. MAXFILE : Lookup(i, bm)' = IF bm < NDIRECT THEN Lookup(i, bm) ELSE 0
      BY <1>1, <3>2, Sizes DEF Lookup
    <3>4. \A k \in 0 .. NDIRECT - 1 : addrs'[i][k] = 0
      BY <1>0, <2>4, <3>2, Sizes DEF Numbers
    <3> QED
      BY <1>0, <3>2, <3>3, <3>4 DEF Numbers
  <2> QED
    BY <1>1, <2>2, <2>3, <2>4
<1> QED
  BY <1>3, <1>4

LEMMA IndirectStep ==
  ASSUME DataInv, [DataNext]_fileVars
  PROVE  Indirect'
<1>0. DataType /\ Locking /\ Chunks /\ Indirect
  BY DEF DataInv
<1>1. ASSUME NEW d, NEW i \in Inodes, Frame({i}, d), Numbers(i)' PROVE Indirect'
  BY <1>1, InodesLeft DEF Indirect
<1>2. ASSUME UNCHANGED <<store, addrs, slot>> PROVE Indirect'
  BY <1>0, <1>2, LookupSame DEF Indirect, Numbers
<1>3. ASSUME NEW d \in Opens, Install(d) PROVE Indirect'
  <2> DEFINE i == InodeOf[d]
  <2>1. Frame({i}, d) /\ slot' = slot /\ wr[d].new \in DataBlocks /\ i \in Inodes /\ slot[i] = 0
    BY <1>3, InstallEffect, InstallFacts
  <2>2. \A bm \in 0 .. MAXFILE : Lookup(i, bm) \in 0 .. NBlocks
    BY <1>0, <2>1, LookupType
  <2>3. \A bm \in 0 .. MAXFILE : Lookup(i, bm)' \in 0 .. NBlocks
    BY <1>3, <2>1, <2>2, InstallLookup
  <2>4. Numbers(i)'
    BY <2>1, <2>3, Sizes DEF Numbers
  <2> QED
    BY <1>1, <2>1, <2>4
<1>4. ASSUME NEW d \in Opens, Copy(d) PROVE Indirect'
  <2>1. Frame({InodeOf[d]}, d) /\ slot' = slot /\ addrs' = addrs /\ InodeOf[d] \in Inodes
    BY <1>4, CopyEffect
  <2>2. Numbers(InodeOf[d])'
    BY <1>4, <2>1, CopyLookup, NumbersSame
  <2> QED
    BY <1>1, <2>1, <2>2
<1>5. ASSUME NEW i \in Inodes, StartTrunc(i) PROVE Indirect'
  <2>1. slot[i] = 0 /\ UNCHANGED <<store, addrs>> /\ slot' = [slot EXCEPT ![i] = 0]
    BY <1>0, <1>5 DEF StartTrunc, Locking
  <2>2. slot' = slot
    BY <1>0, <2>1 DEF DataType
  <2> QED
    BY <1>2, <2>1, <2>2
<1>6. ASSUME NEW i \in Inodes, TruncRound(i) PROVE Indirect'
  BY <1>1, <1>6, TruncNumbers, TruncEffect
<1>7. ASSUME NEW i \in Inodes, EndTrunc(i) PROVE Indirect'
  <2>1. Frame({i}, "none") /\ UNCHANGED <<store, addrs>> /\ slot'[i] = 0
    BY <1>0, <1>7, TruncEffect, CallType DEF EndTrunc
  <2>2. Numbers(i)'
    BY <1>0, <2>1, LookupSame, Sizes DEF Indirect, Numbers
  <2> QED
    BY <1>1, <2>1, <2>2
<1>8. ASSUME NEW d \in Opens, NEW n \in 1 .. MaxWrite, FileRead(d, n) \/ StartWrite(d, n) PROVE Indirect'
  BY <1>2, <1>8 DEF FileRead, StartWrite
<1>9. ASSUME NEW d \in Opens, Chunk(d) \/ Balloc(d) \/ EndChunk(d) PROVE Indirect'
  BY <1>2, <1>9 DEF Chunk, Balloc, EndChunk
<1>10. CASE UNCHANGED fileVars
  BY <1>2, <1>10 DEF fileVars
<1> QED
  BY <1>3, <1>4, <1>5, <1>6, <1>7, <1>8, <1>9, <1>10 DEF DataNext

LEMMA Multiples ==
  ASSUME NEW m \in Nat, NEW n \in Nat
  PROVE  m * BSIZE \in Nat /\ (m < n => m * BSIZE + BSIZE <= n * BSIZE)
<1>1. m * BSIZE \in Nat
  OBVIOUS
<1>2. ASSUME m < n PROVE m * BSIZE + BSIZE <= n * BSIZE
  <2>1. (m + 1) * BSIZE <= n * BSIZE
    BY <1>2
  <2> QED
    BY <2>1
<1> QED
  BY <1>1, <1>2

\* Numbers only come, while it is not itrunc() that works.
LEMMA CoverMore ==
  ASSUME DataInv, NEW i \in Inodes, len'[i] = len[i], held[i] # "itrunc",
         \A bm \in 0 .. MAXFILE : Lookup(i, bm) # 0 => Lookup(i, bm)' # 0
  PROVE  CoverOf(i)'
BY Sizes DEF DataInv, Covered, CoverOf

LEMMA WrittenMore ==
  ASSUME DataInv, NEW d \in Opens, wr[d].pc \in Active, wr'[d].pos = wr[d].pos,
         \A bm \in 0 .. MAXFILE : Lookup(InodeOf[d], bm) # 0 => Lookup(InodeOf[d], bm)' # 0
  PROVE  WrittenTo(d)'
BY Sizes DEF DataInv, Covered, WrittenTo

LEMMA CoveredStep ==
  ASSUME DataInv, [DataNext]_fileVars
  PROVE  Covered'
<1>0. DataType /\ Locking /\ Chunks /\ Indirect /\ Covered
  BY DEF DataInv
<1>1. ASSUME NEW d \in Opens, NEW i \in Inodes, Frame({i}, d), CoverOf(i)', WrittenTo(d)' PROVE Covered'
  BY <1>1, InodesLeft, CallsLeft DEF Covered
<1>2. ASSUME NEW i \in Inodes, Frame({i}, "none"), CoverOf(i)' PROVE Covered'
  BY <1>2, InodesLeft, CallsLeft DEF Covered
<1>3. ASSUME NEW d \in Opens, NEW n \in 1 .. MaxWrite, FileRead(d, n) PROVE Covered'
  BY <1>0, <1>3, LookupSame DEF FileRead, Covered, CoverOf, WrittenTo
<1>4. ASSUME NEW d \in Opens, NEW n \in 1 .. MaxWrite, StartWrite(d, n) PROVE Covered'
  <2>1. Frame({}, d) /\ wr'[d].pc = "chunk"
    BY <1>4, StartEffect
  <2>2. WrittenTo(d)'
    BY <2>1 DEF WrittenTo, Active
  <2> QED
    BY <2>1, <2>2, InodesLeft, CallsLeft DEF Covered
<1>5. ASSUME NEW d \in Opens, Chunk(d) PROVE Covered'
  <2> DEFINE i == InodeOf[d]
  <2>1. /\ Frame({i}, d) /\ UNCHANGED <<store, addrs, len, off>> /\ held[i] = "none" /\ i \in Inodes
        /\ \/ wr'[d].pc = "idle"
           \/ wr'[d].pc = "bmap" /\ wr'[d].pos = off[d] /\ off[d] <= len[i]
    BY <1>0, <1>5, ChunkEffect, CallFields
  <2>2. \A bm \in 0 .. MAXFILE : Lookup(i, bm)' = Lookup(i, bm)
    BY <2>1, LookupSame
  <2>3. CoverOf(i)'
    BY <2>1, <2>2, CoverMore
  <2>4. WrittenTo(d)'
    <3>1. CASE wr'[d].pc = "idle"
      BY <3>1 DEF WrittenTo, Active
    <3>2. CASE wr'[d].pc = "bmap" /\ wr'[d].pos = off[d] /\ off[d] <= len[i]
      <4>1. off[d] \in Nat /\ len[i] \in Nat /\ CoverOf(i)
        BY <1>0, CallFields DEF Covered
      <4>2. ASSUME NEW bn \in 0 .. MAXFILE - 1, bn * BSIZE < off[d] PROVE Lookup(i, bn) # 0
        <5>1. bn * BSIZE \in Nat
          BY Sizes, Multiples
        <5>2. bn * BSIZE < len[i]
          BY <3>2, <4>1, <4>2, <5>1
        <5> QED
          BY <2>1, <4>1, <5>2 DEF CoverOf
      <4>3. \A bn \in 0 .. MAXFILE - 1 : bn \in 0 .. MAXFILE
        BY Sizes
      <4> QED
        BY <2>1, <2>2, <3>2, <4>2, <4>3 DEF WrittenTo
    <3> QED
      BY <2>1, <3>1, <3>2
  <2> QED
    BY <1>1, <2>1, <2>3, <2>4
<1>6. ASSUME NEW d \in Opens, Balloc(d) \/ Install(d) PROVE Covered'
  <2> DEFINE i == InodeOf[d]
  <2>1. Frame({i}, d) /\ len' = len /\ wr'[d].pos = wr[d].pos /\ wr[d].pc \in Active
    BY <1>6, BallocEffect, InstallEffect DEF Active
  <2>2. i \in Inodes /\ held[i] # "itrunc"
    BY <1>0, <2>1 DEF Locking
  <2>3. \A bm \in 0 .. MAXFILE : Lookup(i, bm) # 0 => Lookup(i, bm)' # 0
    <3>1. CASE Balloc(d)
      BY <3>1, LookupSame DEF Balloc
    <3>2. CASE Install(d)
      <4>1. wr[d].new \in DataBlocks
        BY <3>2, InstallFacts
      <4> QED
        BY <2>2, <3>2, <4>1, InstallLookup
    <3> QED
      BY <1>6, <3>1, <3>2
  <2> QED
    BY <1>1, <2>1, <2>2, <2>3, CoverMore, WrittenMore
<1>7. ASSUME NEW d \in Opens, Copy(d) PROVE Covered'
  <2> DEFINE i == InodeOf[d]
             q == wr[d].pos \div BSIZE
  <2>1. Frame({i}, d) /\ len' = len /\ wr'[d].pos = wr[d].pos + Round(d) /\ wr[d].pc = "bmap"
    BY <1>7, CopyEffect
  <2>2. i \in Inodes /\ held[i] # "itrunc" /\ q \in 0 .. MAXFILE - 1 /\ Lookup(i, q) \in DataBlocks
    BY <1>7, CopyFacts
  <2>3. \A bm \in 0 .. MAXFILE : Lookup(i, bm)' = Lookup(i, bm)
    BY <1>7, <2>2, CopyLookup
  <2>4. CoverOf(i)'
    BY <2>1, <2>2, <2>3, CoverMore
  <2>5. Round(d) \in Nat /\ (wr[d].pos % BSIZE) + Round(d) <= BSIZE
    BY <1>0, <2>1, RoundFacts
  <2>6. wr[d].pos \in Nat /\ wr[d].pos = q * BSIZE + (wr[d].pos % BSIZE) /\ wr[d].pos % BSIZE \in Nat
        /\ wr[d].pos < q * BSIZE + BSIZE /\ q * BSIZE <= wr[d].pos /\ q * BSIZE \in Nat
    <3>1. wr[d].pos \in Nat
      BY <1>0, CallFields
    <3>2. q \in Nat /\ wr[d].pos % BSIZE \in 0 .. BSIZE - 1 /\ wr[d].pos = q * BSIZE + (wr[d].pos % BSIZE)
          /\ wr[d].pos < q * BSIZE + BSIZE /\ q * BSIZE <= wr[d].pos
      BY <3>1, BlockOf
    <3>3. q * BSIZE \in Nat
      BY <3>2, Multiples
    <3> QED
      BY <3>1, <3>2, <3>3
  <2>7. WrittenTo(d) /\ wr[d].pc \in Active
    BY <1>0, <2>1 DEF Covered, Active
  <2> HIDE DEF q, i
  <2>8. wr[d].pos + Round(d) <= q * BSIZE + BSIZE
    BY <2>5, <2>6
  <2>9. ASSUME NEW bn \in 0 .. MAXFILE - 1, bn * BSIZE < wr[d].pos + Round(d) PROVE Lookup(i, bn) # 0
    <3>0. bn \in Nat /\ bn * BSIZE \in Nat /\ q \in Nat
      BY <2>2, Sizes, Multiples
    <3>1. CASE bn < q
      <4>1. bn * BSIZE + BSIZE <= q * BSIZE
        BY <3>0, <3>1, Multiples
      <4>2. bn * BSIZE < wr[d].pos
        BY <2>6, <3>0, <4>1
      <4> QED
        BY <2>7, <4>2 DEF WrittenTo, i
    <3>2. CASE bn = q
      BY <2>2, <3>2
    <3>3. CASE q < bn
      <4>1. q * BSIZE + BSIZE <= bn * BSIZE
        BY <3>0, <3>3, Multiples
      <4> QED
        BY <2>5, <2>6, <2>8, <2>9, <3>0, <4>1
    <3> QED
      BY <3>0, <3>1, <3>2, <3>3
  <2>10. \A bn \in 0 .. MAXFILE - 1 : bn \in 0 .. MAXFILE
    BY Sizes
  <2>11. WrittenTo(d)'
    BY <2>1, <2>3, <2>9, <2>10 DEF WrittenTo, i
  <2> QED
    BY <1>1, <2>1, <2>2, <2>4, <2>11 DEF i
<1>8. ASSUME NEW d \in Opens, EndChunk(d) PROVE Covered'
  <2> DEFINE i == InodeOf[d]
  <2>1. /\ Frame({i}, d) /\ UNCHANGED <<store, addrs>> /\ wr[d].pc = "end" /\ wr'[d].pc \in {"idle", "chunk"}
        /\ i \in Inodes /\ held[i] = d
        /\ len' = [len EXCEPT ![i] = IF len[i] >= wr[d].pos THEN len[i] ELSE wr[d].pos]
    BY <1>8, EndEffect
  <2>2. len'[i] = IF len[i] >= wr[d].pos THEN len[i] ELSE wr[d].pos
    BY <1>0, <2>1, CallType
  <2>3. /\ CoverOf(i) /\ WrittenTo(d) /\ len[i] \in Nat /\ wr[d].pos \in Nat /\ off[d] \in Nat /\ wr[d].n \in Nat
        /\ wr[d].pos <= off[d] + wr[d].n /\ off[d] + wr[d].n <= MAXFILE * BSIZE
    BY <1>0, <2>1, CallFields DEF Covered, Chunks, ChunkOf, Active
  <2>4. wr[d].pos <= MAXFILE * BSIZE
    BY <2>3, Sizes
  <2>5. len'[i] <= MAXFILE * BSIZE
    BY <2>2, <2>3, <2>4 DEF CoverOf
  <2>6. \A bn \in 0 .. MAXFILE - 1 : bn * BSIZE < len'[i] => Lookup(i, bn) # 0
    BY <2>1, <2>2, <2>3 DEF CoverOf, WrittenTo, Active
  <2>7. CoverOf(i)'
    BY <2>1, <2>5, <2>6, LookupSame, Sizes DEF CoverOf
  <2>8. WrittenTo(d)'
    BY <2>1 DEF WrittenTo, Active
  <2> QED
    BY <1>1, <2>1, <2>7, <2>8
<1>9. ASSUME NEW i \in Inodes, StartTrunc(i) \/ TruncRound(i) PROVE Covered'
  <2>1. Frame({i}, "none") /\ held'[i] = "itrunc" /\ len' = len
    BY <1>0, <1>9, TruncEffect, CallType DEF StartTrunc, TruncRound
  <2>2. CoverOf(i)'
    BY <1>0, <2>1, Sizes DEF Covered, CoverOf
  <2> QED
    BY <1>2, <2>1, <2>2
<1>10. ASSUME NEW i \in Inodes, EndTrunc(i) PROVE Covered'
  <2>1. Frame({i}, "none") /\ len'[i] = 0
    BY <1>0, <1>10, TruncEffect, CallType DEF EndTrunc
  <2>2. \A bn \in 0 .. MAXFILE - 1 : ~(bn * BSIZE < 0)
    BY Multiples, Sizes
  <2>3. CoverOf(i)'
    BY <2>1, <2>2, Sizes DEF CoverOf
  <2> QED
    BY <1>2, <2>1, <2>3
<1>11. CASE UNCHANGED fileVars
  <2>1. Frame({}, "none")
    BY <1>11 DEF Frame, fileVars, Lookup
  <2> QED
    BY <2>1, InodesLeft, CallsLeft DEF Covered
<1> QED
  BY <1>3, <1>4, <1>5, <1>6, <1>7, <1>8, <1>9, <1>10, <1>11 DEF DataNext

\* The numbers of the blocks of a chunk.
LEMMA ChunkBlocks ==
  ASSUME DataInv, NEW d \in Opens, wr[d].pc \in Active
  PROVE  /\ FirstBlock(d) \in 0 .. MAXFILE - 1 /\ LastBlock(d) \in 0 .. MAXFILE - 1
         /\ FirstNew(d) \in Nat /\ FirstBlock(d) <= FirstNew(d)
<1>0. off[d] \in Nat /\ wr[d].n \in Nat /\ wr[d].n > 0 /\ off[d] + wr[d].n <= MAXFILE * BSIZE
  BY CallFields DEF DataInv, Chunks, ChunkOf
<1>1. off[d] < MAXFILE * BSIZE /\ off[d] + wr[d].n - 1 < MAXFILE * BSIZE /\ off[d] + wr[d].n - 1 \in Nat
  BY <1>0, Sizes
<1>2. FirstBlock(d) \in 0 .. MAXFILE - 1 /\ LastBlock(d) \in 0 .. MAXFILE - 1
  <2>1. off[d] \div BSIZE \in Nat /\ off[d] \div BSIZE < MAXFILE
    BY <1>0, <1>1, BlockOf, Sizes
  <2>2. (off[d] + wr[d].n - 1) \div BSIZE \in Nat /\ (off[d] + wr[d].n - 1) \div BSIZE < MAXFILE
    BY <1>1, BlockOf, Sizes
  <2> QED
    BY <2>1, <2>2, Sizes DEF FirstBlock, LastBlock
<1> QED
  BY <1>2, Sizes DEF FirstNew

\* The block a round is at is one of its chunk; if it is missing, one that may be.
LEMMA RoundBlock ==
  ASSUME DataInv, NEW d \in Opens, wr[d].pc \in {"bmap", "bzero"}
  PROVE  LET q == wr[d].pos \div BSIZE IN
         /\ q \in FirstBlock(d) .. LastBlock(d)
         /\ Lookup(InodeOf[d], q) = 0 => q \in FirstNew(d) .. LastBlock(d)
<1> DEFINE q == wr[d].pos \div BSIZE
           i == InodeOf[d]
           f == FirstBlock(d)
           l == LastBlock(d)
<1>0. DataType /\ Locking /\ Chunks /\ Indirect /\ Covered
  BY DEF DataInv
<1>1. /\ off[d] \in Nat /\ wr[d].n \in Nat /\ wr[d].pos \in Nat /\ len[i] \in Nat
      /\ off[d] <= wr[d].pos /\ wr[d].pos < off[d] + wr[d].n /\ off[d] <= len[i] /\ i \in Inodes
  BY <1>0, CallFields, PlaceOf DEF Chunks, ChunkOf, Active
<1>2. off[d] + wr[d].n - 1 \in Nat /\ wr[d].pos <= off[d] + wr[d].n - 1
  BY <1>1
<1>3. q \in Nat /\ q * BSIZE <= wr[d].pos /\ wr[d].pos < q * BSIZE + BSIZE
  BY <1>1, BlockOf
<1>4. f \in Nat /\ f * BSIZE <= off[d] /\ off[d] < f * BSIZE + BSIZE
      /\ off[d] % BSIZE \in Nat /\ off[d] = f * BSIZE + (off[d] % BSIZE)
  <2>1. f = off[d] \div BSIZE
    BY DEF FirstBlock
  <2>2. /\ off[d] \div BSIZE \in Nat /\ off[d] % BSIZE \in 0 .. BSIZE - 1
        /\ (off[d] \div BSIZE) * BSIZE <= off[d] /\ off[d] < (off[d] \div BSIZE) * BSIZE + BSIZE
        /\ off[d] = (off[d] \div BSIZE) * BSIZE + (off[d] % BSIZE)
    BY <1>1, BlockOf
  <2>3. off[d] % BSIZE \in Nat
    BY <2>2
  <2> QED
    BY <2>1, <2>2, <2>3
<1>5. l \in Nat /\ l * BSIZE <= off[d] + wr[d].n - 1 /\ off[d] + wr[d].n - 1 < l * BSIZE + BSIZE
  BY <1>2, BlockOf DEF LastBlock
<1>6. q \in 0 .. MAXFILE - 1 /\ held[i] = d
  BY <1>0, PlaceOf
<1>61. FirstNew(d) = IF off[d] % BSIZE = 0 THEN f ELSE f + 1
  BY DEF FirstNew
<1> HIDE DEF q, f, l, i
<1>7. f <= q
  <2>1. CASE q < f
    <3>1. q * BSIZE + BSIZE <= f * BSIZE
      BY <1>3, <1>4, <2>1, Multiples
    <3>2. q * BSIZE \in Nat /\ f * BSIZE \in Nat
      BY <1>3, <1>4, Multiples
    <3> QED
      BY <1>1, <1>3, <1>4, <3>1, <3>2
  <2> QED
    BY <1>3, <1>4, <2>1
<1>8. q <= l
  <2>1. CASE l < q
    <3>1. l * BSIZE + BSIZE <= q * BSIZE
      BY <1>3, <1>5, <2>1, Multiples
    <3>2. l * BSIZE \in Nat /\ q * BSIZE \in Nat
      BY <1>3, <1>5, Multiples
    <3> QED
      BY <1>1, <1>2, <1>3, <1>5, <3>1, <3>2
  <2> QED
    BY <1>3, <1>5, <2>1
<1>9. ASSUME Lookup(i, q) = 0, ~(FirstNew(d) <= q) PROVE FALSE
  <2>1. f * BSIZE \in Nat
    BY <1>4, Multiples
  <2>2. q = f /\ off[d] % BSIZE # 0
    BY <1>3, <1>4, <1>61, <1>7, <1>9
  <2>3. q * BSIZE < len[i]
    <3> DEFINE x == f * BSIZE
               v == off[d] % BSIZE
    <3>1. x \in Nat /\ v \in Nat /\ off[d] = x + v /\ v # 0 /\ off[d] <= len[i] /\ off[d] \in Nat /\ len[i] \in Nat
      BY <1>1, <1>4, <2>1, <2>2
    <3> HIDE DEF x, v
    <3>2. x < len[i]
      BY <3>1
    <3> QED
      BY <2>2, <3>2 DEF x
  <2>4. CoverOf(i) /\ held[i] # "itrunc"
    BY <1>0, <1>1, <1>6 DEF Covered, i
  <2> QED
    BY <1>6, <1>9, <2>3, <2>4 DEF CoverOf
<1>10. FirstNew(d) \in Nat
  BY <1>4, <1>61
<1> QED
  BY <1>3, <1>4, <1>5, <1>7, <1>8, <1>9, <1>10 DEF q, f, l, i

\* Blocks of a chunk stay, and what is new belongs to it.
LEMMA LoggedMore ==
  ASSUME DataInv, NEW d \in Opens, wr[d].pc \in Active, off'[d] = off[d], wr'[d].n = wr[d].n,
         \A bm \in 0 .. MAXFILE : Block(d, bm) # 0 => Block(d, bm)' = Block(d, bm),
         \A x \in wr'[d].logged : x \in wr[d].logged \/ Belongs(d, x)'
  PROVE  LoggedOf(d)'
<1>1. FirstBlock(d)' = FirstBlock(d) /\ LastBlock(d)' = LastBlock(d) /\ FirstNew(d)' = FirstNew(d)
  BY DEF FirstBlock, LastBlock, FirstNew
<1>2. /\ FirstBlock(d) \in 0 .. MAXFILE - 1 /\ LastBlock(d) \in 0 .. MAXFILE - 1
      /\ FirstNew(d) \in Nat
  BY ChunkBlocks
<1>3. \A bm : (bm \in FirstBlock(d) .. LastBlock(d) \/ bm \in FirstNew(d) .. LastBlock(d)) => bm \in 0 .. MAXFILE
  BY <1>2, Sizes
<1>4. \A x : Belongs(d, x) => Belongs(d, x)'
  BY <1>1, <1>3, Sizes DEF Belongs
<1>5. \A x \in wr[d].logged : Belongs(d, x)
  BY DEF DataInv, Logging, LoggedOf
<1> QED
  BY <1>4, <1>5 DEF LoggedOf

LEMMA LoggingStep ==
  ASSUME DataInv, [DataNext]_fileVars
  PROVE  Logging'
<1>0. DataType /\ Locking /\ Chunks /\ Indirect /\ Covered
  BY DEF DataInv
<1>1. ASSUME NEW d \in Opens, NEW I, Frame(I, d), LoggedOf(d)' PROVE Logging'
  BY <1>1, CallsLeft DEF Logging
<1>2. ASSUME NEW I, Frame(I, "none") PROVE Logging'
  BY <1>2, CallsLeft DEF Logging
<1>3. ASSUME NEW d \in Opens, NEW n \in 1 .. MaxWrite, FileRead(d, n) PROVE Logging'
  <2>1. Frame({InodeOf[d]}, d) /\ wr'[d].pc = "idle"
    BY <1>3, ReadEffect
  <2> QED
    BY <1>1, <2>1 DEF LoggedOf, Active
<1>4. ASSUME NEW d \in Opens, NEW n \in 1 .. MaxWrite, StartWrite(d, n) PROVE Logging'
  <2>1. Frame({}, d) /\ wr'[d].pc = "chunk"
    BY <1>4, StartEffect
  <2> QED
    BY <1>1, <2>1 DEF LoggedOf, Active
<1>5. ASSUME NEW d \in Opens, Chunk(d) PROVE Logging'
  <2>1. Frame({InodeOf[d]}, d) /\ wr[d].pc = "chunk" /\ (wr'[d].logged = {} \/ wr'[d].logged = wr[d].logged)
    BY <1>5, ChunkEffect
  <2>2. wr[d].logged = {}
    BY <1>0, <2>1 DEF Chunks, ChunkOf, Active
  <2>3. LoggedOf(d)'
    BY <2>1, <2>2 DEF LoggedOf
  <2> QED
    BY <1>1, <2>1, <2>3
<1>6. ASSUME NEW d \in Opens, Balloc(d) PROVE Logging'
  <2> DEFINE i == InodeOf[d]
  <2> PICK q : q = wr[d].pos \div BSIZE
    OBVIOUS
  <2> PICK m : m = Missing(d)
    OBVIOUS
  <2> PICK b : b = wr'[d].new
    OBVIOUS
  <2>1. /\ Frame({i}, d) /\ UNCHANGED <<store, addrs, off>>
        /\ wr[d].pc = "bmap" /\ Lookup(i, m) = 0 /\ b \in DataBlocks
        /\ wr'[d].pc = "bzero" /\ wr'[d].n = wr[d].n /\ wr'[d].pos = wr[d].pos
        /\ wr'[d].logged = wr[d].logged \cup {<<"bits", b \div BPB>>}
    BY <1>6, BallocEffect
  <2>2. Missing(d)' = m
    BY <2>1 DEF Missing
  <2>3. \A bm : Block(d, bm) = Lookup(i, bm) /\ Block(d, bm)' = IF bm = m THEN b ELSE Lookup(i, bm)
    BY <2>1, <2>2, LookupSame DEF Block
  <2>4. m = MAXFILE \/ m = q
    BY DEF Missing
  <2>5. m = q => q \in FirstNew(d) .. LastBlock(d)
    BY <2>1, RoundBlock
  <2>6. LastBlock(d)' = LastBlock(d) /\ FirstNew(d)' = FirstNew(d)
    BY <2>1 DEF FirstBlock, LastBlock, FirstNew
  <2>7. b # 0
    BY <2>1
  <2>8. Belongs(d, <<"bits", b \div BPB>>)'
    <3>1. Block(d, m)' = b
      BY <2>3
    <3>2. CASE m = MAXFILE
      BY <2>7, <3>1, <3>2 DEF Belongs
    <3>3. CASE m = q
      <4>1. Block(d, q)' = b /\ q \in FirstNew(d)' .. LastBlock(d)'
        BY <2>5, <2>6, <3>1, <3>3
      <4> QED
        BY <2>7, <4>1 DEF Belongs
    <3> QED
      BY <2>4, <3>2, <3>3
  <2>9. LoggedOf(d)'
    <3>1. \A bm \in 0 .. MAXFILE : Block(d, bm) # 0 => Block(d, bm)' = Block(d, bm)
      BY <2>1, <2>3
    <3>2. \A x \in wr'[d].logged : x \in wr[d].logged \/ Belongs(d, x)'
      BY <2>1, <2>8
    <3> QED
      BY <2>1, <3>1, <3>2, LoggedMore DEF Active
  <2> QED
    BY <1>1, <2>1, <2>9
<1>7. ASSUME NEW d \in Opens, Install(d) PROVE Logging'
  <2> DEFINE i == InodeOf[d]
  <2> PICK q : q = wr[d].pos \div BSIZE
    OBVIOUS
  <2> PICK m : m = Missing(d)
    OBVIOUS
  <2> PICK b : b = wr[d].new
    OBVIOUS
  <2> PICK ind : ind = addrs[i][NDIRECT]
    OBVIOUS
  <2>1. /\ Frame({i}, d) /\ UNCHANGED off /\ wr[d].pc = "bzero"
        /\ wr'[d].pc = "bmap" /\ wr'[d].n = wr[d].n /\ wr'[d].pos = wr[d].pos
        /\ wr'[d].logged = wr[d].logged \cup {<<"data", b>>} \cup
              (IF m < NDIRECT \/ m = MAXFILE THEN {} ELSE {<<"data", ind>>})
    BY <1>7, InstallEffect
  <2>2. /\ i \in Inodes /\ b \in DataBlocks /\ Lookup(i, m) = 0 /\ m \in 0 .. MAXFILE
        /\ (m < NDIRECT \/ m = MAXFILE \/ ind # 0)
    BY <1>7, InstallFacts
  <2>3. \A bm \in 0 .. MAXFILE : Block(d, bm)' = IF bm = m THEN b ELSE Lookup(i, bm)
    BY <1>7, <2>1, <2>2, InstallLookup DEF Block
  <2>4. \A bm \in 0 .. MAXFILE : Block(d, bm)' = Block(d, bm)
    BY <2>1, <2>3 DEF Block
  <2>5. m = MAXFILE \/ (m = q /\ q # MAXFILE)
    BY DEF Missing
  <2>6. q \in FirstBlock(d) .. LastBlock(d)
    BY <2>1, RoundBlock
  <2>7. LastBlock(d)' = LastBlock(d) /\ FirstBlock(d)' = FirstBlock(d)
    BY <2>1 DEF FirstBlock, LastBlock
  <2>8. b # 0 /\ Lookup(i, MAXFILE) = ind /\ MAXFILE \in 0 .. MAXFILE
    BY <1>0, <2>2, HasFacts, Sizes
  <2>9. Belongs(d, <<"data", b>>)'
    <3>1. Block(d, m)' = b
      BY <2>2, <2>3
    <3>2. CASE m = MAXFILE
      BY <2>8, <3>1, <3>2 DEF Belongs
    <3>3. CASE m = q
      <4>1. Block(d, q)' = b /\ q \in FirstBlock(d)' .. LastBlock(d)'
        BY <2>6, <2>7, <3>1, <3>3
      <4> QED
        BY <2>8, <4>1 DEF Belongs
    <3> QED
      BY <2>5, <3>2, <3>3
  <2>10. ASSUME ~(m < NDIRECT \/ m = MAXFILE) PROVE Belongs(d, <<"data", ind>>)'
    <3>1. Block(d, MAXFILE)' = ind /\ ind # 0
      BY <2>2, <2>3, <2>8, <2>10
    <3> QED
      BY <3>1 DEF Belongs
  <2>11. LoggedOf(d)'
    <3>1. \A x \in wr'[d].logged : x \in wr[d].logged \/ Belongs(d, x)'
      BY <2>1, <2>9, <2>10
    <3> QED
      BY <2>1, <2>4, <3>1, LoggedMore DEF Active
  <2> QED
    BY <1>1, <2>1, <2>11
<1>8. ASSUME NEW d \in Opens, Copy(d) PROVE Logging'
  <2> DEFINE i == InodeOf[d]
  <2> PICK q : q = wr[d].pos \div BSIZE
    OBVIOUS
  <2> PICK b : b = Lookup(i, q)
    OBVIOUS
  <2>1. /\ Frame({i}, d) /\ UNCHANGED <<off>> /\ wr[d].pc = "bmap" /\ wr'[d].n = wr[d].n
        /\ wr'[d].pc \in {"bmap", "end"} /\ wr'[d].logged = wr[d].logged \cup {<<"data", b>>}
    BY <1>8, CopyEffect
  <2>2. i \in Inodes /\ b \in DataBlocks /\ q \in 0 .. MAXFILE - 1
    BY <1>8, CopyFacts
  <2>3. \A bm \in 0 .. MAXFILE : Block(d, bm)' = Lookup(i, bm) /\ Block(d, bm) = Lookup(i, bm)
    BY <1>8, <2>1, <2>2, CopyLookup DEF Block
  <2>4. q \in FirstBlock(d) .. LastBlock(d)
    BY <2>1, RoundBlock
  <2>5. LastBlock(d)' = LastBlock(d) /\ FirstBlock(d)' = FirstBlock(d)
    BY <2>1 DEF FirstBlock, LastBlock
  <2>6. Block(d, q)' = b /\ b # 0 /\ q \in FirstBlock(d)' .. LastBlock(d)'
    BY <2>2, <2>3, <2>4, <2>5, Sizes
  <2>7. Belongs(d, <<"data", b>>)'
    BY <2>6 DEF Belongs
  <2>8. LoggedOf(d)'
    <3>1. \A x \in wr'[d].logged : x \in wr[d].logged \/ Belongs(d, x)'
      BY <2>1, <2>7
    <3> QED
      BY <2>1, <2>3, <3>1, LoggedMore DEF Active
  <2> QED
    BY <1>1, <2>1, <2>8
<1>9. ASSUME NEW d \in Opens, EndChunk(d) PROVE Logging'
  <2>1. Frame({InodeOf[d]}, d) /\ wr'[d].pc \in {"idle", "chunk"}
    BY <1>9, EndEffect
  <2> QED
    BY <1>1, <2>1 DEF LoggedOf, Active
<1>10. ASSUME NEW i \in Inodes, StartTrunc(i) \/ TruncRound(i) \/ EndTrunc(i) PROVE Logging'
  BY <1>2, <1>10, TruncEffect
<1>11. CASE UNCHANGED fileVars
  <2>1. Frame({}, "none")
    BY <1>11 DEF Frame, fileVars, Lookup
  <2> QED
    BY <1>2, <2>1
<1> QED
  BY <1>3, <1>4, <1>5, <1>6, <1>7, <1>8, <1>9, <1>10, <1>11 DEF DataNext

\* Nothing comes to have a block or ceases to.
LEMMA OwnedSame ==
  ASSUME DataInv, bitmap' = bitmap, \A e \in Opens : wr'[e].new = wr[e].new,
         \A j \in Inodes : \A bm \in 0 .. MAXFILE : \A c \in DataBlocks : Has(j, bm, c)' <=> Has(j, bm, c)
  PROVE  Owned'
<1>1. \A e \in Opens : wr[e].new # 0 => wr[e].new \in DataBlocks
  BY CallFields DEF DataInv
<1>2. Owned
  BY DEF DataInv
<1> QED
  BY <1>1, <1>2 DEF Owned

\* The open file d comes to have block b, which nobody has.
LEMMA OwnedBalloc ==
  ASSUME DataInv, NEW d \in Opens, Balloc(d)
  PROVE  Owned'
<1> PICK b : b = wr'[d].new
  OBVIOUS
<1>0. DataType /\ Owned /\ Locking
  BY DEF DataInv
<1>1. /\ Frame({InodeOf[d]}, d) /\ UNCHANGED <<store, addrs, slot>>
      /\ wr[d].pc = "bmap" /\ b \in DataBlocks /\ b \notin bitmap /\ bitmap' = bitmap \cup {b}
  BY BallocEffect
<1>2. \A j \in Inodes : \A bm \in 0 .. MAXFILE : \A c \in DataBlocks : Has(j, bm, c)' <=> Has(j, bm, c)
  BY <1>1 DEF Has, Lookup
<1>3. wr[d].new = 0 /\ \A e \in Opens : e # d => wr'[e].new = wr[e].new
  BY <1>0, <1>1 DEF Locking, Frame
<1>4. \A e \in Opens : wr[e].new # 0 => wr[e].new \in DataBlocks
  BY <1>0, CallFields
<1>5. /\ \A j \in Inodes : \A bm \in 0 .. MAXFILE : ~Has(j, bm, b)
      /\ \A e \in Opens : wr[e].new # b
  BY <1>0, <1>1 DEF Owned
<1>6. \A e \in Opens : wr'[e].new = IF e = d THEN b ELSE wr[e].new
  BY <1>3
<1>7. \A j \in Inodes : \A bm \in 0 .. MAXFILE : \A e \in Opens : \A c \in DataBlocks :
        wr'[e].new = c => ~Has(j, bm, c)'
  <2> SUFFICES ASSUME NEW j \in Inodes, NEW bm \in 0 .. MAXFILE, NEW e \in Opens, NEW c \in DataBlocks, wr'[e].new = c
               PROVE  ~Has(j, bm, c)'
    OBVIOUS
  <2>1. c \in DataBlocks /\ ~Has(j, bm, c)
    BY <1>0, <1>1, <1>4, <1>5, <1>6 DEF Owned
  <2> QED
    BY <1>2, <2>1
<1>8. \A e, f \in Opens : wr'[e].new # 0 /\ wr'[e].new = wr'[f].new => e = f
  BY <1>0, <1>5, <1>6 DEF Owned
<1>9. \A c \in DataBlocks :
        c \in bitmap' <=> (\E j \in Inodes : \E bm \in 0 .. MAXFILE : Has(j, bm, c)')
                          \/ (\E e \in Opens : wr'[e].new = c)
  <2> SUFFICES ASSUME NEW c \in DataBlocks
               PROVE  c \in bitmap' <=> (\E j \in Inodes : \E bm \in 0 .. MAXFILE : Has(j, bm, c)')
                          \/ (\E e \in Opens : wr'[e].new = c)
    OBVIOUS
  <2>1. c \in bitmap <=> (\E j \in Inodes : \E bm \in 0 .. MAXFILE : Has(j, bm, c))
                          \/ (\E e \in Opens : wr[e].new = c)
    BY <1>0 DEF Owned
  <2>2. (\E e \in Opens : wr'[e].new = c) <=> (c = b \/ \E e \in Opens : wr[e].new = c)
    BY <1>3, <1>6
  <2> QED
    BY <1>1, <1>2, <2>1, <2>2
<1>10. \A j, k \in Inodes : \A bn, bm \in 0 .. MAXFILE : \A c \in DataBlocks :
         Has(j, bn, c)' /\ Has(k, bm, c)' => j = k /\ bn = bm
  BY <1>0, <1>2 DEF Owned
<1> QED
  BY <1>7, <1>8, <1>9, <1>10 DEF Owned

\* It hands the block to its inode.
LEMMA OwnedInstall ==
  ASSUME DataInv, NEW d \in Opens, Install(d)
  PROVE  Owned'
<1> DEFINE i == InodeOf[d]
<1> PICK b : b = wr[d].new
  OBVIOUS
<1> PICK m : m = Missing(d)
  OBVIOUS
<1>0. DataType /\ Owned /\ Locking
  BY DEF DataInv
<1>1. Frame({InodeOf[d]}, d) /\ UNCHANGED <<slot, bitmap>> /\ wr'[d].new = 0
  BY InstallEffect
<1>2. i \in Inodes /\ b \in DataBlocks /\ Lookup(i, m) = 0 /\ m \in 0 .. MAXFILE /\ slot[i] = 0
  BY InstallFacts
<1>3. \A j \in Inodes : \A bm \in 0 .. MAXFILE : \A c \in DataBlocks :
        Has(j, bm, c)' <=> Has(j, bm, c) \/ (j = i /\ bm = m /\ c = b)
  <2> SUFFICES ASSUME NEW j \in Inodes, NEW bm \in 0 .. MAXFILE, NEW c \in DataBlocks
               PROVE  Has(j, bm, c)' <=> Has(j, bm, c) \/ (j = i /\ bm = m /\ c = b)
    OBVIOUS
  <2>1. Lookup(j, bm)' = IF j = i /\ bm = m THEN b ELSE Lookup(j, bm)
    BY InstallLookup
  <2>2. CASE j = i /\ bm = m
    BY <1>1, <1>2, <2>1, <2>2 DEF Has
  <2>3. CASE ~(j = i /\ bm = m)
    BY <1>1, <2>1, <2>3 DEF Has
  <2> QED
    BY <2>2, <2>3
<1>4. \A e \in Opens : wr'[e].new = IF e = d THEN 0 ELSE wr[e].new
  BY <1>1 DEF Frame
<1>5. \A e \in Opens : wr[e].new # 0 => wr[e].new \in DataBlocks
  BY <1>0, CallFields
<1>6. b # 0 /\ \A j \in Inodes : \A bm \in 0 .. MAXFILE : ~Has(j, bm, b)
  BY <1>0, <1>2 DEF Owned
<1>7. \A j \in Inodes : \A bm \in 0 .. MAXFILE : \A e \in Opens : \A c \in DataBlocks :
        wr'[e].new = c => ~Has(j, bm, c)'
  <2> SUFFICES ASSUME NEW j \in Inodes, NEW bm \in 0 .. MAXFILE, NEW e \in Opens, NEW c \in DataBlocks, wr'[e].new = c
               PROVE  ~Has(j, bm, c)'
    OBVIOUS
  <2>1. c = wr[e].new /\ e # d
    BY <1>4
  <2>2. c \in DataBlocks /\ ~Has(j, bm, c) /\ c # b
    BY <1>0, <1>5, <1>6, <2>1 DEF Owned
  <2> QED
    BY <1>3, <2>2
<1>8. \A e, f \in Opens : wr'[e].new # 0 /\ wr'[e].new = wr'[f].new => e = f
  BY <1>0, <1>4 DEF Owned
<1>9. \A c \in DataBlocks :
        c \in bitmap' <=> (\E j \in Inodes : \E bm \in 0 .. MAXFILE : Has(j, bm, c)')
                          \/ (\E e \in Opens : wr'[e].new = c)
  <2> SUFFICES ASSUME NEW c \in DataBlocks
               PROVE  c \in bitmap' <=> (\E j \in Inodes : \E bm \in 0 .. MAXFILE : Has(j, bm, c)')
                          \/ (\E e \in Opens : wr'[e].new = c)
    OBVIOUS
  <2>1. c \in bitmap <=> (\E j \in Inodes : \E bm \in 0 .. MAXFILE : Has(j, bm, c))
                          \/ (\E e \in Opens : wr[e].new = c)
    BY <1>0 DEF Owned
  <2>2. (\E j \in Inodes : \E bm \in 0 .. MAXFILE : Has(j, bm, c)') <=>
          (\E j \in Inodes : \E bm \in 0 .. MAXFILE : Has(j, bm, c)) \/ c = b
    BY <1>2, <1>3
  <2>3. (\E e \in Opens : wr[e].new = c) <=> ((\E e \in Opens : wr'[e].new = c) \/ c = b)
    <3>1. c # 0
      OBVIOUS
    <3> QED
      BY <1>4, <3>1
  <2> QED
    BY <1>1, <2>1, <2>2, <2>3
<1>10. \A j, k \in Inodes : \A bn, bm \in 0 .. MAXFILE : \A c \in DataBlocks :
         Has(j, bn, c)' /\ Has(k, bm, c)' => j = k /\ bn = bm
  BY <1>0, <1>2, <1>3, <1>6 DEF Owned
<1> QED
  BY <1>7, <1>8, <1>9, <1>10 DEF Owned

\* itrunc() gives a block back, or passes over a place without one.
LEMMA OwnedTrunc ==
  ASSUME DataInv, NEW i \in Inodes, TruncRound(i)
  PROVE  Owned'
<1> PICK s : s = slot[i]
  OBVIOUS
<1> PICK b : b = Lookup(i, s)
  OBVIOUS
<1>0. DataType /\ Owned /\ Locking /\ Indirect
  BY DEF DataInv
<1>1. /\ s \in 0 .. MAXFILE /\ wr' = wr /\ slot' = [slot EXCEPT ![i] = s + 1] /\ DOMAIN slot = Inodes
      /\ \A j \in Inodes : slot[j] \in 0 .. MAXFILE + 1
  BY <1>0, CallType, Sizes DEF TruncRound, DataType
<1>2. b \in 0 .. NBlocks /\ (b # 0 => Has(i, s, b) /\ b \in DataBlocks)
  BY <1>0, <1>1, LookupType, HasFacts
<1>3. bitmap' = IF b = 0 THEN bitmap ELSE bitmap \ {b}
  BY DEF TruncRound, Bfree
<1>4. \A j \in Inodes : \A bm \in 0 .. MAXFILE : \A c \in DataBlocks :
        Has(j, bm, c)' <=> Has(j, bm, c) /\ ~(j = i /\ bm = s)
  <2> SUFFICES ASSUME NEW j \in Inodes, NEW bm \in 0 .. MAXFILE, NEW c \in DataBlocks
               PROVE  Has(j, bm, c)' <=> Has(j, bm, c) /\ ~(j = i /\ bm = s)
    OBVIOUS
  <2>1. CASE j # i
    <3>1. slot'[j] = slot[j] /\ Lookup(j, bm)' = Lookup(j, bm)
      BY <1>1, <2>1, TruncLookup
    <3> QED
      BY <2>1, <3>1 DEF Has
  <2>2. CASE j = i /\ bm > s
    <3>1. slot'[j] = s + 1 /\ Lookup(j, bm)' = Lookup(j, bm)
      BY <1>1, <2>2, TruncLookup
    <3> QED
      BY <1>1, <2>2, <3>1 DEF Has
  <2>3. CASE j = i /\ bm <= s
    <3>1. slot'[j] = s + 1
      BY <1>1, <2>3
    <3> QED
      BY <1>1, <2>3, <3>1 DEF Has
  <2> QED
    BY <1>1, <2>1, <2>2, <2>3
<1>5. \A e \in Opens : wr[e].new # 0 => wr[e].new \in DataBlocks
  BY <1>0, CallFields
<1>6. \A j \in Inodes : \A bm \in 0 .. MAXFILE : \A e \in Opens : \A c \in DataBlocks :
        wr'[e].new = c => ~Has(j, bm, c)'
  <2> SUFFICES ASSUME NEW j \in Inodes, NEW bm \in 0 .. MAXFILE, NEW e \in Opens, NEW c \in DataBlocks, wr'[e].new = c
               PROVE  ~Has(j, bm, c)'
    OBVIOUS
  <2>1. c \in DataBlocks /\ ~Has(j, bm, c)
    BY <1>0, <1>1, <1>5 DEF Owned
  <2> QED
    BY <1>4, <2>1
<1>7. \A c \in DataBlocks :
        c \in bitmap' <=> (\E j \in Inodes : \E bm \in 0 .. MAXFILE : Has(j, bm, c)')
                          \/ (\E e \in Opens : wr'[e].new = c)
  <2> SUFFICES ASSUME NEW c \in DataBlocks
               PROVE  c \in bitmap' <=> (\E j \in Inodes : \E bm \in 0 .. MAXFILE : Has(j, bm, c)')
                          \/ (\E e \in Opens : wr[e].new = c)
    BY <1>1
  <2>1. c \in bitmap <=> (\E j \in Inodes : \E bm \in 0 .. MAXFILE : Has(j, bm, c))
                          \/ (\E e \in Opens : wr[e].new = c)
    BY <1>0 DEF Owned
  <2>2. CASE c = b
    <3>1. b # 0 /\ Has(i, s, b)
      BY <1>2, <2>2
    <3>2. \A j \in Inodes : \A bm \in 0 .. MAXFILE : ~Has(j, bm, c)'
      BY <1>0, <1>1, <1>4, <2>2, <3>1 DEF Owned
    <3>3. \A e \in Opens : wr[e].new # c
      BY <1>0, <1>1, <2>2, <3>1 DEF Owned
    <3> QED
      BY <1>3, <2>2, <3>1, <3>2, <3>3
  <2>3. CASE c # b
    <3>1. ~Has(i, s, c)
      BY <2>3 DEF Has
    <3>2. \A j \in Inodes : \A bm \in 0 .. MAXFILE : Has(j, bm, c)' <=> Has(j, bm, c)
      BY <1>4, <3>1
    <3> QED
      BY <1>3, <2>1, <2>3, <3>2
  <2> QED
    BY <2>2, <2>3
<1>8. \A j, k \in Inodes : \A bn, bm \in 0 .. MAXFILE : \A c \in DataBlocks :
         Has(j, bn, c)' /\ Has(k, bm, c)' => j = k /\ bn = bm
  BY <1>0, <1>4 DEF Owned
<1>9. \A e, f \in Opens : wr'[e].new # 0 /\ wr'[e].new = wr'[f].new => e = f
  BY <1>0, <1>1 DEF Owned
<1> QED
  BY <1>6, <1>7, <1>8, <1>9 DEF Owned

\* Nothing is left when itrunc() is done.
LEMMA Truncated ==
  ASSUME DataInv, NEW i \in Inodes, EndTrunc(i), NEW bm \in 0 .. MAXFILE
  PROVE  Lookup(i, bm) = 0
<1>1. slot[i] = MAXFILE + 1 /\ Numbers(i) /\ addrs[i][NDIRECT] \in 0 .. NBlocks
  BY DEF EndTrunc, DataInv, Indirect, DataType
<1>2. addrs[i][NDIRECT] = 0
  BY <1>1, Sizes DEF Numbers
<1>3. \A k \in 0 .. NDIRECT - 1 : addrs[i][k] = 0
  BY <1>1, Sizes DEF Numbers
<1> QED
  BY <1>2, <1>3 DEF Lookup

LEMMA OwnedStep ==
  ASSUME DataInv, [DataNext]_fileVars
  PROVE  Owned'
<1>0. DataType /\ Locking /\ Chunks /\ Indirect /\ Owned
  BY DEF DataInv
<1>1. ASSUME UNCHANGED <<bitmap, store, addrs, slot>>, \A e \in Opens : wr'[e].new = wr[e].new PROVE Owned'
  BY <1>1, OwnedSame DEF Has, Lookup
<1>2. ASSUME NEW d \in Opens, NEW n \in 1 .. MaxWrite, FileRead(d, n) PROVE Owned'
  BY <1>1, <1>2 DEF FileRead
<1>3. ASSUME NEW d \in Opens, NEW n \in 1 .. MaxWrite, StartWrite(d, n) PROVE Owned'
  <2>1. /\ Frame({}, d) /\ UNCHANGED <<bitmap, store, addrs, slot>> /\ wr[d].pc = "idle"
        /\ wr'[d].new = 0
    BY <1>3, StartEffect
  <2>2. wr'[d].new = wr[d].new
    BY <1>0, <2>1 DEF Locking
  <2>3. \A e \in Opens : wr'[e].new = wr[e].new
    BY <2>1, <2>2 DEF Frame
  <2> QED
    BY <1>1, <2>1, <2>3
<1>4. ASSUME NEW d \in Opens, Chunk(d) PROVE Owned'
  <2>1. /\ Frame({InodeOf[d]}, d) /\ UNCHANGED <<bitmap, store, addrs, slot>> /\ wr[d].pc = "chunk"
        /\ (wr'[d].new = 0 \/ wr'[d].new = wr[d].new)
    BY <1>4, ChunkEffect
  <2>2. wr'[d].new = wr[d].new
    BY <1>0, <2>1 DEF Locking
  <2>3. \A e \in Opens : wr'[e].new = wr[e].new
    BY <2>1, <2>2 DEF Frame
  <2> QED
    BY <1>1, <2>1, <2>3
<1>5. ASSUME NEW d \in Opens, Copy(d) PROVE Owned'
  <2>1. Frame({InodeOf[d]}, d) /\ bitmap' = bitmap /\ slot' = slot /\ wr'[d].new = wr[d].new
    BY <1>5, CopyEffect
  <2>2. \A e \in Opens : wr'[e].new = wr[e].new
    BY <2>1 DEF Frame
  <2>3. \A j \in Inodes : \A bm \in 0 .. MAXFILE : Lookup(j, bm)' = Lookup(j, bm)
    BY <1>5, CopyLookup
  <2> QED
    BY <2>1, <2>2, <2>3, OwnedSame DEF Has
<1>6. ASSUME NEW d \in Opens, EndChunk(d) PROVE Owned'
  <2>1. /\ Frame({InodeOf[d]}, d) /\ UNCHANGED <<bitmap, store, addrs, slot>> /\ wr[d].pc = "end"
        /\ wr'[d].new = 0
    BY <1>6, EndEffect
  <2>2. wr'[d].new = wr[d].new
    BY <1>0, <2>1 DEF Locking
  <2>3. \A e \in Opens : wr'[e].new = wr[e].new
    BY <2>1, <2>2 DEF Frame
  <2> QED
    BY <1>1, <2>1, <2>3
<1>7. ASSUME NEW i \in Inodes, StartTrunc(i) PROVE Owned'
  <2>1. slot[i] = 0 /\ UNCHANGED <<bitmap, store, addrs, wr>> /\ slot' = [slot EXCEPT ![i] = 0]
    BY <1>0, <1>7 DEF StartTrunc, Locking
  <2>2. slot' = slot
    BY <1>0, <2>1 DEF DataType
  <2> QED
    BY <1>1, <2>1, <2>2
<1>8. ASSUME NEW i \in Inodes, EndTrunc(i) PROVE Owned'
  <2>1. /\ UNCHANGED <<bitmap, store, addrs, wr>> /\ slot[i] = MAXFILE + 1
        /\ \A j \in Inodes : j # i => slot'[j] = slot[j]
    BY <1>0, <1>8, CallType DEF EndTrunc
  <2>2. \A j \in Inodes : \A bm \in 0 .. MAXFILE : \A c \in DataBlocks : Has(j, bm, c)' <=> Has(j, bm, c)
    <3> SUFFICES ASSUME NEW j \in Inodes, NEW bm \in 0 .. MAXFILE, NEW c \in DataBlocks
                 PROVE  Has(j, bm, c)' <=> Has(j, bm, c)
      OBVIOUS
    <3>1. Lookup(j, bm)' = Lookup(j, bm)
      BY <2>1, LookupSame
    <3>2. CASE j = i
      <4>1. Lookup(j, bm) # c
        BY <1>8, <3>2, Truncated
      <4> QED
        BY <3>1, <4>1 DEF Has
    <3>3. CASE j # i
      BY <2>1, <3>1, <3>3 DEF Has
    <3> QED
      BY <3>2, <3>3
  <2> QED
    BY <2>1, <2>2, OwnedSame
<1>9. CASE UNCHANGED fileVars
  BY <1>1, <1>9 DEF fileVars
<1> QED
  BY <1>2, <1>3, <1>4, <1>5, <1>6, <1>7, <1>8, <1>9, OwnedBalloc, OwnedInstall, OwnedTrunc DEF DataNext

LEMMA DataInitInv == DataInit => DataInv
<1> SUFFICES ASSUME DataInit PROVE DataInv
  OBVIOUS
<1>0. NoWrite \in Calls
  BY DEF NoWrite, Calls
<1>1. wr = [d \in Opens |-> NoWrite] /\ \A d \in Opens : wr[d].pc = "idle" /\ wr[d].new = 0 /\ wr[d].logged = {}
  BY DEF DataInit, NoWrite
<1>2. DataType
  BY <1>0, <1>1, Sizes DEF DataInit, DataType
<1>3. Locking
  BY <1>1 DEF DataInit, Locking, Active
<1>4. Chunks /\ Logging
  BY <1>1 DEF Chunks, ChunkOf, Active, Logging, LoggedOf
<1>5. \A i \in Inodes : addrs[i] = [k \in 0 .. NDIRECT |-> 0] /\ slot[i] = 0 /\ len[i] = 0
  BY DEF DataInit
<1>6. \A i \in Inodes : \A bn \in 0 .. MAXFILE : Lookup(i, bn) = 0
  BY <1>5, Sizes DEF Lookup
<1>7. Indirect
  BY <1>5, <1>6, Sizes DEF Indirect, Numbers
<1>8. \A i \in Inodes : \A bn \in 0 .. MAXFILE : \A b \in DataBlocks : ~Has(i, bn, b)
  BY <1>6 DEF Has
<1>9. Owned
  BY <1>1, <1>8 DEF Owned, DataInit
<1>10. \A bn \in 0 .. MAXFILE - 1 : ~(bn * BSIZE < 0)
  BY Multiples, Sizes
<1>11. Covered
  BY <1>1, <1>5, <1>10, Sizes DEF Covered, CoverOf, WrittenTo, Active
<1> QED
  BY <1>2, <1>3, <1>4, <1>7, <1>9, <1>11 DEF DataInv

\* The inductive invariant: lock, chunk, block numbers, owners and transaction fit together.
THEOREM DataInvariance == DataSpec => []DataInv
<1>1. DataInv /\ [DataNext]_fileVars => DataInv'
  BY DataTypeStep, LockingStep, ChunksStep, IndirectStep, OwnedStep, CoveredStep, LoggingStep DEF DataInv
<1> QED
  BY <1>1, DataInitInv, PTL DEF DataSpec

-----------------------------------------------------------------------------
(* Blocks have one owner, transactions fit the log.                         *)

\* No block is in two files, or twice in one, and none is lost: BlocksOwnedOnce for any
\* number of files, open files and blocks, at every point of balloc(), bmap() and itrunc().
THEOREM BlocksHaveOneOwner == DataSpec => []BlocksOwnedOnce
<1>1. DataInv => BlocksOwnedOnce
  <2> SUFFICES ASSUME DataInv, NEW b \in DataBlocks
               PROVE  Cardinality(References(b)) = IF b \in bitmap THEN 1 ELSE 0
    BY DEF BlocksOwnedOnce
  <2>0. Owned /\ DataType
    BY DEF DataInv
  <2>1. \A i \in Inodes : \A bn \in 0 .. MAXFILE :
          <<i, bn>> \in References(b) <=> Has(i, bn, b) \/ (<<i, bn>> \in Opens /\ wr[<<i, bn>>].new = b)
    <3>1. \A i \in Inodes : slot[i] \in Nat
      BY <2>0 DEF DataType
    <3> QED
      BY <3>1, Sizes DEF References, Has
  <2>2. \A r \in References(b) :
          \/ \E i \in Inodes : \E bn \in 0 .. MAXFILE : r = <<i, bn>> /\ Has(i, bn, b)
          \/ r \in Opens /\ wr[r].new = b
    <3>1. \A i \in Inodes : slot[i] \in Nat
      BY <2>0 DEF DataType
    <3> QED
      BY <3>1, Sizes DEF References, Has
  <2>3. \A e \in Opens : wr[e].new = b => e \in References(b)
    BY DEF References
  <2>4. CASE b \notin bitmap
    <3>1. References(b) = {}
      BY <2>0, <2>2, <2>4 DEF Owned
    <3> QED
      BY <2>4, <3>1, FS_EmptySet
  <2>5. ASSUME NEW i \in Inodes, NEW bn \in 0 .. MAXFILE, Has(i, bn, b) PROVE References(b) = {<<i, bn>>}
    <3>1. \A e \in Opens : wr[e].new # b
      BY <2>0, <2>5 DEF Owned
    <3>2. \A j \in Inodes : \A bm \in 0 .. MAXFILE : Has(j, bm, b) => j = i /\ bm = bn
      BY <2>0, <2>5 DEF Owned
    <3> QED
      BY <2>1, <2>2, <2>5, <3>1, <3>2
  <2>6. ASSUME NEW e \in Opens, wr[e].new = b PROVE References(b) = {e}
    <3>1. \A j \in Inodes : \A bm \in 0 .. MAXFILE : ~Has(j, bm, b)
      BY <2>0, <2>6 DEF Owned
    <3>2. \A f \in Opens : wr[f].new = b => f = e
      BY <2>0, <2>6 DEF Owned
    <3> QED
      BY <2>2, <2>3, <2>6, <3>1, <3>2
  <2>7. CASE b \in bitmap
    <3>1. (\E i \in Inodes : \E bn \in 0 .. MAXFILE : Has(i, bn, b)) \/ (\E e \in Opens : wr[e].new = b)
      BY <2>0, <2>7 DEF Owned
    <3>2. \E r : References(b) = {r}
      BY <2>5, <2>6, <3>1
    <3> QED
      BY <2>7, <3>2, FS_Singleton
  <2> QED
    BY <2>4, <2>7
<1> QED
  BY <1>1, DataInvariance, PTL

\* The values of a function on an interval.
LEMMA Values ==
  ASSUME NEW a \in Int, NEW z \in Int, NEW T, NEW f \in Surjection(a .. z, T)
  PROVE  IsFiniteSet(T) /\ Cardinality(T) \in Nat /\ Cardinality(T) <= IF a > z THEN 0 ELSE z - a + 1
<1>1. IsFiniteSet(a .. z) /\ Cardinality(a .. z) = IF a > z THEN 0 ELSE z - a + 1
  BY FS_Interval
<1>2. IsFiniteSet(T) /\ Cardinality(T) <= Cardinality(a .. z)
  BY <1>1, FS_Surjection
<1>3. Cardinality(T) \in Nat
  BY <1>2, FS_CardinalityType
<1> QED
  BY <1>1, <1>2, <1>3

\* The blocks of a chunk, and those it may have to allocate.
LEMMA ChunkSpan ==
  ASSUME DataInv, NEW d \in Opens, wr[d].pc \in Active
  PROVE  LET k == (MaxOpBlocks - 1 - 1 - 2) \div 2
             f == FirstBlock(d)
             l == LastBlock(d)
         IN  l - FirstNew(d) + 1 <= k /\ l - f + 1 <= k + 1
<1> DEFINE k == (MaxOpBlocks - 1 - 1 - 2) \div 2
           f == FirstBlock(d)
           l == LastBlock(d)
           x == off[d]
           n == wr[d].n
<1>1. /\ x \in Nat /\ n \in Nat /\ n > 0 /\ n <= ChunkMax
  BY CallFields DEF DataInv, Chunks, ChunkOf
<1>2. k \in Nat /\ ChunkMax = k * BSIZE
  BY ChunkSize
<1>3. f \in Nat /\ f * BSIZE <= x /\ x < f * BSIZE + BSIZE /\ x = f * BSIZE + (x % BSIZE) /\ x % BSIZE \in 0 .. BSIZE - 1
  <2>1. f = x \div BSIZE
    BY DEF FirstBlock
  <2> QED
    BY <1>1, <2>1, BlockOf
<1>4. l \in Nat /\ l * BSIZE <= x + n - 1
  <2>1. l = (x + n - 1) \div BSIZE /\ x + n - 1 \in Nat
    BY <1>1 DEF LastBlock
  <2> QED
    BY <2>1, BlockOf
<1>5. FirstNew(d) = IF x % BSIZE = 0 THEN f ELSE f + 1
  BY DEF FirstNew
<1> HIDE DEF k, f, l, x, n
<1>6. k * BSIZE \in Nat /\ f * BSIZE \in Nat /\ l * BSIZE \in Nat /\ (f + k) * BSIZE = f * BSIZE + k * BSIZE
      /\ (f + k + 1) * BSIZE = f * BSIZE + k * BSIZE + BSIZE
  BY <1>2, <1>3, <1>4
<1>7. l <= f + k
  <2>1. CASE f + k + 1 <= l
    <3>1. (f + k + 1) * BSIZE <= l * BSIZE
      BY <1>2, <1>3, <1>4, <2>1
    <3> QED
      BY <1>1, <1>2, <1>3, <1>4, <1>6, <3>1
  <2> QED
    BY <1>2, <1>3, <1>4, <2>1
<1>8. x % BSIZE = 0 => l <= f + k - 1
  <2>1. CASE x % BSIZE = 0 /\ f + k <= l
    <3>1. (f + k) * BSIZE <= l * BSIZE
      BY <1>2, <1>3, <1>4, <2>1
    <3> QED
      BY <1>1, <1>2, <1>3, <1>4, <1>6, <2>1, <3>1
  <2> QED
    BY <1>2, <1>3, <1>4, <2>1
<1>9. l - FirstNew(d) + 1 <= k /\ l - f + 1 <= k + 1
  BY <1>2, <1>3, <1>4, <1>5, <1>7, <1>8
<1> QED
  BY <1>9 DEF k, f, l

\* What a transaction may hold, counted.
LEMMA LoggedCount ==
  ASSUME DataInv, NEW d \in Opens, wr[d].pc \in Active
  PROVE  IsFiniteSet(wr[d].logged) /\ Cardinality(wr[d].logged) \in Nat
         /\ Cardinality(wr[d].logged) <= MaxOpBlocks - 1
<1> DEFINE k == (MaxOpBlocks - 1 - 1 - 2) \div 2
           f == FirstBlock(d)
           g == FirstNew(d)
           l == LastBlock(d)
           df == [bn \in f .. l |-> <<"data", Block(d, bn)>>]
           bf == [bn \in g .. l |-> <<"bits", Block(d, bn) \div BPB>>]
           D == {df[bn] : bn \in f .. l}
           B == {bf[bn] : bn \in g .. l}
           ia == <<"data", Block(d, MAXFILE)>>
           ib == <<"bits", Block(d, MAXFILE) \div BPB>>
           L == wr[d].logged
<1>1. f \in Nat /\ g \in Nat /\ l \in Nat
  BY ChunkBlocks, Sizes
<1>2. l - g + 1 <= k /\ l - f + 1 <= k + 1
  BY ChunkSpan
<1>3. k \in Nat /\ 2 * k <= MaxOpBlocks - 4
  BY ChunkSize
<1>4. L \subseteq (D \cup B) \cup {ia, ib}
  <2>1. \A x \in L : Belongs(d, x)
    BY DEF DataInv, Logging, LoggedOf
  <2> SUFFICES ASSUME NEW x \in L PROVE x \in (D \cup B) \cup {ia, ib}
    OBVIOUS
  <2>2. CASE \E bn \in f .. l : Block(d, bn) # 0 /\ x = <<"data", Block(d, bn)>>
    <3>1. x \in D
      BY <2>2
    <3> QED
      BY <3>1
  <2>3. CASE \E bn \in g .. l : Block(d, bn) # 0 /\ x = <<"bits", Block(d, bn) \div BPB>>
    <3>1. x \in B
      BY <2>3
    <3> QED
      BY <3>1
  <2>4. CASE x \in {ia, ib}
    BY <2>4
  <2> QED
    BY <2>1, <2>2, <2>3, <2>4 DEF Belongs
<1>5. IsFiniteSet(D) /\ Cardinality(D) \in Nat /\ Cardinality(D) <= k + 1
  <2>1. df \in Surjection(f .. l, D)
    BY DEF Surjection
  <2> HIDE DEF df, f, l, k, D
  <2>2. IsFiniteSet(D) /\ Cardinality(D) \in Nat /\ Cardinality(D) <= IF f > l THEN 0 ELSE l - f + 1
    BY <1>1, <2>1, Values
  <2> QED
    BY <1>1, <1>2, <1>3, <2>2
<1>6. IsFiniteSet(B) /\ Cardinality(B) \in Nat /\ Cardinality(B) <= k
  <2>1. bf \in Surjection(g .. l, B)
    BY DEF Surjection
  <2> HIDE DEF bf, g, l, k, B
  <2>2. IsFiniteSet(B) /\ Cardinality(B) \in Nat /\ Cardinality(B) <= IF g > l THEN 0 ELSE l - g + 1
    BY <1>1, <2>1, Values
  <2> QED
    BY <1>1, <1>2, <1>3, <2>2
<1> HIDE DEF D, B, ia, ib, k, L
<1>7. /\ IsFiniteSet({ia, ib}) /\ Cardinality({ia, ib}) <= 2 /\ Cardinality({ia, ib}) \in Nat
  <2>1. {ia, ib} = {ia} \cup {ib}
    OBVIOUS
  <2>2. IsFiniteSet({ia}) /\ Cardinality({ia}) = 1
    BY FS_Singleton
  <2>3. IsFiniteSet({ia} \cup {ib})
        /\ Cardinality({ia} \cup {ib}) = IF ib \in {ia} THEN Cardinality({ia}) ELSE Cardinality({ia}) + 1
    BY <2>2, FS_AddElement
  <2> QED
    BY <2>1, <2>2, <2>3
<1>8. IsFiniteSet(D \cup B) /\ Cardinality(D \cup B) \in Nat /\ Cardinality(D \cup B) <= 2 * k + 1
  <2>1. IsFiniteSet(D \cup B) /\ Cardinality(D \cup B) = Cardinality(D) + Cardinality(B) - Cardinality(D \cap B)
    BY <1>5, <1>6, FS_Union
  <2>2. Cardinality(D \cap B) \in Nat /\ Cardinality(D \cup B) \in Nat
    BY <1>5, <2>1, FS_Subset, FS_CardinalityType
  <2> QED
    BY <1>3, <1>5, <1>6, <2>1, <2>2
<1> DEFINE E == D \cup B
           FF == {ia, ib}
<1> HIDE DEF E, FF
<1>9. IsFiniteSet(E \cup FF) /\ Cardinality(E \cup FF) \in Nat /\ Cardinality(E \cup FF) <= 2 * k + 3
  <2>0. /\ IsFiniteSet(E) /\ Cardinality(E) \in Nat /\ Cardinality(E) <= 2 * k + 1
        /\ IsFiniteSet(FF) /\ Cardinality(FF) <= 2 /\ Cardinality(FF) \in Nat
    BY <1>7, <1>8 DEF E, FF
  <2>1. IsFiniteSet(E \cup FF) /\ Cardinality(E \cup FF) = Cardinality(E) + Cardinality(FF) - Cardinality(E \cap FF)
    BY <2>0, FS_Union
  <2>2. Cardinality(E \cap FF) \in Nat /\ Cardinality(E \cup FF) \in Nat
    BY <2>0, <2>1, FS_Subset, FS_CardinalityType
  <2> QED
    BY <1>3, <2>0, <2>1, <2>2
<1>10. L \in SUBSET (E \cup FF)
  BY <1>4 DEF E, FF
<1>11. IsFiniteSet(L) /\ Cardinality(L) <= Cardinality(E \cup FF) /\ Cardinality(L) \in Nat
  BY <1>9, <1>10, FS_Subset, FS_CardinalityType
<1>12. Cardinality(L) <= MaxOpBlocks - 1
  BY <1>3, <1>9, <1>11
<1> QED
  BY <1>11, <1>12 DEF L

\* filewrite()'s chunks fit the log: ChunkFitsLog for every offset and size of a write, every
\* size of blocks and bitmap blocks and every limit of blocks per operation of at least 6.
THEOREM ChunksFitLog == DataSpec => []ChunkFitsLog
<1>1. DataInv => ChunkFitsLog
  <2> SUFFICES ASSUME DataInv, NEW d \in Opens
               PROVE  Cardinality(wr[d].logged) +
                        (IF wr[d].pc = "end" /\ wr[d].pos > len[InodeOf[d]] THEN 1 ELSE 0) <= MaxOpBlocks
    BY DEF ChunkFitsLog
  <2>1. CASE wr[d].pc \in Active
    BY <2>1, LoggedCount
  <2>2. CASE wr[d].pc \notin Active
    <3>1. wr[d].logged = {} /\ wr[d].pc # "end"
      BY <2>2 DEF DataInv, Chunks, ChunkOf, Active
    <3> QED
      BY <3>1, FS_EmptySet
  <2> QED
    BY <2>1, <2>2
<1> QED
  BY <1>1, DataInvariance, PTL

-----------------------------------------------------------------------------
(* The words of files.                                                      *)

\* A word of a file, or one just written, has a block.
LEMMA Placed ==
  ASSUME DataInv, NEW j \in Inodes, held[j] # "itrunc", NEW k \in Nat,
         k < len[j] \/ \E d \in Opens : InodeOf[d] = j /\ wr[d].pc \in Active /\ k < wr[d].pos
  PROVE  LET q == k \div BSIZE IN
         /\ q \in 0 .. MAXFILE - 1 /\ q \in 0 .. MAXFILE /\ k % BSIZE \in 0 .. BSIZE - 1
         /\ Lookup(j, q) \in DataBlocks /\ Has(j, q, Lookup(j, q))
<1> DEFINE q == k \div BSIZE
<1>0. DataType /\ Indirect /\ Covered /\ Chunks /\ Locking
  BY DEF DataInv
<1>1. q \in Nat /\ q * BSIZE <= k /\ q * BSIZE \in Nat /\ k % BSIZE \in 0 .. BSIZE - 1
      /\ \A m \in Nat : k < m * BSIZE => q < m
  BY BlockOf, Multiples
<1> HIDE DEF q
<1>2. CoverOf(j) /\ len[j] \in Nat /\ slot[j] = 0
  BY <1>0 DEF Covered, DataType, Locking
<1>3. k < MAXFILE * BSIZE /\ (q \in 0 .. MAXFILE - 1 => Lookup(j, q) # 0)
  <2>1. CASE k < len[j]
    BY <1>1, <1>2, <2>1, Sizes DEF CoverOf
  <2>2. ASSUME NEW d \in Opens, InodeOf[d] = j, wr[d].pc \in Active, k < wr[d].pos
        PROVE  k < MAXFILE * BSIZE /\ (q \in 0 .. MAXFILE - 1 => Lookup(j, q) # 0)
    <3>1. wr[d].pos \in Nat /\ off[d] \in Nat /\ wr[d].n \in Nat
          /\ wr[d].pos <= off[d] + wr[d].n /\ off[d] + wr[d].n <= MAXFILE * BSIZE
      BY <1>0, <2>2, CallFields DEF Chunks, ChunkOf
    <3>2. q * BSIZE < wr[d].pos /\ k < MAXFILE * BSIZE
      BY <1>1, <2>2, <3>1, Sizes
    <3> QED
      BY <1>0, <2>2, <3>2 DEF Covered, WrittenTo
  <2> QED
    BY <2>1, <2>2
<1>4. q \in 0 .. MAXFILE - 1 /\ q \in 0 .. MAXFILE
  BY <1>1, <1>3, Sizes
<1>5. Lookup(j, q) \in DataBlocks /\ Has(j, q, Lookup(j, q))
  BY <1>0, <1>2, <1>3, <1>4, HasFacts
<1> QED
  BY <1>1, <1>4, <1>5 DEF q

LEMMA InstallStore ==
  ASSUME DataInv, NEW d \in Opens, Install(d), NEW c \in DataBlocks,
         c # wr[d].new, c # addrs[InodeOf[d]][NDIRECT]
  PROVE  store'[c] = store[c]
<1>1. DOMAIN store = DataBlocks
  BY DEF DataInv, DataType
<1> QED
  BY <1>1 DEF Install

LEMMA CopyStore ==
  ASSUME DataInv, NEW d \in Opens, Copy(d), NEW c \in DataBlocks
  PROVE  /\ c # Lookup(InodeOf[d], wr[d].pos \div BSIZE) => store'[c] = store[c]
         /\ c = Lookup(InodeOf[d], wr[d].pos \div BSIZE) => \A k \in 0 .. BSIZE - 1 :
              store'[c][k] = IF k >= wr[d].pos % BSIZE /\ k < (wr[d].pos % BSIZE) + Round(d)
                             THEN WordOf[d] ELSE store[c][k]
<1>1. DOMAIN store = DataBlocks
  BY DEF DataInv, DataType
<1> DEFINE b == Lookup(InodeOf[d], wr[d].pos \div BSIZE)
<1>2. store' = Copied(d, b) /\ b \in DataBlocks
  BY CopyFacts DEF Copy
<1> HIDE DEF b
<1>3. store' = [store EXCEPT ![b] = [k \in 0 .. BSIZE - 1 |->
        IF k >= wr[d].pos % BSIZE /\ k < (wr[d].pos % BSIZE) + Round(d) THEN WordOf[d] ELSE store[b][k]]]
  BY <1>2 DEF Copied
<1>4. c # b => store'[c] = store[c]
  BY <1>1, <1>2, <1>3
<1>5. store'[b] = [k \in 0 .. BSIZE - 1 |->
        IF k >= wr[d].pos % BSIZE /\ k < (wr[d].pos % BSIZE) + Round(d) THEN WordOf[d] ELSE store[b][k]]
  BY <1>1, <1>2, <1>3
<1>6. \A k \in 0 .. BSIZE - 1 :
        store'[b][k] = IF k >= wr[d].pos % BSIZE /\ k < (wr[d].pos % BSIZE) + Round(d)
                       THEN WordOf[d] ELSE store[b][k]
  BY <1>5
<1> QED
  BY <1>4, <1>6 DEF b

\* A new block is in nobody's way.
LEMMA InstallWord ==
  ASSUME DataInv, NEW d \in Opens, Install(d), NEW j \in Inodes, NEW k \in Nat,
         k \div BSIZE \in 0 .. MAXFILE - 1, Lookup(j, k \div BSIZE) \in DataBlocks,
         Has(j, k \div BSIZE, Lookup(j, k \div BSIZE))
  PROVE  Word(j, k)' = Word(j, k)
<1> PICK q : q = k \div BSIZE
  OBVIOUS
<1> PICK c : c = Lookup(j, q)
  OBVIOUS
<1> DEFINE i == InodeOf[d]
<1>0. DataType /\ Indirect /\ Owned
  BY DEF DataInv
<1>1. /\ i \in Inodes /\ Lookup(i, Missing(d)) = 0 /\ wr[d].new \in DataBlocks
  BY InstallFacts
<1>2. q \in 0 .. MAXFILE /\ q # MAXFILE /\ c \in DataBlocks /\ Has(j, q, c) /\ c # 0
  BY Sizes
<1>3. c # wr[d].new
  BY <1>0, <1>2 DEF Owned
<1>4. c # addrs[i][NDIRECT]
  <2>1. CASE c = addrs[i][NDIRECT]
    <3>1. Has(i, MAXFILE, c)
      BY <1>0, <1>1, <1>2, <2>1, HasFacts
    <3>2. q = MAXFILE
      BY <1>0, <1>1, <1>2, <3>1, Sizes DEF Owned
    <3> QED
      BY <1>2, <3>2
  <2> QED
    BY <2>1
<1>5. store'[c] = store[c]
  BY <1>2, <1>3, <1>4, InstallStore
<1>6. ~(j = i /\ q = Missing(d))
  BY <1>1, <1>2
<1>7. Lookup(j, q)' = c
  BY <1>2, <1>6, InstallLookup
<1> QED
  BY <1>5, <1>7 DEF Word

\* A round of writei() changes its words and no other.
LEMMA CopyWord ==
  ASSUME DataInv, NEW d \in Opens, Copy(d), NEW j \in Inodes, NEW k \in Nat,
         k \div BSIZE \in 0 .. MAXFILE - 1, Lookup(j, k \div BSIZE) \in DataBlocks,
         Has(j, k \div BSIZE, Lookup(j, k \div BSIZE))
  PROVE  Word(j, k)' = IF j = InodeOf[d] /\ wr[d].pos <= k /\ k < wr[d].pos + Round(d)
                       THEN WordOf[d] ELSE Word(j, k)
<1> PICK q : q = k \div BSIZE
  OBVIOUS
<1> PICK c : c = Lookup(j, q)
  OBVIOUS
<1> PICK p : p = wr[d].pos
  OBVIOUS
<1> PICK r : r = Round(d)
  OBVIOUS
<1> DEFINE i == InodeOf[d]
           b == Lookup(i, p \div BSIZE)
<1>0. DataType /\ Indirect /\ Owned /\ Locking /\ Chunks /\ wr[d].pc = "bmap"
  BY DEF DataInv, Copy
<1>1. i \in Inodes /\ p \div BSIZE \in 0 .. MAXFILE - 1 /\ b \in DataBlocks /\ Has(i, p \div BSIZE, b)
  BY CopyFacts
<1>2. q \in 0 .. MAXFILE - 1 /\ q \in 0 .. MAXFILE /\ c \in DataBlocks /\ Has(j, q, c) /\ p \div BSIZE \in 0 .. MAXFILE
  BY <1>1, Sizes
<1>3. Lookup(j, q)' = c
  BY <1>2, CopyLookup
<1>4. p \in Nat /\ r \in Nat /\ r > 0 /\ (p % BSIZE) + r <= BSIZE
  BY <1>0, RoundFacts, CallFields
<1>5. /\ p = (p \div BSIZE) * BSIZE + (p % BSIZE) /\ p % BSIZE \in 0 .. BSIZE - 1 /\ p \div BSIZE \in Nat
      /\ k = q * BSIZE + (k % BSIZE) /\ k % BSIZE \in 0 .. BSIZE - 1 /\ q \in Nat
  BY <1>4, BlockOf
<1>6. CASE c # b
  <2>1. store'[c] = store[c]
    BY <1>2, <1>6, CopyStore
  <2>2. Word(j, k)' = Word(j, k)
    BY <1>3, <2>1 DEF Word
  <2>3. ~(j = i /\ p <= k /\ k < p + r)
    <3> SUFFICES ASSUME j = i, p <= k, k < p + r PROVE FALSE
      OBVIOUS
    <3>1. q # p \div BSIZE
      BY <1>6
    <3> PICK Q : Q = p \div BSIZE
      OBVIOUS
    <3>2. q * BSIZE \in Nat /\ Q * BSIZE \in Nat /\ (q < Q => q * BSIZE + BSIZE <= Q * BSIZE)
          /\ (Q < q => Q * BSIZE + BSIZE <= q * BSIZE)
      BY <1>5, Multiples
    <3>3. q < Q \/ Q < q
      BY <1>5, <3>1
    <3> DEFINE x == q * BSIZE
               y == Q * BSIZE
               u == k % BSIZE
               v == p % BSIZE
    <3>4. /\ x \in Nat /\ y \in Nat /\ (q < Q => x + BSIZE <= y) /\ (Q < q => y + BSIZE <= x)
          /\ p = y + v /\ k = x + u /\ u \in 0 .. BSIZE - 1 /\ v \in 0 .. BSIZE - 1 /\ v + r <= BSIZE
      BY <1>4, <1>5, <3>2
    <3> HIDE DEF x, y, u, v
    <3> QED
      BY <1>4, <3>3, <3>4
  <2> QED
    BY <2>2, <2>3
<1>7. CASE c = b
  <2>1. j = i /\ q = p \div BSIZE
    BY <1>0, <1>1, <1>2, <1>7 DEF Owned
  <2>2. store'[c][k % BSIZE] = IF k % BSIZE >= p % BSIZE /\ k % BSIZE < (p % BSIZE) + r
                               THEN WordOf[d] ELSE store[c][k % BSIZE]
    BY <1>2, <1>5, <1>7, CopyStore
  <2>3. (k % BSIZE >= p % BSIZE /\ k % BSIZE < (p % BSIZE) + r) <=> (p <= k /\ k < p + r)
    <3> DEFINE x == q * BSIZE
               u == k % BSIZE
               v == p % BSIZE
    <3>1. x \in Nat /\ p = x + v /\ k = x + u /\ u \in 0 .. BSIZE - 1 /\ v \in 0 .. BSIZE - 1
      BY <1>5, <2>1, Multiples
    <3> HIDE DEF x, u, v
    <3>2. (u >= v /\ u < v + r) <=> (p <= k /\ k < p + r)
      BY <1>4, <3>1
    <3> QED
      BY <3>2 DEF u, v
  <2> QED
    BY <1>3, <2>1, <2>2, <2>3 DEF Word
<1> QED
  BY <1>6, <1>7

\* Words that do not pass the end of a block are in one.
LEMMA SameBlock ==
  ASSUME NEW p \in Nat, NEW k \in Nat, NEW r \in Nat, (p % BSIZE) + r <= BSIZE, p <= k, k < p + r
  PROVE  k \div BSIZE = p \div BSIZE
<1> DEFINE P == p \div BSIZE
           K == k \div BSIZE
<1>1. P \in Nat /\ p = P * BSIZE + (p % BSIZE) /\ p % BSIZE \in 0 .. BSIZE - 1 /\ P * BSIZE <= p /\ P * BSIZE \in Nat
  BY BlockOf, Multiples
<1>2. K \in Nat /\ K * BSIZE <= k /\ k < K * BSIZE + BSIZE /\ K * BSIZE \in Nat
  BY BlockOf, Multiples
<1> HIDE DEF P, K
<1>3. (P < K => P * BSIZE + BSIZE <= K * BSIZE) /\ (K < P => K * BSIZE + BSIZE <= P * BSIZE)
  BY <1>1, <1>2, Multiples
<1> DEFINE x == P * BSIZE
           y == K * BSIZE
           v == p % BSIZE
<1>4. /\ x \in Nat /\ y \in Nat /\ v \in 0 .. BSIZE - 1 /\ p = x + v /\ y <= k /\ k < y + BSIZE /\ v + r <= BSIZE
      /\ (P < K => x + BSIZE <= y) /\ (K < P => y + BSIZE <= x)
  BY <1>1, <1>2, <1>3
<1> HIDE DEF x, y, v
<1>5. ~(P < K) /\ ~(K < P)
  BY <1>4
<1> QED
  BY <1>1, <1>2, <1>5 DEF P, K

\* Word k of inode j counts: it is in the file, or just written to it.
Live(j, k) ==
  /\ held[j] # "itrunc"
  /\ k < len[j] \/ \E d \in Opens : InodeOf[d] = j /\ wr[d].pc \in Active /\ k < wr[d].pos

\* The files other than I keep their words.
Kept(I) ==
  \A j \in Inodes \ I : before'[j] = before[j] /\ \A k \in Nat : Live(j, k) => Word(j, k)' = Word(j, k)

\* What the open files see of an inode.
View(j) == IF held[j] = "none" THEN Content(j) ELSE before[j]

LEMMA SequenceOf ==
  ASSUME NEW n \in Nat, NEW S, NEW f \in [1 .. n -> S]
  PROVE  f \in Seq(S) /\ Len(f) = n
OBVIOUS

LEMMA ContentFacts ==
  ASSUME DataType, NEW j \in Inodes
  PROVE  /\ Content(j) = [k \in 1 .. len[j] |-> Word(j, k - 1)]
         /\ Len(Content(j)) = len[j] /\ \A k \in Nat : k < len[j] => Content(j)[k + 1] = Word(j, k)
<1>0. len[j] \in Nat
  BY DEF DataType
<1>1. Content(j) = [k \in 1 .. len[j] |-> Word(j, k - 1)]
  BY DEF Content, Word
<1> DEFINE S == {Word(j, k - 1) : k \in 1 .. len[j]}
<1>2. Content(j) \in [1 .. len[j] -> S]
  BY <1>1
<1> HIDE DEF S
<1>3. Len(Content(j)) = len[j]
  BY <1>0, <1>2, SequenceOf
<1>4. ASSUME NEW k \in Nat, k < len[j] PROVE Content(j)[k + 1] = Word(j, k)
  <2>1. k + 1 \in 1 .. len[j] /\ (k + 1) - 1 = k
    BY <1>0, <1>4
  <2> QED
    BY <1>1, <2>1
<1> QED
  BY <1>1, <1>3, <1>4

LEMMA ViewLeft ==
  ASSUME DataInv, DataType', NEW I, NEW d, Frame(I, d), Kept(I), NEW j \in Inodes, j \notin I
  PROVE  View(j)' = View(j)
<1>0. DataType
  BY DEF DataInv
<1>1. held'[j] = held[j] /\ len'[j] = len[j] /\ before'[j] = before[j] /\ len[j] \in Nat
  BY <1>0 DEF Frame, Kept, DataType
<1>2. CASE held[j] # "none"
  BY <1>1, <1>2 DEF View
<1>3. CASE held[j] = "none"
  <2>1. \A k \in 1 .. len[j] : k - 1 \in Nat /\ k - 1 < len[j]
    BY <1>1
  <2>2. \A k \in 1 .. len[j] : Word(j, k - 1)' = Word(j, k - 1)
    BY <1>3, <2>1 DEF Kept, Live
  <2>3. Content(j) = [k \in 1 .. len[j] |-> Word(j, k - 1)]
    BY <1>0, ContentFacts
  <2>4. Content(j)' = [k \in 1 .. len'[j] |-> Word(j, k - 1)']
    BY DEF Content, Word
  <2>5. Content(j)' = Content(j)
    BY <1>1, <2>2, <2>3, <2>4
  <2> QED
    BY <1>1, <1>3, <2>5 DEF View
<1> QED
  BY <1>2, <1>3

LEMMA WritingLeft ==
  ASSUME DataInv, Writing, NEW I, NEW d, Frame(I, d), Kept(I), NEW e \in Opens, e # d
  PROVE  WritingOf(e)'
<1> DEFINE i == InodeOf[e]
<1>0. DataType /\ Locking
  BY DEF DataInv
<1>1. wr'[e] = wr[e] /\ (i \notin I => off'[e] = off[e]) /\ i \in Inodes
  BY <1>0, CallFields DEF Frame
<1>2. CASE wr[e].pc \notin Active
  BY <1>1, <1>2 DEF WritingOf
<1>3. CASE wr[e].pc \in Active
  <2>1. held[i] = e
    BY <1>0, <1>3 DEF Locking
  <2>2. i \notin I /\ held[i] # "itrunc"
    BY <2>1 DEF Frame
  <2>3. len'[i] = len[i] /\ before'[i] = before[i] /\ off'[e] = off[e]
    BY <1>1, <2>2 DEF Frame, Kept
  <2>4. \A k \in Nat : k < len[i] \/ k < wr[e].pos => Word(i, k)' = Word(i, k)
    BY <1>1, <1>3, <2>2 DEF Kept, Live
  <2>5. WritingOf(e)
    BY DEF Writing
  <2>6. \A k \in Nat : k < len[i] \/ k < wr[e].pos =>
          Word(i, k)' = IF off[e] <= k /\ k < wr[e].pos THEN WordOf[e] ELSE before[i][k + 1]
    BY <1>3, <2>4, <2>5 DEF WritingOf
  <2>7. Len(before[i]) = len[i]
    BY <1>3, <2>5 DEF WritingOf
  <2> QED
    BY <1>1, <2>3, <2>6, <2>7 DEF WritingOf
<1> QED
  BY <1>2, <1>3

LEMMA KeptSame ==
  ASSUME DataInv, NEW I, store' = store, addrs' = addrs, \A j \in Inodes \ I : before'[j] = before[j]
  PROVE  Kept(I)
BY LookupSame DEF Kept, Word

\* Every step keeps the words of the files it is not about.
LEMMA KeptSteps ==
  ASSUME DataInv
  PROVE  /\ \A d \in Opens : \A n \in 1 .. MaxWrite : FileRead(d, n) => Kept({})
         /\ \A d \in Opens : \A n \in 1 .. MaxWrite : StartWrite(d, n) => Kept({})
         /\ \A d \in Opens : Chunk(d) => Kept({InodeOf[d]})
         /\ \A d \in Opens : Balloc(d) \/ Install(d) \/ EndChunk(d) => Kept({})
         /\ \A d \in Opens : Copy(d) => Kept({InodeOf[d]})
         /\ \A i \in Inodes : StartTrunc(i) \/ TruncRound(i) \/ EndTrunc(i) => Kept({i})
<1>0. DataType /\ Locking
  BY DEF DataInv
<1>1. ASSUME NEW d \in Opens, NEW n \in 1 .. MaxWrite, FileRead(d, n) PROVE Kept({})
  BY <1>1, KeptSame DEF FileRead
<1>2. ASSUME NEW d \in Opens, NEW n \in 1 .. MaxWrite, StartWrite(d, n) PROVE Kept({})
  BY <1>2, KeptSame DEF StartWrite
<1>3. ASSUME NEW d \in Opens, Chunk(d) PROVE Kept({InodeOf[d]})
  BY <1>0, <1>3, KeptSame, CallType DEF Chunk
<1>4. ASSUME NEW d \in Opens, Balloc(d) \/ EndChunk(d) PROVE Kept({})
  BY <1>4, KeptSame DEF Balloc, EndChunk
<1>5. ASSUME NEW d \in Opens, Install(d) PROVE Kept({})
  <2>1. before' = before
    BY <1>5 DEF Install
  <2>2. ASSUME NEW j \in Inodes, NEW k \in Nat, Live(j, k) PROVE Word(j, k)' = Word(j, k)
    <3>1. /\ k \div BSIZE \in 0 .. MAXFILE - 1 /\ Lookup(j, k \div BSIZE) \in DataBlocks
          /\ Has(j, k \div BSIZE, Lookup(j, k \div BSIZE))
      BY <2>2, Placed DEF Live
    <3> QED
      BY <1>5, <3>1, InstallWord
  <2> QED
    BY <2>1, <2>2 DEF Kept
<1>6. ASSUME NEW d \in Opens, Copy(d) PROVE Kept({InodeOf[d]})
  <2>1. before' = before
    BY <1>6 DEF Copy
  <2>2. ASSUME NEW j \in Inodes, j # InodeOf[d], NEW k \in Nat, Live(j, k) PROVE Word(j, k)' = Word(j, k)
    <3>1. /\ k \div BSIZE \in 0 .. MAXFILE - 1 /\ Lookup(j, k \div BSIZE) \in DataBlocks
          /\ Has(j, k \div BSIZE, Lookup(j, k \div BSIZE))
      BY <2>2, Placed DEF Live
    <3> QED
      BY <1>6, <2>2, <3>1, CopyWord
  <2> QED
    BY <2>1, <2>2 DEF Kept
<1>7. ASSUME NEW i \in Inodes, StartTrunc(i) \/ EndTrunc(i) PROVE Kept({i})
  BY <1>0, <1>7, KeptSame, CallType DEF StartTrunc, EndTrunc
<1>8. ASSUME NEW i \in Inodes, TruncRound(i) PROVE Kept({i})
  <2>1. before' = before /\ store' = store
    BY <1>8 DEF TruncRound
  <2>2. ASSUME NEW j \in Inodes, j # i, NEW k \in Nat, Live(j, k) PROVE Word(j, k)' = Word(j, k)
    <3>1. k \div BSIZE \in 0 .. MAXFILE
      BY <2>2, Placed DEF Live
    <3>2. Lookup(j, k \div BSIZE)' = Lookup(j, k \div BSIZE)
      BY <1>8, <2>2, <3>1, TruncLookup
    <3> QED
      BY <2>1, <3>2 DEF Word
  <2> QED
    BY <2>1, <2>2 DEF Kept
<1> QED
  BY <1>1, <1>2, <1>3, <1>4, <1>5, <1>6, <1>7, <1>8

LEMMA WritingStep ==
  ASSUME DataInv, DataType', Writing, [DataNext]_fileVars
  PROVE  Writing'
<1>0. DataType /\ Locking /\ Chunks
  BY DEF DataInv
<1>1. ASSUME NEW I, NEW d \in Opens, Frame(I, d), Kept(I), WritingOf(d)' PROVE Writing'
  BY <1>1, WritingLeft DEF Writing
<1>2. ASSUME NEW I, Frame(I, "none"), Kept(I) PROVE Writing'
  BY <1>2, WritingLeft DEF Writing
<1>20. ASSUME NEW I, Kept({}) PROVE Kept(I)
  BY <1>20 DEF Kept
<1>3. ASSUME NEW d \in Opens, NEW n \in 1 .. MaxWrite, FileRead(d, n) PROVE Writing'
  <2>1. Frame({InodeOf[d]}, d) /\ wr'[d].pc = "idle" /\ Kept({InodeOf[d]})
    BY <1>3, <1>20, ReadEffect, KeptSteps
  <2> QED
    BY <1>1, <2>1 DEF WritingOf, Active
<1>4. ASSUME NEW d \in Opens, NEW n \in 1 .. MaxWrite, StartWrite(d, n) PROVE Writing'
  <2>1. Frame({}, d) /\ wr'[d].pc = "chunk" /\ Kept({})
    BY <1>4, StartEffect, KeptSteps
  <2> QED
    BY <1>1, <2>1 DEF WritingOf, Active
<1>5. ASSUME NEW d \in Opens, Chunk(d) PROVE Writing'
  <2> DEFINE i == InodeOf[d]
  <2>1. Frame({i}, d) /\ Kept({i}) /\ UNCHANGED <<store, addrs, len, off>>
    BY <1>5, ChunkEffect, KeptSteps
  <2>2. CASE wr'[d].pc = "idle"
    BY <1>1, <2>1, <2>2 DEF WritingOf, Active
  <2>3. CASE /\ wr'[d].pos = off[d] /\ off[d] <= len[i] /\ before' = [before EXCEPT ![i] = Content(i)]
    <3>1. off[d] \in Nat /\ len[i] \in Nat /\ i \in Inodes
      BY <1>0, CallFields
    <3>2. before'[i] = Content(i)
      BY <1>0, <2>3, <3>1, CallType
    <3>3. Len(Content(i)) = len[i] /\ \A k \in Nat : k < len[i] => Content(i)[k + 1] = Word(i, k)
      BY <1>0, <3>1, ContentFacts
    <3>4. \A k : Word(i, k)' = Word(i, k)
      BY <2>1 DEF Word, Lookup
    <3>5. \A k \in Nat : k < len[i] \/ k < off[d] => Word(i, k)' = before'[i][k + 1]
      BY <2>3, <3>1, <3>2, <3>3, <3>4
    <3>6. \A k \in Nat : ~(off[d] <= k /\ k < off[d])
      BY <3>1
    <3>7. WritingOf(d)'
      BY <2>1, <2>3, <3>2, <3>3, <3>5, <3>6 DEF WritingOf
    <3> QED
      BY <1>1, <2>1, <3>7
  <2> QED
    BY <1>5, <2>2, <2>3, ChunkEffect
<1>6. ASSUME NEW d \in Opens, Balloc(d) \/ Install(d) PROVE Writing'
  <2> DEFINE i == InodeOf[d]
  <2>1. /\ Frame({i}, d) /\ UNCHANGED <<len, off, before>> /\ wr'[d].pos = wr[d].pos /\ wr[d].pc \in Active
    BY <1>6, BallocEffect, InstallEffect DEF Active
  <2>2. Kept({}) /\ i \in Inodes /\ held[i] # "itrunc"
    BY <1>0, <1>6, <2>1, KeptSteps DEF Locking
  <2>3. \A k \in Nat : k < len[i] \/ k < wr[d].pos => Word(i, k)' = Word(i, k)
    BY <2>1, <2>2 DEF Kept, Live
  <2>4. WritingOf(d)
    BY DEF Writing
  <2>5. WritingOf(d)'
    BY <2>1, <2>3, <2>4 DEF WritingOf
  <2> QED
    BY <1>1, <1>20, <2>1, <2>2, <2>5
<1>7. ASSUME NEW d \in Opens, Copy(d) PROVE Writing'
  <2> DEFINE i == InodeOf[d]
  <2> PICK r : r = Round(d)
    OBVIOUS
  <2> PICK p : p = wr[d].pos
    OBVIOUS
  <2>1. Frame({i}, d) /\ Kept({i}) /\ UNCHANGED <<len, off, before>> /\ wr'[d].pos = p + r /\ wr[d].pc = "bmap"
    BY <1>7, CopyEffect, KeptSteps
  <2>2. i \in Inodes /\ held[i] # "itrunc"
    BY <1>7, CopyFacts
  <2>3. r \in Nat /\ p \in Nat /\ off[d] \in Nat /\ off[d] <= p /\ wr[d].pc \in Active /\ r > 0
        /\ (p % BSIZE) + r <= BSIZE /\ p + r <= off[d] + wr[d].n /\ len[i] \in Nat
    <3>1. r \in Nat /\ r > 0 /\ (p % BSIZE) + r <= BSIZE /\ p + r <= off[d] + wr[d].n
      BY <2>1, RoundFacts DEF DataInv
    <3>2. p \in Nat /\ off[d] \in Nat /\ len[i] \in Nat
      BY <1>0, CallFields
    <3>3. off[d] <= p /\ wr[d].pc \in Active
      BY <1>0, <2>1 DEF Chunks, ChunkOf, Active
    <3> QED
      BY <3>1, <3>2, <3>3
  <2>4. WritingOf(d)
    BY DEF Writing
  <2>5. ASSUME NEW k \in Nat, k < len[i] \/ k < p + r
        PROVE  Word(i, k)' = IF p <= k /\ k < p + r THEN WordOf[d] ELSE Word(i, k)
    <3>1. /\ k \div BSIZE \in 0 .. MAXFILE - 1 /\ Lookup(i, k \div BSIZE) \in DataBlocks
          /\ Has(i, k \div BSIZE, Lookup(i, k \div BSIZE))
      <4>1. CASE k < len[i] \/ k < p
        BY <2>2, <2>3, <4>1, Placed
      <4>2. CASE p <= k /\ k < p + r
        <5>1. k \div BSIZE = p \div BSIZE
          BY <2>3, <4>2, SameBlock
        <5> QED
          BY <1>7, <5>1, CopyFacts
      <4> QED
        BY <2>3, <2>5, <4>1, <4>2
    <3> QED
      BY <1>7, <2>2, <3>1, CopyWord
  <2>6. ASSUME NEW k \in Nat, k < len[i] \/ k < p + r
        PROVE  Word(i, k)' = IF off[d] <= k /\ k < p + r THEN WordOf[d] ELSE before[i][k + 1]
    <3>1. CASE p <= k /\ k < p + r
      BY <2>3, <2>5, <2>6, <3>1
    <3>2. CASE ~(p <= k /\ k < p + r)
      <4>1. Word(i, k)' = Word(i, k) /\ (k < len[i] \/ k < p)
        BY <2>3, <2>5, <2>6, <3>2
      <4>2. Word(i, k) = IF off[d] <= k /\ k < p THEN WordOf[d] ELSE before[i][k + 1]
        BY <2>3, <2>4, <4>1 DEF WritingOf
      <4> QED
        BY <2>3, <3>2, <4>1, <4>2
    <3> QED
      BY <3>1, <3>2
  <2>7. WritingOf(d)'
    BY <2>1, <2>3, <2>4, <2>6 DEF WritingOf
  <2> QED
    BY <1>1, <2>1, <2>7
<1>8. ASSUME NEW d \in Opens, EndChunk(d) PROVE Writing'
  <2>1. Frame({InodeOf[d]}, d) /\ wr'[d].pc \in {"idle", "chunk"} /\ Kept({InodeOf[d]})
    BY <1>8, <1>20, EndEffect, KeptSteps
  <2> QED
    BY <1>1, <2>1 DEF WritingOf, Active
<1>9. ASSUME NEW i \in Inodes, StartTrunc(i) \/ TruncRound(i) \/ EndTrunc(i) PROVE Writing'
  BY <1>2, <1>9, TruncEffect, KeptSteps
<1>10. CASE UNCHANGED fileVars
  <2>1. Frame({}, "none")
    BY <1>10 DEF Frame, fileVars, Lookup
  <2>2. Kept({})
    BY <1>10, KeptSame DEF fileVars
  <2> QED
    BY <1>2, <2>1, <2>2
<1> QED
  BY <1>3, <1>4, <1>5, <1>6, <1>7, <1>8, <1>9, <1>10 DEF DataNext

-----------------------------------------------------------------------------
(* Blocks implement plain files.                                            *)

LEMMA ViewIs ==
  [i \in Inodes |-> IF held[i] = "none" THEN Content(i) ELSE before[i]] = [i \in Inodes |-> View(i)]
BY DEF View

\* A step after which every file is as before.
LEMMA FilesStutter ==
  ASSUME \A i \in Inodes : View(i)' = View(i), off' = off
  PROVE  UNCHANGED Files!filesVars
<1>1. [i \in Inodes |-> View(i)'] = [i \in Inodes |-> View(i)]
  OBVIOUS
<1>2. [i \in Inodes |-> IF held[i] = "none" THEN Content(i) ELSE before[i]]'
      = [i \in Inodes |-> IF held[i] = "none" THEN Content(i) ELSE before[i]]
  BY <1>1 DEF View
<1> QED
  BY <1>2 DEF Files!filesVars

\* Everything but the inode of the step, and that one too while it is locked.
LEMMA ViewLocked ==
  ASSUME DataInv, DataType', NEW d, NEW i \in Inodes, Frame({i}, d), Kept({i}),
         held'[i] # "none", IF held[i] = "none" THEN before'[i] = Content(i) ELSE before'[i] = before[i],
         NEW j \in Inodes
  PROVE  View(j)' = View(j)
<1>1. CASE j # i
  BY <1>1, ViewLeft
<1>2. CASE j = i
  BY <1>2 DEF View
<1> QED
  BY <1>1, <1>2

\* The end of a chunk is the abstract write.
LEMMA EndIsWritten ==
  ASSUME DataInv, DataType', Writing, NEW d \in Opens, EndChunk(d)
  PROVE  Files!Written(d)
<1> DEFINE i == InodeOf[d]
           FF == [j \in Inodes |-> IF held[j] = "none" THEN Content(j) ELSE before[j]]
<1>0. DataType /\ Chunks
  BY DEF DataInv
<1>1. /\ Frame({i}, d) /\ UNCHANGED <<store, addrs, before>>
      /\ wr[d].pc = "end" /\ i \in Inodes /\ held[i] = d
      /\ off' = [off EXCEPT ![d] = wr[d].pos] /\ held' = [held EXCEPT ![i] = "none"]
      /\ len' = [len EXCEPT ![i] = IF @ >= wr[d].pos THEN @ ELSE wr[d].pos]
  BY EndEffect
<1> DEFINE n == wr[d].n
           x == off[d]
<1>2. /\ n \in Nat /\ n > 0 /\ x \in Nat /\ wr[d].pos = x + n /\ x + n <= MAXFILE * BSIZE /\ len[i] \in Nat
  BY <1>0, <1>1, CallFields DEF Chunks, ChunkOf, Active
<1>3. n \in 1 .. MAXFILE * BSIZE - off[d]
  BY <1>2, Sizes
<1>4. Len(before[i]) = len[i] /\
      \A k \in Nat : k < len[i] \/ k < x + n => Word(i, k) = IF x <= k /\ k < x + n THEN WordOf[d] ELSE before[i][k + 1]
  BY <1>1, <1>2 DEF Writing, WritingOf, Active
<1>5. held'[i] = "none" /\ len'[i] = IF len[i] >= x + n THEN len[i] ELSE x + n
  BY <1>0, <1>1, <1>2, CallType
<1>6. Kept({})
  BY KeptSteps
<1>7. \A j \in Inodes : j # i => View(j)' = View(j)
  <2>1. Kept({i})
    BY <1>6 DEF Kept
  <2> QED
    BY <1>1, <2>1, ViewLeft
<1>8. FF[i] = before[i]
  BY <1>1
<1>9. Content(i)' = [k \in 1 .. len'[i] |-> Word(i, k - 1)]
  <2>1. Content(i)' = [k \in 1 .. len'[i] |-> Word(i, k - 1)']
    BY DEF Content, Word
  <2>2. \A k : Word(i, k)' = Word(i, k)
    BY <1>1 DEF Word, Lookup
  <2> QED
    BY <2>1, <2>2
<1> HIDE DEF n, x, i
<1> DEFINE G == [k \in 1 .. (IF x + n > Len(before[i]) THEN x + n ELSE Len(before[i])) |->
                   IF k > x /\ k <= x + n THEN WordOf[d] ELSE before[i][k]]
<1>10. Content(i)' = G
  <2>1. len'[i] = IF x + n > Len(before[i]) THEN x + n ELSE Len(before[i])
    BY <1>2, <1>4, <1>5
  <2>2. ASSUME NEW k \in 1 .. len'[i] PROVE Word(i, k - 1) = IF k > x /\ k <= x + n THEN WordOf[d] ELSE before[i][k]
    <3>1. k \in Nat /\ k - 1 \in Nat /\ (k - 1 < len[i] \/ k - 1 < x + n) /\ (k - 1) + 1 = k
      BY <1>2, <1>5
    <3>2. Word(i, k - 1) = IF x <= k - 1 /\ k - 1 < x + n THEN WordOf[d] ELSE before[i][(k - 1) + 1]
      BY <1>4, <3>1
    <3> QED
      BY <1>2, <3>1, <3>2
  <2> QED
    BY <1>9, <2>1, <2>2
<1> DEFINE H == [FF EXCEPT ![i] = G]
<1>11. FF' = H
  <2>1. FF' = [j \in Inodes |-> View(j)']
    BY DEF View
  <2>2. FF = [j \in Inodes |-> View(j)]
    BY DEF View
  <2>3. View(i)' = G
    BY <1>5, <1>10 DEF View, i
  <2> HIDE DEF G, FF
  <2> QED
    BY <1>1, <1>7, <2>1, <2>2, <2>3 DEF i
<1>12. G = Files!Overwritten(FF[i], off[d], n, WordOf[d])
  BY <1>8 DEF Files!Overwritten, x
<1>13. off' = [off EXCEPT ![d] = off[d] + n]
  BY <1>1, <1>2 DEF x
<1> HIDE DEF G, FF
<1> QED
  BY <1>3, <1>11, <1>12, <1>13 DEF Files!Written, FF, i

LEMMA ReadIsRead ==
  ASSUME DataInv, DataType', NEW d \in Opens, NEW n \in 1 .. MaxWrite, FileRead(d, n)
  PROVE  Files!Read(d)
<1> DEFINE i == InodeOf[d]
           FF == [j \in Inodes |-> IF held[j] = "none" THEN Content(j) ELSE before[j]]
<1>0. DataType
  BY DEF DataInv
<1>1. /\ UNCHANGED <<store, addrs, len, held, before>> /\ held[i] = "none"
      /\ off' = [off EXCEPT ![d] = Min({off[d] + n, len[i]})]
  BY DEF FileRead
<1>2. i \in Inodes /\ off[d] \in Nat /\ len[i] \in Nat
  BY <1>0, CallFields
<1>3. Min({off[d] + n, len[i]}) \in 0 .. len[i]
  BY <1>2, Min2
<1>4. FF[i] = Content(i) /\ Len(Content(i)) = len[i]
  BY <1>0, <1>1, <1>2, ContentFacts
<1>5. FF' = FF
  BY <1>1 DEF Content, Lookup
<1>6. Min({off[d] + n, len[i]}) \in 0 .. Len(FF[i])
  BY <1>3, <1>4
<1> HIDE DEF FF
<1> QED
  BY <1>1, <1>5, <1>6 DEF Files!Read, FF

LEMMA EndIsEmptied ==
  ASSUME DataInv, DataType', NEW i \in Inodes, EndTrunc(i)
  PROVE  Files!Emptied(i)
<1> DEFINE FF == [j \in Inodes |-> IF held[j] = "none" THEN Content(j) ELSE before[j]]
<1>0. DataType
  BY DEF DataInv
<1>1. len'[i] = 0 /\ held'[i] = "none" /\ off' = [d \in Opens |-> IF InodeOf[d] = i THEN 0 ELSE off[d]]
  BY <1>0, CallType DEF EndTrunc
<1>2. \A j \in Inodes : j # i => View(j)' = View(j)
  <2>1. Frame({i}, "none") /\ Kept({i})
    BY TruncEffect, KeptSteps
  <2> QED
    BY <2>1, ViewLeft
<1>3. View(i)' = <<>>
  <2>1. Content(i)' = [k \in 1 .. len'[i] |-> Word(i, k - 1)']
    BY DEF Content, Word
  <2>2. 1 .. 0 = {}
    OBVIOUS
  <2>3. Content(i)' = <<>>
    BY <1>1, <2>1, <2>2
  <2> QED
    BY <1>1, <2>3 DEF View
<1>4. FF' = [j \in Inodes |-> View(j)'] /\ FF = [j \in Inodes |-> View(j)]
  BY DEF View
<1> HIDE DEF FF
<1>5. FF' = [FF EXCEPT ![i] = <<>>]
  BY <1>2, <1>3, <1>4
<1> QED
  BY <1>1, <1>5 DEF Files!Emptied, FF

LEMMA FilesStep ==
  ASSUME DataInv, DataType', Writing, [DataNext]_fileVars
  PROVE  [Files!FilesNext]_(Files!filesVars)
<1>0. DataType /\ Locking
  BY DEF DataInv
<1>1. ASSUME NEW d \in Opens, NEW n \in 1 .. MaxWrite, FileRead(d, n) PROVE Files!FilesNext
  BY <1>1, ReadIsRead DEF Files!FilesNext
<1>2. ASSUME NEW d \in Opens, NEW n \in 1 .. MaxWrite, StartWrite(d, n) PROVE UNCHANGED Files!filesVars
  BY <1>2, StartEffect, KeptSteps, ViewLeft, FilesStutter
<1>3. ASSUME NEW d \in Opens, Chunk(d) PROVE UNCHANGED Files!filesVars
  <2> DEFINE i == InodeOf[d]
  <2>1. Frame({i}, d) /\ UNCHANGED <<store, addrs, len, off>> /\ Kept({i}) /\ i \in Inodes /\ held[i] = "none"
    BY <1>0, <1>3, ChunkEffect, KeptSteps, CallFields
  <2>2. CASE held' = held /\ before' = before
    <3>1. \A j \in Inodes : View(j)' = View(j)
      BY <2>1, <2>2 DEF View, Content, Lookup
    <3> QED
      BY <2>1, <3>1, FilesStutter
  <2>3. CASE held' = [held EXCEPT ![i] = d] /\ before' = [before EXCEPT ![i] = Content(i)]
    <3>1. held'[i] # "none" /\ before'[i] = Content(i)
      BY <1>0, <2>1, <2>3, CallType
    <3>2. \A j \in Inodes : View(j)' = View(j)
      BY <2>1, <3>1, ViewLocked
    <3> QED
      BY <2>1, <3>2, FilesStutter
  <2> QED
    BY <1>3, <2>2, <2>3, ChunkEffect
<1>4. ASSUME NEW d \in Opens, Balloc(d) \/ Install(d) PROVE UNCHANGED Files!filesVars
  <2> DEFINE i == InodeOf[d]
  <2>1. Frame({i}, d) /\ UNCHANGED <<held, off, before>> /\ Kept({}) /\ wr[d].pc \in Active
    BY <1>4, BallocEffect, InstallEffect, KeptSteps DEF Active
  <2>2. Kept({i}) /\ held[i] = d /\ i \in Inodes
    BY <1>0, <2>1 DEF Kept, Locking
  <2>3. \A j \in Inodes : View(j)' = View(j)
    BY <2>1, <2>2, ViewLocked
  <2> QED
    BY <2>1, <2>3, FilesStutter
<1>5. ASSUME NEW d \in Opens, Copy(d) PROVE UNCHANGED Files!filesVars
  <2> DEFINE i == InodeOf[d]
  <2>1. Frame({i}, d) /\ UNCHANGED <<held, off, before>> /\ Kept({i}) /\ i \in Inodes /\ held[i] = d
    BY <1>5, CopyEffect, CopyFacts, KeptSteps
  <2>2. \A j \in Inodes : View(j)' = View(j)
    BY <2>1, ViewLocked
  <2> QED
    BY <2>1, <2>2, FilesStutter
<1>6. ASSUME NEW d \in Opens, EndChunk(d) PROVE Files!FilesNext
  BY <1>6, EndIsWritten DEF Files!FilesNext
<1>7. ASSUME NEW i \in Inodes, StartTrunc(i) PROVE UNCHANGED Files!filesVars
  <2>1. Frame({i}, "none") /\ Kept({i}) /\ off' = off /\ held[i] = "none"
        /\ held'[i] # "none" /\ before'[i] = Content(i)
    BY <1>0, <1>7, TruncEffect, KeptSteps, CallType DEF StartTrunc
  <2>2. \A j \in Inodes : View(j)' = View(j)
    BY <2>1, ViewLocked
  <2> QED
    BY <2>1, <2>2, FilesStutter
<1>8. ASSUME NEW i \in Inodes, TruncRound(i) PROVE UNCHANGED Files!filesVars
  <2>1. Frame({i}, "none") /\ Kept({i}) /\ off' = off /\ held[i] = "itrunc" /\ held' = held /\ before' = before
    BY <1>8, TruncEffect, KeptSteps DEF TruncRound
  <2>2. \A j \in Inodes : View(j)' = View(j)
    BY <2>1, ViewLocked
  <2> QED
    BY <2>1, <2>2, FilesStutter
<1>9. ASSUME NEW i \in Inodes, EndTrunc(i) PROVE Files!FilesNext
  BY <1>9, EndIsEmptied DEF Files!FilesNext
<1>10. CASE UNCHANGED fileVars
  <2>1. \A j \in Inodes : View(j)' = View(j)
    BY <1>10 DEF fileVars, View, Content, Lookup
  <2> QED
    BY <1>10, <2>1, FilesStutter DEF fileVars
<1> QED
  BY <1>1, <1>2, <1>3, <1>4, <1>5, <1>6, <1>7, <1>8, <1>9, <1>10 DEF DataNext

LEMMA FilesInitially == DataInit => Files!FilesInit /\ Writing
<1> SUFFICES ASSUME DataInit PROVE Files!FilesInit /\ Writing
  OBVIOUS
<1>1. \A i \in Inodes : held[i] = "none" /\ len[i] = 0
  BY DEF DataInit
<1>2. 1 .. 0 = {}
  OBVIOUS
<1>3. \A i \in Inodes : Content(i) = <<>>
  BY <1>1, <1>2 DEF Content
<1>4. Files!FilesInit
  BY <1>1, <1>3 DEF Files!FilesInit, DataInit
<1>5. Writing
  BY DEF DataInit, NoWrite, Writing, WritingOf, Active
<1> QED
  BY <1>4, <1>5

\* bmap(), readi(), writei(), itrunc() and filewrite()'s chunks implement plain sequences of
\* words (PlainFiles), for all sizes of blocks, inodes and writes and any interleaving.
THEOREM DataImplementsFiles == DataSpec => PlainFiles
<1>1. DataInv /\ DataInv' /\ Writing /\ [DataNext]_fileVars => Writing'
  BY WritingStep DEF DataInv
<1>2. DataInv /\ DataInv' /\ Writing /\ [DataNext]_fileVars => [Files!FilesNext]_(Files!filesVars)
  BY FilesStep DEF DataInv
<1> QED
  BY <1>1, <1>2, FilesInitially, DataInvariance, PTL DEF DataSpec, PlainFiles, Files!FilesSpec
=============================================================================
