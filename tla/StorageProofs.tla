---------------------------- MODULE StorageProofs ----------------------------
(***************************************************************************)
(* Proofs about the buffer cache and the disk driver (BufCache), for any   *)
(* number of processes, blocks and buffers that leaves a buffer for each   *)
(* process, and about the file system log (Log), for any number of         *)
(* processes, blocks and log slots.                                        *)
(***************************************************************************)
EXTENDS BufCache, Log, FiniteSetTheorems, SequenceTheorems, TLAPS

USE BufCacheAssumption

-----------------------------------------------------------------------------
(* The invariant.                                                           *)

OwnerPCs == {"read", "iosleep", "iotest", "held"}

BufType ==
  /\ blockno \in [Bufs -> DiskBlocks \cup {NoBlock}]
  /\ valid \in [Bufs -> BOOLEAN] /\ bdirty \in [Bufs -> BOOLEAN]
  /\ refcnt \in [Bufs -> Nat] /\ owner \in [Bufs -> Users \cup {NoUser}]
  /\ bdata \in [Bufs -> BlockVals] /\ mru \in [Bufs -> Bufs]
  /\ idequeue \in Seq(Bufs) /\ disk \in [DiskBlocks -> BlockVals] /\ irq \in BOOLEAN
  /\ bpc \in [Users -> BufPCs] /\ cur \in [Users -> Bufs \cup {0}]

\* A process refers to a buffer from bget() to brelse(), and refcnt counts them.
UsersOf(k) == {p \in Users : cur[p] = k}

References ==
  /\ \A p \in Users : cur[p] = 0 <=> bpc[p] = "idle"
  /\ \A k \in Bufs : refcnt[k] = Cardinality(UsersOf(k))

\* The sleep lock belongs to the process that works on the buffer.
Ownership ==
  /\ \A k \in Bufs : owner[k] # NoUser => cur[owner[k]] = k /\ bpc[owner[k]] \in OwnerPCs
  /\ \A p \in Users : bpc[p] \in OwnerPCs => owner[cur[p]] = p

\* A buffer is in the queue once, while its owner waits and until it is served.
Queueing ==
  /\ \A i, j \in 1 .. Len(idequeue) : idequeue[i] = idequeue[j] => i = j
  /\ \A i \in 1 .. Len(idequeue) :
       LET k == idequeue[i] IN
       /\ owner[k] # NoUser /\ bpc[owner[k]] \in {"iosleep", "iotest"}
       /\ blockno[k] \in DiskBlocks /\ (bdirty[k] \/ ~valid[k])

\* Dirty buffers outside the queue are pinned by the log.
FewPinned == Cardinality(Pinned) <= MaxPinned

\* One buffer per block; what the flags and the place of the owner say.
Flags ==
  /\ \A k, l \in Bufs : blockno[k] = blockno[l] /\ blockno[k] # NoBlock => k = l
  /\ \A k \in Bufs : (valid[k] \/ bdirty[k]) => blockno[k] # NoBlock
  /\ \A k \in Bufs : bdirty[k] => valid[k]
  /\ \A p \in Users : bpc[p] # "idle" => blockno[cur[p]] # NoBlock
  /\ \A p \in Users : bpc[p] = "read" => ~valid[cur[p]]
  /\ \A p \in Users : bpc[p] = "held" => valid[cur[p]]

\* The drive's command is that of the first request, and a clean buffer agrees
\* with the disk, as does a dirty one whose write the drive has reported.
Media ==
  /\ idequeue = <<>> => cmd = NoCmd /\ ~irq
  /\ idequeue # <<>> => cmd = Command(Head(idequeue), bdirty, bdata)
  /\ \A k \in Bufs : valid[k] /\ ~bdirty[k] => bdata[k] = disk[blockno[k]]
  /\ irq /\ bdirty[Head(idequeue)] => disk[cmd.block] = cmd.data

BufInv ==
  /\ BufType /\ References /\ Ownership /\ Queueing /\ FewPinned /\ Flags /\ Media
  /\ LockSleepersBlocked

-----------------------------------------------------------------------------
(* Facts that hold in every state of the invariant.                         *)

\* A buffer some process refers to has a positive count, and finitely many users.
LEMMA RefPositive ==
  ASSUME BufType, References, NEW p \in Users, bpc[p] # "idle"
  PROVE  /\ cur[p] \in Bufs /\ refcnt[cur[p]] > 0
         /\ Cardinality(UsersOf(cur[p]) \ {p}) = refcnt[cur[p]] - 1
<1>1. cur[p] \in Bufs /\ p \in UsersOf(cur[p])
  BY DEF BufType, References, UsersOf
<1>2. IsFiniteSet(UsersOf(cur[p]))
  BY FS_Subset DEF UsersOf
<1>3. Cardinality(UsersOf(cur[p])) \in Nat /\ Cardinality(UsersOf(cur[p])) # 0
  BY <1>1, <1>2, FS_CardinalityType, FS_EmptySet
<1>4. Cardinality(UsersOf(cur[p]) \ {p}) = Cardinality(UsersOf(cur[p])) - 1
  BY <1>1, <1>2, FS_RemoveElement
<1> QED
  BY <1>1, <1>3, <1>4 DEF References

\* An unused buffer has no user and no owner, and is not in the queue.
LEMMA UnusedFree ==
  ASSUME BufType, References, Ownership, Queueing, NEW k \in Bufs, refcnt[k] = 0
  PROVE  /\ \A p \in Users : cur[p] # k
         /\ owner[k] = NoUser
         /\ \A i \in 1 .. Len(idequeue) : idequeue[i] # k
<1>1. \A p \in Users : cur[p] # k
  <2> SUFFICES ASSUME NEW p \in Users, cur[p] = k PROVE FALSE
    OBVIOUS
  <2>1. bpc[p] # "idle"
    BY DEF References, Bufs
  <2>2. refcnt[cur[p]] > 0
    BY <2>1, RefPositive
  <2> QED
    BY <2>2
<1>2. owner[k] = NoUser
  BY <1>1 DEF Ownership, BufType
<1> QED
  BY <1>1, <1>2 DEF Queueing

\* The first request of the queue.
LEMMA FirstRequest ==
  ASSUME BufType, Queueing, Media, idequeue # << >>
  PROVE  LET k == Head(idequeue) IN
         /\ k \in Bufs /\ k = idequeue[1] /\ 1 \in 1 .. Len(idequeue)
         /\ owner[k] \in Users /\ bpc[owner[k]] \in {"iosleep", "iotest"}
         /\ blockno[k] \in DiskBlocks /\ (bdirty[k] \/ ~valid[k])
         /\ cmd = Command(k, bdirty, bdata) /\ cmd.block = blockno[k] /\ cmd.data = bdata[k]
         /\ (cmd.op = "write" <=> bdirty[k])
         /\ Tail(idequeue) \in Seq(Bufs) /\ Len(Tail(idequeue)) = Len(idequeue) - 1
         /\ \A i \in 1 .. Len(idequeue) - 1 : Tail(idequeue)[i] = idequeue[i + 1]
<1>1. idequeue \in Seq(Bufs)
  BY DEF BufType
<1>2. Head(idequeue) \in Bufs /\ Head(idequeue) = idequeue[1] /\ 1 \in 1 .. Len(idequeue)
  BY <1>1
<1>3. /\ Tail(idequeue) \in Seq(Bufs) /\ Len(Tail(idequeue)) = Len(idequeue) - 1
      /\ \A i \in 1 .. Len(idequeue) - 1 : Tail(idequeue)[i] = idequeue[i + 1]
  BY <1>1, HeadTailProperties
<1>4. /\ cmd = Command(Head(idequeue), bdirty, bdata) /\ cmd.block = blockno[Head(idequeue)]
      /\ cmd.data = bdata[Head(idequeue)] /\ (cmd.op = "write" <=> bdirty[Head(idequeue)])
  BY DEF Media, Command
<1> QED
  BY <1>2, <1>3, <1>4 DEF Queueing, BufType

-----------------------------------------------------------------------------
(* Every step keeps the invariant.                                          *)

\* Types.
LEMMA BufTypeStep ==
  ASSUME BufType, References, Queueing, Media, [BufNext]_bufVars PROVE BufType'
<1> USE DEF BufType, flagVars, driveVars, BufPCs
<1>1. CASE UNCHANGED bufVars
  BY <1>1 DEF bufVars
<1>2. CASE Drive
  <2>1. idequeue # << >>
    BY <1>2 DEF Drive, Media
  <2>2. cmd.block \in DiskBlocks /\ cmd.data \in BlockVals
    BY <2>1, FirstRequest
  <2>3. disk' \in [DiskBlocks -> BlockVals]
    <3>1. CASE cmd.op = "write"
      BY <1>2, <2>2, <3>1 DEF Drive
    <3>2. CASE cmd.op # "write"
      BY <1>2, <3>2 DEF Drive
    <3> QED
      BY <3>1, <3>2
  <2> QED
    BY <1>2, <2>3 DEF Drive
<1>3. CASE IdeIntr
  BY <1>3, FirstRequest DEF IdeIntr, WakeIo
<1>4. ASSUME NEW p \in Users, BufStep(p) \/ KillWakesUser(p) PROVE BufType'
  <2>1. CASE AcquireSleep(p)
    BY <2>1 DEF AcquireSleep
  <2>2. CASE LockSleep(p)
    BY <2>2 DEF LockSleep
  <2>3. CASE ReadBlock(p)
    <3>1. cur[p] \in Bufs
      BY <2>3, RefPositive DEF ReadBlock
    <3> QED
      BY <2>3, <3>1 DEF ReadBlock, Iderw
  <2>4. CASE IoTest(p)
    BY <2>4 DEF IoTest
  <2>5. CASE BrelseUnlock(p)
    BY <2>5 DEF BrelseUnlock, WakeLock
  <2>6. CASE BrelseUnref(p)
    <3>1. cur[p] \in Bufs /\ refcnt[cur[p]] > 0
      BY <2>6, RefPositive DEF BrelseUnref
    <3>2. MoveToFront(cur[p]) \in [Bufs -> Bufs]
      <4>1. \A i \in Bufs : i # 1 => i - 1 \in Bufs
        BY DEF Bufs
      <4> QED
        BY <3>1, <4>1 DEF MoveToFront
    <3>3. mru' \in [Bufs -> Bufs]
      <4>1. CASE refcnt[cur[p]] = 1
        BY <2>6, <3>2, <4>1 DEF BrelseUnref
      <4>2. CASE refcnt[cur[p]] # 1
        BY <2>6, <4>2 DEF BrelseUnref
      <4> QED
        BY <4>1, <4>2
    <3> QED
      BY <2>6, <3>1, <3>3 DEF BrelseUnref
  <2>7. CASE KillWakesUser(p)
    BY <2>7 DEF KillWakesUser
  <2> QED
    BY <1>4, <2>1, <2>2, <2>3, <2>4, <2>5, <2>6, <2>7 DEF BufStep
<1>5. ASSUME NEW p \in Users, NEW b \in DiskBlocks, BgetHit(p, b) PROVE BufType'
  BY <1>5 DEF BgetHit, Cached
<1>6. ASSUME NEW p \in Users, NEW b \in DiskBlocks, BgetRecycle(p, b) PROVE BufType'
  <2>1. PICK i \in Bufs :
          /\ blockno' = [blockno EXCEPT ![mru[i]] = b] /\ valid' = [valid EXCEPT ![mru[i]] = FALSE]
          /\ bdirty' = [bdirty EXCEPT ![mru[i]] = FALSE] /\ refcnt' = [refcnt EXCEPT ![mru[i]] = 1]
          /\ cur' = [cur EXCEPT ![p] = mru[i]]
    BY <1>6 DEF BgetRecycle, Bufs
  <2>2. mru[i] \in Bufs
    OBVIOUS
  <2> QED
    BY <1>6, <2>1, <2>2 DEF BgetRecycle
<1>7. ASSUME NEW p \in Users, NEW v \in BlockVals, Bwrite(p, v) PROVE BufType'
  <2>1. cur[p] \in Bufs
    BY <1>7, RefPositive DEF Bwrite
  <2> QED
    BY <1>7, <2>1 DEF Bwrite, Iderw
<1>8. ASSUME NEW p \in Users, NEW v \in BlockVals, PinBlock(p, v) PROVE BufType'
  BY <1>8 DEF PinBlock
<1> QED
  BY <1>1, <1>2, <1>3, <1>4, <1>5, <1>6, <1>7, <1>8 DEF BufNext

\* Counts follow the references.
LEMMA ReferencesStep ==
  ASSUME BufType, References, [BufNext]_bufVars PROVE References'
<1> USE DEF flagVars, driveVars
<1>0. ASSUME UNCHANGED <<cur, refcnt>>, \A q \in Users : bpc'[q] = "idle" <=> bpc[q] = "idle"
      PROVE  References'
  BY <1>0 DEF UsersOf, References
<1>1. CASE UNCHANGED bufVars
  BY <1>1 DEF bufVars, UsersOf, References
<1>2. CASE Drive
  BY <1>2, <1>0 DEF Drive, WakeLock, WakeIo, Iderw, BufType
<1>3. CASE IdeIntr
  BY <1>3, <1>0 DEF IdeIntr, WakeLock, WakeIo, Iderw, BufType
<1>4. ASSUME NEW p \in Users, BufStep(p) \/ KillWakesUser(p) PROVE References'
  <2>1. CASE AcquireSleep(p)
    BY <2>1, <1>0 DEF AcquireSleep, WakeLock, WakeIo, Iderw, BufType
  <2>2. CASE LockSleep(p)
    BY <2>2, <1>0 DEF LockSleep, WakeLock, WakeIo, Iderw, BufType
  <2>3. CASE ReadBlock(p)
    BY <2>3, <1>0 DEF ReadBlock, WakeLock, WakeIo, Iderw, BufType
  <2>4. CASE IoTest(p)
    BY <2>4, <1>0 DEF IoTest, WakeLock, WakeIo, Iderw, BufType
  <2>5. CASE BrelseUnlock(p)
    BY <2>5, <1>0 DEF BrelseUnlock, WakeLock, WakeIo, Iderw, BufType
  <2>6. CASE BrelseUnref(p)
    <3>1. PICK k \in Bufs : k = cur[p]
      BY <2>6, RefPositive DEF BrelseUnref
    <3>2. Cardinality(UsersOf(k) \ {p}) = refcnt[k] - 1
      BY <2>6, <3>1, RefPositive DEF BrelseUnref
    <3>3. /\ bpc' = [bpc EXCEPT ![p] = "idle"] /\ cur' = [cur EXCEPT ![p] = 0]
          /\ refcnt' = [refcnt EXCEPT ![k] = refcnt[k] - 1]
      BY <2>6, <3>1, ZenonT(60) DEF BrelseUnref
    <3>4. UsersOf(k)' = UsersOf(k) \ {p} /\ \A j \in Bufs : j # k => UsersOf(j)' = UsersOf(j)
      <4>1. \A q \in Users : cur'[q] = IF q = p THEN 0 ELSE cur[q]
        BY <3>3 DEF BufType
      <4> QED
        BY <3>1, <4>1 DEF UsersOf, Bufs
    <3>5. \A j \in Bufs : refcnt'[j] = Cardinality(UsersOf(j)')
      <4>1. refcnt'[k] = Cardinality(UsersOf(k)')
        BY <3>2, <3>3, <3>4 DEF BufType
      <4>2. \A j \in Bufs : j # k => refcnt'[j] = refcnt[j]
        BY <3>3 DEF BufType
      <4> QED
        BY <3>4, <4>1, <4>2 DEF References
    <3>6. \A q \in Users : cur'[q] = 0 <=> bpc'[q] = "idle"
      BY <3>3 DEF References, BufType
    <3> QED
      BY <3>5, <3>6 DEF References
  <2>7. CASE KillWakesUser(p)
    BY <2>7, <1>0 DEF KillWakesUser, WakeLock, WakeIo, Iderw, BufType
  <2> QED
    BY <1>4, <2>1, <2>2, <2>3, <2>4, <2>5, <2>6, <2>7 DEF BufStep
<1>5. ASSUME NEW p \in Users, NEW b \in DiskBlocks, BgetHit(p, b) PROVE References'
  <2>1. PICK k \in Bufs : refcnt' = [refcnt EXCEPT ![k] = refcnt[k] + 1] /\ cur' = [cur EXCEPT ![p] = k]
    BY <1>5, ZenonT(60) DEF BgetHit, Cached
  <2>2. bpc[p] = "idle" /\ cur[p] = 0 /\ bpc' = [bpc EXCEPT ![p] = "lock"] /\ k # 0
    BY <1>5 DEF BgetHit, Bufs, References
  <2>3. /\ UsersOf(k)' = UsersOf(k) \cup {p} /\ p \notin UsersOf(k)
        /\ \A j \in Bufs : j # k => UsersOf(j)' = UsersOf(j)
    <3>1. \A q \in Users : cur'[q] = IF q = p THEN k ELSE cur[q]
      BY <2>1 DEF BufType
    <3> QED
      BY <2>2, <3>1 DEF UsersOf, Bufs
  <2>4. IsFiniteSet(UsersOf(k))
    BY FS_Subset DEF UsersOf
  <2>5. Cardinality(UsersOf(k)') = Cardinality(UsersOf(k)) + 1
    BY <2>3, <2>4, FS_AddElement
  <2>6. \A j \in Bufs : refcnt'[j] = Cardinality(UsersOf(j)')
    <3>1. refcnt'[k] = Cardinality(UsersOf(k)')
      BY <2>1, <2>5 DEF BufType, References
    <3>2. \A j \in Bufs : j # k => refcnt'[j] = refcnt[j]
      BY <2>1 DEF BufType
    <3> QED
      BY <2>3, <3>1, <3>2 DEF References
  <2>7. \A q \in Users : cur'[q] = 0 <=> bpc'[q] = "idle"
    BY <2>1, <2>2 DEF References, BufType
  <2> QED
    BY <2>6, <2>7 DEF References
<1>6. ASSUME NEW p \in Users, NEW b \in DiskBlocks, BgetRecycle(p, b) PROVE References'
  <2>1. PICK k \in Bufs : /\ refcnt' = [refcnt EXCEPT ![k] = 1] /\ cur' = [cur EXCEPT ![p] = k]
                          /\ refcnt[k] = 0
    BY <1>6 DEF BgetRecycle, Bufs, Unused, BufType
  <2>2. bpc[p] = "idle" /\ cur[p] = 0 /\ bpc' = [bpc EXCEPT ![p] = "lock"] /\ k # 0
    BY <1>6 DEF BgetRecycle, Bufs, References
  <2>3. IsFiniteSet(UsersOf(k)) /\ Cardinality(UsersOf(k)) = 0
    BY <2>1, FS_Subset DEF UsersOf, References
  <2>4. UsersOf(k) = {}
    BY <2>3, FS_EmptySet
  <2>5. UsersOf(k)' = {p} /\ \A j \in Bufs : j # k => UsersOf(j)' = UsersOf(j)
    <3>1. \A q \in Users : cur'[q] = IF q = p THEN k ELSE cur[q]
      BY <2>1 DEF BufType
    <3>2. UsersOf(k)' = {p}
      BY <2>4, <3>1 DEF UsersOf
    <3> QED
      BY <2>2, <3>1, <3>2 DEF UsersOf, Bufs
  <2>6. Cardinality(UsersOf(k)') = 1
    BY <2>5, FS_Singleton
  <2>7. \A j \in Bufs : refcnt'[j] = Cardinality(UsersOf(j)')
    BY <2>1, <2>5, <2>6 DEF References, BufType
  <2>8. \A q \in Users : cur'[q] = 0 <=> bpc'[q] = "idle"
    BY <2>1, <2>2 DEF References, BufType
  <2> QED
    BY <2>7, <2>8 DEF References
<1>7. ASSUME NEW p \in Users, NEW v \in BlockVals, Bwrite(p, v) PROVE References'
  BY <1>7, <1>0 DEF Bwrite, WakeLock, WakeIo, Iderw, BufType
<1>8. ASSUME NEW p \in Users, NEW v \in BlockVals, PinBlock(p, v) PROVE References'
  BY <1>8, <1>0 DEF PinBlock, WakeLock, WakeIo, Iderw, BufType
<1> QED
  BY <1>1, <1>2, <1>3, <1>4, <1>5, <1>6, <1>7, <1>8 DEF BufNext

\* Buffer k was free, is recycled for block b and goes to process p.
Recycled(p, b, k) ==
  /\ ~bdirty[k] /\ owner[k] = NoUser /\ \A q \in Users : cur[q] # k
  /\ \A i \in 1 .. Len(idequeue) : idequeue[i] # k
  /\ \A j \in Bufs : /\ blockno'[j] = IF j = k THEN b ELSE blockno[j]
                     /\ valid'[j] = IF j = k THEN FALSE ELSE valid[j]
                     /\ bdirty'[j] = IF j = k THEN FALSE ELSE bdirty[j]
  /\ \A q \in Users : cur'[q] = IF q = p THEN k ELSE cur[q]

\* What bget() does to the buffer it recycles.
LEMMA RecycleFacts ==
  ASSUME BufType, References, Ownership, Queueing, NEW p \in Users, NEW b \in DiskBlocks,
         BgetRecycle(p, b)
  PROVE  /\ bpc[p] = "idle" /\ cur[p] = 0 /\ Cached(b) = {}
         /\ \A q \in Users : bpc'[q] = IF q = p THEN "lock" ELSE bpc[q]
         /\ UNCHANGED <<owner, bdata, mru, idequeue, disk, cmd, irq>>
         /\ \E k \in Bufs : Recycled(p, b, k)
<1>1. PICK i \in 1 .. NBUF :
        /\ Unused(mru[i])
        /\ blockno' = [blockno EXCEPT ![mru[i]] = b] /\ valid' = [valid EXCEPT ![mru[i]] = FALSE]
        /\ bdirty' = [bdirty EXCEPT ![mru[i]] = FALSE] /\ cur' = [cur EXCEPT ![p] = mru[i]]
  BY DEF BgetRecycle
<1>2. PICK k \in Bufs : k = mru[i]
  BY DEF BufType, Bufs
<1>3. refcnt[k] = 0 /\ ~bdirty[k]
  BY <1>1, <1>2 DEF Unused
<1>4. /\ owner[k] = NoUser /\ \A q \in Users : cur[q] # k
      /\ \A j \in 1 .. Len(idequeue) : idequeue[j] # k
  BY <1>3, UnusedFree
<1>5. /\ \A j \in Bufs : /\ blockno'[j] = IF j = k THEN b ELSE blockno[j]
                         /\ valid'[j] = IF j = k THEN FALSE ELSE valid[j]
                         /\ bdirty'[j] = IF j = k THEN FALSE ELSE bdirty[j]
      /\ \A q \in Users : cur'[q] = IF q = p THEN k ELSE cur[q]
  BY <1>1, <1>2 DEF BufType
<1>6. /\ bpc[p] = "idle" /\ cur[p] = 0 /\ Cached(b) = {}
      /\ \A q \in Users : bpc'[q] = IF q = p THEN "lock" ELSE bpc[q]
      /\ UNCHANGED <<owner, bdata, mru, idequeue, disk, cmd, irq>>
  BY DEF BgetRecycle, References, BufType, driveVars
<1> QED
  BY <1>3, <1>4, <1>5, <1>6 DEF Recycled

\* The sleep locks.
LEMMA OwnershipStep ==
  ASSUME BufType, References, Ownership, Queueing, [BufNext]_bufVars PROVE Ownership'
<1> USE DEF flagVars, driveVars
<1>9. \A q \in Users : bpc[q] # "idle" => cur[q] \in Bufs
  BY RefPositive
<1>1. CASE UNCHANGED bufVars
  BY <1>1 DEF bufVars, Ownership, OwnerPCs, BufType, WakeLock, WakeIo, Iderw
<1>2. CASE Drive
  BY <1>2, <1>9 DEF Drive, Ownership, OwnerPCs, BufType, WakeLock, WakeIo, Iderw
<1>3. CASE IdeIntr
  BY <1>3, <1>9 DEF IdeIntr, Ownership, OwnerPCs, BufType, WakeLock, WakeIo, Iderw
<1>4. ASSUME NEW p \in Users, BufStep(p) \/ KillWakesUser(p) PROVE Ownership'
  <2>1. CASE AcquireSleep(p)
    BY <2>1, <1>9 DEF AcquireSleep, Ownership, OwnerPCs, BufType, WakeLock, WakeIo, Iderw
  <2>2. CASE LockSleep(p)
    BY <2>2, <1>9 DEF LockSleep, Ownership, OwnerPCs, BufType, WakeLock, WakeIo, Iderw
  <2>3. CASE ReadBlock(p)
    BY <2>3, <1>9 DEF ReadBlock, Ownership, OwnerPCs, BufType, WakeLock, WakeIo, Iderw
  <2>4. CASE IoTest(p)
    BY <2>4, <1>9 DEF IoTest, Ownership, OwnerPCs, BufType, WakeLock, WakeIo, Iderw
  <2>5. CASE BrelseUnlock(p)
    BY <2>5, <1>9 DEF BrelseUnlock, Ownership, OwnerPCs, BufType, WakeLock, WakeIo, Iderw
  <2>6. CASE BrelseUnref(p)
    BY <2>6, <1>9 DEF BrelseUnref, Ownership, OwnerPCs, BufType, WakeLock, WakeIo, Iderw
  <2>7. CASE KillWakesUser(p)
    BY <2>7, <1>9 DEF KillWakesUser, Ownership, OwnerPCs, BufType, WakeLock, WakeIo, Iderw
  <2> QED
    BY <1>4, <2>1, <2>2, <2>3, <2>4, <2>5, <2>6, <2>7 DEF BufStep
<1>5. ASSUME NEW p \in Users, NEW b \in DiskBlocks, BgetHit(p, b) PROVE Ownership'
  BY <1>5, <1>9 DEF BgetHit, Cached, References, Ownership, OwnerPCs, BufType, WakeLock, WakeIo, Iderw
<1>6. ASSUME NEW p \in Users, NEW b \in DiskBlocks, BgetRecycle(p, b) PROVE Ownership'
  <2>1. /\ \A q \in Users : q # p => cur'[q] = cur[q] /\ bpc'[q] = bpc[q]
        /\ bpc[p] = "idle" /\ bpc'[p] = "lock" /\ owner' = owner
    BY <1>6, RecycleFacts, ZenonT(60) DEF Recycled
  <2>2. ASSUME NEW k \in Bufs, owner[k] # NoUser PROVE owner[k] \in Users /\ owner[k] # p
    <3>1. bpc[owner[k]] \in OwnerPCs /\ owner[k] \in Users
      BY <2>2 DEF Ownership, BufType
    <3> QED
      BY <2>1, <3>1 DEF OwnerPCs
  <2>3. \A k \in Bufs : owner'[k] # NoUser => cur'[owner'[k]] = k /\ bpc'[owner'[k]] \in OwnerPCs
    BY <2>1, <2>2 DEF Ownership
  <2>4. \A q \in Users : bpc'[q] \in OwnerPCs => owner'[cur'[q]] = q
    BY <2>1 DEF Ownership, OwnerPCs
  <2> QED
    BY <2>3, <2>4 DEF Ownership
<1>7. ASSUME NEW p \in Users, NEW v \in BlockVals, Bwrite(p, v) PROVE Ownership'
  BY <1>7, <1>9 DEF Bwrite, Ownership, OwnerPCs, BufType, WakeLock, WakeIo, Iderw
<1>8. ASSUME NEW p \in Users, NEW v \in BlockVals, PinBlock(p, v) PROVE Ownership'
  BY <1>8, <1>9 DEF PinBlock, Ownership, OwnerPCs, BufType, WakeLock, WakeIo, Iderw
<1> QED
  BY <1>1, <1>2, <1>3, <1>4, <1>5, <1>6, <1>7, <1>8 DEF BufNext

\* Whoever sleeps for a lock finds it taken.
LEMMA SleepersStep ==
  ASSUME BufType, References, Ownership, Queueing, LockSleepersBlocked, [BufNext]_bufVars PROVE LockSleepersBlocked'
<1> USE DEF flagVars, driveVars
<1>9. \A q \in Users : bpc[q] # "idle" => cur[q] \in Bufs
  BY RefPositive
<1>1. CASE UNCHANGED bufVars
  BY <1>1 DEF bufVars, LockSleepersBlocked, BufType, WakeLock, WakeIo, Iderw
<1>2. CASE Drive
  BY <1>2, <1>9 DEF Drive, LockSleepersBlocked, BufType, WakeLock, WakeIo, Iderw
<1>3. CASE IdeIntr
  BY <1>3, <1>9 DEF IdeIntr, LockSleepersBlocked, BufType, WakeLock, WakeIo, Iderw
<1>4. ASSUME NEW p \in Users, BufStep(p) \/ KillWakesUser(p) PROVE LockSleepersBlocked'
  <2>1. CASE AcquireSleep(p)
    BY <2>1, <1>9 DEF AcquireSleep, LockSleepersBlocked, BufType, WakeLock, WakeIo, Iderw
  <2>2. CASE LockSleep(p)
    BY <2>2, <1>9 DEF LockSleep, LockSleepersBlocked, BufType, WakeLock, WakeIo, Iderw
  <2>3. CASE ReadBlock(p)
    BY <2>3, <1>9 DEF ReadBlock, LockSleepersBlocked, BufType, WakeLock, WakeIo, Iderw
  <2>4. CASE IoTest(p)
    BY <2>4, <1>9 DEF IoTest, LockSleepersBlocked, BufType, WakeLock, WakeIo, Iderw
  <2>5. CASE BrelseUnlock(p)
    BY <2>5, <1>9 DEF BrelseUnlock, LockSleepersBlocked, BufType, WakeLock, WakeIo, Iderw
  <2>6. CASE BrelseUnref(p)
    BY <2>6, <1>9 DEF BrelseUnref, LockSleepersBlocked, BufType, WakeLock, WakeIo, Iderw
  <2>7. CASE KillWakesUser(p)
    BY <2>7, <1>9 DEF KillWakesUser, LockSleepersBlocked, BufType, WakeLock, WakeIo, Iderw
  <2> QED
    BY <1>4, <2>1, <2>2, <2>3, <2>4, <2>5, <2>6, <2>7 DEF BufStep
<1>5. ASSUME NEW p \in Users, NEW b \in DiskBlocks, BgetHit(p, b) PROVE LockSleepersBlocked'
  BY <1>5, <1>9 DEF BgetHit, LockSleepersBlocked, BufType, WakeLock, WakeIo, Iderw
<1>6. ASSUME NEW p \in Users, NEW b \in DiskBlocks, BgetRecycle(p, b) PROVE LockSleepersBlocked'
  BY <1>6, RecycleFacts DEF Recycled, LockSleepersBlocked, BufType, WakeLock, WakeIo, Iderw
<1>7. ASSUME NEW p \in Users, NEW v \in BlockVals, Bwrite(p, v) PROVE LockSleepersBlocked'
  BY <1>7, <1>9 DEF Bwrite, LockSleepersBlocked, BufType, WakeLock, WakeIo, Iderw
<1>8. ASSUME NEW p \in Users, NEW v \in BlockVals, PinBlock(p, v) PROVE LockSleepersBlocked'
  BY <1>8, <1>9 DEF PinBlock, LockSleepersBlocked, BufType, WakeLock, WakeIo, Iderw
<1> QED
  BY <1>1, <1>2, <1>3, <1>4, <1>5, <1>6, <1>7, <1>8 DEF BufNext

\* The queue of the disk driver.
LEMMA QueueingStep ==
  ASSUME BufType, References, Ownership, Queueing, Flags, Media, [BufNext]_bufVars PROVE Queueing'
<1> USE DEF flagVars, driveVars
<1>9. \A q \in Users : bpc[q] # "idle" => cur[q] \in Bufs
  BY RefPositive
<1>1. CASE UNCHANGED bufVars
  BY <1>1 DEF bufVars, Queueing, BufType
<1>2. CASE Drive
  BY <1>2, <1>9 DEF Drive, WakeLock, Ownership, OwnerPCs, Queueing, BufType
<1>3. CASE IdeIntr
  <2>1. /\ idequeue # << >> /\ idequeue' = Tail(idequeue) /\ UNCHANGED <<owner, blockno>>
        /\ \A j \in Bufs : j # Head(idequeue) => valid'[j] = valid[j] /\ bdirty'[j] = bdirty[j]
        /\ \A q \in Users : bpc[q] \in {"iosleep", "iotest"} => bpc'[q] \in {"iosleep", "iotest"}
    BY <1>3 DEF IdeIntr, WakeIo, BufType
  <2>2. /\ Len(idequeue') = Len(idequeue) - 1 /\ Head(idequeue) = idequeue[1]
        /\ \A i \in 1 .. Len(idequeue') : idequeue'[i] = idequeue[i + 1] /\ i + 1 \in 1 .. Len(idequeue)
    <3>1. idequeue' \in Seq(Bufs) /\ Len(idequeue) \in Nat
      BY <2>1, FirstRequest DEF BufType
    <3>2. /\ Len(idequeue') = Len(idequeue) - 1 /\ Head(idequeue) = idequeue[1]
          /\ \A i \in 1 .. Len(idequeue) - 1 : idequeue'[i] = idequeue[i + 1]
      BY <2>1, FirstRequest
    <3> QED
      BY <3>1, <3>2
  <2>3. \A i \in 1 .. Len(idequeue') : idequeue'[i] # Head(idequeue) /\ idequeue'[i] \in Bufs
    <3>1. \A i \in 2 .. Len(idequeue) : idequeue[i] # idequeue[1] /\ idequeue[i] \in Bufs
      <4>1. 1 \in 1 .. Len(idequeue) /\ Len(idequeue) \in Nat
            /\ \A i \in 1 .. Len(idequeue) : idequeue[i] \in Bufs
        BY <2>1, FirstRequest DEF BufType
      <4>2. \A i \in 2 .. Len(idequeue) : i \in 1 .. Len(idequeue) /\ i # 1
        BY <4>1
      <4>3. \A i \in 1 .. Len(idequeue) : i # 1 => idequeue[i] # idequeue[1]
        BY <4>1 DEF Queueing
      <4> QED
        BY <4>1, <4>2, <4>3
    <3>2. \A i \in 1 .. Len(idequeue') : i + 1 \in 2 .. Len(idequeue)
      BY <2>2
    <3> QED
      BY <2>2, <3>1, <3>2
  <2>4. ASSUME NEW i \in 1 .. Len(idequeue'), NEW j \in 1 .. Len(idequeue'),
               idequeue'[i] = idequeue'[j]
        PROVE  i = j
    <3>1. i + 1 = j + 1
      BY <2>2, <2>4 DEF Queueing
    <3> QED
      BY <2>2, <3>1 DEF BufType
  <2>5. ASSUME NEW i \in 1 .. Len(idequeue')
        PROVE  LET k == idequeue'[i] IN
               /\ owner'[k] # NoUser /\ bpc'[owner'[k]] \in {"iosleep", "iotest"}
               /\ blockno'[k] \in DiskBlocks /\ (bdirty'[k] \/ ~valid'[k])
    BY <2>1, <2>2, <2>3 DEF Queueing, BufType
  <2> QED
    BY <2>4, <2>5 DEF Queueing
<1>4. ASSUME NEW p \in Users, BufStep(p) \/ KillWakesUser(p) PROVE Queueing'
  <2>1. CASE AcquireSleep(p)
    BY <2>1, <1>9 DEF AcquireSleep, WakeLock, Ownership, OwnerPCs, Queueing, BufType
  <2>2. CASE LockSleep(p)
    BY <2>2, <1>9 DEF LockSleep, WakeLock, Ownership, OwnerPCs, Queueing, BufType
  <2>3. CASE ReadBlock(p)
    <3>1. PICK k \in Bufs : k = cur[p]
      BY <2>3, <1>9 DEF ReadBlock
    <3>2. owner[k] = p /\ \A i \in 1 .. Len(idequeue) : idequeue[i] # k
      <4>1. owner[k] = p /\ bpc[p] \notin {"iosleep", "iotest"}
        BY <2>3, <3>1 DEF ReadBlock, Ownership, OwnerPCs
      <4> QED
        BY <4>1 DEF Queueing
    <3>3. /\ idequeue' = Append(idequeue, k) /\ UNCHANGED <<owner, blockno, valid>>
          /\ \A q \in Users : bpc'[q] = IF q = p THEN "iosleep" ELSE bpc[q]
          /\ \A j \in Bufs : j # k => bdirty'[j] = bdirty[j]
      BY <2>3, <3>1 DEF ReadBlock, Iderw, BufType
    <3>4. bdirty'[k] \/ ~valid[k]
      BY <2>3, <3>1 DEF ReadBlock, Flags, BufType
    <3>5. blockno[k] \in DiskBlocks
      BY <2>3, <3>1 DEF ReadBlock, Flags, BufType
    <3>6. /\ Len(idequeue') = Len(idequeue) + 1 /\ idequeue'[Len(idequeue) + 1] = k
          /\ \A i \in 1 .. Len(idequeue) : idequeue'[i] = idequeue[i]
      BY <3>3 DEF BufType
    <3>7. ASSUME NEW i \in 1 .. Len(idequeue'), NEW j \in 1 .. Len(idequeue'),
                 idequeue'[i] = idequeue'[j]
          PROVE  i = j
      <4>1. Len(idequeue) \in Nat
        BY DEF BufType
      <4>2. CASE i = Len(idequeue) + 1 \/ j = Len(idequeue) + 1
        BY <3>2, <3>6, <3>7, <4>1, <4>2
      <4>3. CASE i # Len(idequeue) + 1 /\ j # Len(idequeue) + 1
        <5>1. i \in 1 .. Len(idequeue) /\ j \in 1 .. Len(idequeue)
          BY <3>6, <4>1, <4>3
        <5> QED
          BY <3>6, <3>7, <5>1 DEF Queueing
      <4> QED
        BY <4>2, <4>3
    <3>8. ASSUME NEW i \in 1 .. Len(idequeue')
          PROVE  LET j == idequeue'[i] IN
                 /\ owner'[j] # NoUser /\ bpc'[owner'[j]] \in {"iosleep", "iotest"}
                 /\ blockno'[j] \in DiskBlocks /\ (bdirty'[j] \/ ~valid'[j])
      <4>1. CASE i = Len(idequeue) + 1
        BY <3>2, <3>3, <3>4, <3>5, <3>6, <4>1
      <4>2. CASE i # Len(idequeue) + 1
        <5>1. i \in 1 .. Len(idequeue) /\ idequeue'[i] = idequeue[i] /\ idequeue[i] \in Bufs
          BY <3>6, <4>2 DEF BufType
        <5> QED
          BY <3>2, <3>3, <5>1 DEF Queueing, BufType
      <4> QED
        BY <4>1, <4>2
    <3> QED
      BY <3>7, <3>8 DEF Queueing
  <2>4. CASE IoTest(p)
    BY <2>4, <1>9 DEF IoTest, WakeLock, Ownership, OwnerPCs, Queueing, BufType
  <2>5. CASE BrelseUnlock(p)
    BY <2>5, <1>9 DEF BrelseUnlock, WakeLock, Ownership, OwnerPCs, Queueing, BufType
  <2>6. CASE BrelseUnref(p)
    BY <2>6, <1>9 DEF BrelseUnref, WakeLock, Ownership, OwnerPCs, Queueing, BufType
  <2>7. CASE KillWakesUser(p)
    BY <2>7, <1>9 DEF KillWakesUser, WakeLock, Ownership, OwnerPCs, Queueing, BufType
  <2> QED
    BY <1>4, <2>1, <2>2, <2>3, <2>4, <2>5, <2>6, <2>7 DEF BufStep
<1>5. ASSUME NEW p \in Users, NEW b \in DiskBlocks, BgetHit(p, b) PROVE Queueing'
  BY <1>5, <1>9 DEF BgetHit, WakeLock, Ownership, OwnerPCs, Queueing, BufType
<1>6. ASSUME NEW p \in Users, NEW b \in DiskBlocks, BgetRecycle(p, b) PROVE Queueing'
  <2>0. PICK k \in Bufs : Recycled(p, b, k)
    BY <1>6, RecycleFacts
  <2>1. /\ \A i \in 1 .. Len(idequeue) : idequeue[i] # k
        /\ \A j \in Bufs : j # k => blockno'[j] = blockno[j] /\ valid'[j] = valid[j] /\ bdirty'[j] = bdirty[j]
    BY <2>0 DEF Recycled
  <2>2. /\ UNCHANGED <<owner, idequeue>> /\ bpc[p] = "idle"
        /\ \A q \in Users : q # p => bpc'[q] = bpc[q]
    BY <1>6, RecycleFacts
  <2> QED
    <3>1. ASSUME NEW i \in 1 .. Len(idequeue')
          PROVE  LET j == idequeue'[i] IN
                 /\ owner'[j] # NoUser /\ bpc'[owner'[j]] \in {"iosleep", "iotest"}
                 /\ blockno'[j] \in DiskBlocks /\ (bdirty'[j] \/ ~valid'[j])
      <4>1. i \in 1 .. Len(idequeue) /\ idequeue'[i] = idequeue[i] /\ idequeue[i] \in Bufs /\ idequeue[i] # k
        BY <2>1, <2>2 DEF BufType
      <4>2. owner[idequeue[i]] \in Users /\ owner[idequeue[i]] # p
        BY <2>2, <4>1 DEF Queueing, BufType
      <4> QED
        BY <2>1, <2>2, <4>1, <4>2 DEF Queueing
    <3> QED
      BY <2>2, <3>1 DEF Queueing
<1>7. ASSUME NEW p \in Users, NEW v \in BlockVals, Bwrite(p, v) PROVE Queueing'
  <2>1. PICK k \in Bufs : k = cur[p]
    BY <1>7, <1>9 DEF Bwrite
  <2>2. owner[k] = p /\ \A i \in 1 .. Len(idequeue) : idequeue[i] # k
    <3>1. owner[k] = p /\ bpc[p] \notin {"iosleep", "iotest"}
      BY <1>7, <2>1 DEF Bwrite, Ownership, OwnerPCs
    <3> QED
      BY <3>1 DEF Queueing
  <2>3. /\ idequeue' = Append(idequeue, k) /\ UNCHANGED <<owner, blockno, valid>>
        /\ \A q \in Users : bpc'[q] = IF q = p THEN "iosleep" ELSE bpc[q]
        /\ \A j \in Bufs : j # k => bdirty'[j] = bdirty[j]
    BY <1>7, <2>1 DEF Bwrite, Iderw, BufType
  <2>4. bdirty'[k] \/ ~valid[k]
    BY <1>7, <2>1 DEF Bwrite, Flags, BufType
  <2>5. blockno[k] \in DiskBlocks
    BY <1>7, <2>1 DEF Bwrite, Flags, BufType
  <2>6. /\ Len(idequeue') = Len(idequeue) + 1 /\ idequeue'[Len(idequeue) + 1] = k
        /\ \A i \in 1 .. Len(idequeue) : idequeue'[i] = idequeue[i]
    BY <2>3 DEF BufType
  <2>7. ASSUME NEW i \in 1 .. Len(idequeue'), NEW j \in 1 .. Len(idequeue'),
               idequeue'[i] = idequeue'[j]
        PROVE  i = j
    <3>1. Len(idequeue) \in Nat
      BY DEF BufType
    <3>2. CASE i = Len(idequeue) + 1 \/ j = Len(idequeue) + 1
      BY <2>2, <2>6, <2>7, <3>1, <3>2
    <3>3. CASE i # Len(idequeue) + 1 /\ j # Len(idequeue) + 1
      <4>1. i \in 1 .. Len(idequeue) /\ j \in 1 .. Len(idequeue)
        BY <2>6, <3>1, <3>3
      <4> QED
        BY <2>6, <2>7, <4>1 DEF Queueing
    <3> QED
      BY <3>2, <3>3
  <2>8. ASSUME NEW i \in 1 .. Len(idequeue')
        PROVE  LET j == idequeue'[i] IN
               /\ owner'[j] # NoUser /\ bpc'[owner'[j]] \in {"iosleep", "iotest"}
               /\ blockno'[j] \in DiskBlocks /\ (bdirty'[j] \/ ~valid'[j])
    <3>1. CASE i = Len(idequeue) + 1
      BY <2>2, <2>3, <2>4, <2>5, <2>6, <3>1
    <3>2. CASE i # Len(idequeue) + 1
      <4>1. i \in 1 .. Len(idequeue) /\ idequeue'[i] = idequeue[i] /\ idequeue[i] \in Bufs
        BY <2>6, <3>2 DEF BufType
      <4> QED
        BY <2>2, <2>3, <4>1 DEF Queueing, BufType
    <3> QED
      BY <3>1, <3>2
  <2> QED
    BY <2>7, <2>8 DEF Queueing
<1>8. ASSUME NEW p \in Users, NEW v \in BlockVals, PinBlock(p, v) PROVE Queueing'
  BY <1>8, <1>9 DEF PinBlock, WakeLock, Ownership, OwnerPCs, Queueing, BufType
<1> QED
  BY <1>1, <1>2, <1>3, <1>4, <1>5, <1>6, <1>7, <1>8 DEF BufNext

\* Which buffers are in the queue.
LEMMA InQueue ==
  ASSUME NEW q \in Seq(Bufs), NEW k
  PROVE  k \in Range(q) <=> \E i \in 1 .. Len(q) : q[i] = k
BY DEF Range

\* A bound on the pinned buffers holds for fewer of them.
LEMMA FewerPinned ==
  ASSUME NEW S \in SUBSET Bufs, NEW U \in SUBSET S, Cardinality(S) <= MaxPinned
  PROVE  Cardinality(U) <= MaxPinned
<1>0. IsFiniteSet(Bufs)
  BY FS_Interval DEF Bufs
<1>1. IsFiniteSet(S)
  BY <1>0, FS_Subset
<1>2. Cardinality(U) <= Cardinality(S) /\ Cardinality(U) \in Nat /\ Cardinality(S) \in Nat
  BY <1>1, FS_Subset, FS_CardinalityType
<1> QED
  BY <1>2

\* Only log_write() pins a buffer.
LEMMA FewPinnedStep ==
  ASSUME BufType, References, Ownership, Queueing, Media, FewPinned, [BufNext]_bufVars PROVE FewPinned'
<1> USE DEF flagVars, driveVars
<1>9. \A q \in Users : bpc[q] # "idle" => cur[q] \in Bufs
  BY RefPositive
<1>0. ASSUME Pinned' \subseteq Pinned PROVE FewPinned'
  <2>1. Pinned \subseteq Bufs
    BY DEF Pinned
  <2> QED
    BY <1>0, <2>1, FewerPinned DEF FewPinned
<1>1. CASE UNCHANGED bufVars
  BY <1>1 DEF bufVars, Pinned, FewPinned
<1>2. CASE Drive
  <2>1. Pinned' = Pinned
    BY <1>2 DEF Drive, Pinned
  <2> QED
    BY <2>1, <1>0
<1>3. CASE IdeIntr
  <2>1. /\ idequeue # << >> /\ idequeue' = Tail(idequeue) /\ Head(idequeue) \in Bufs
        /\ \A j \in Bufs : bdirty'[j] = IF j = Head(idequeue) THEN FALSE ELSE bdirty[j]
    BY <1>3, FirstRequest DEF IdeIntr, BufType
  <2>2. \A j : j \in Range(idequeue) => j \in Range(idequeue') \/ j = Head(idequeue)
    <3> SUFFICES ASSUME NEW j, j \in Range(idequeue), j # Head(idequeue) PROVE j \in Range(idequeue')
      OBVIOUS
    <3>1. idequeue \in Seq(Bufs) /\ idequeue' \in Seq(Bufs) /\ Len(idequeue) \in Nat
      BY <2>1, FirstRequest DEF BufType
    <3>2. PICK i \in 1 .. Len(idequeue) : idequeue[i] = j
      BY <3>1, InQueue
    <3>3. i # 1
      BY <2>1, <3>2, FirstRequest
    <3>4. i - 1 \in 1 .. Len(idequeue) - 1 /\ i - 1 + 1 = i
      BY <3>1, <3>3
    <3>5. Len(idequeue') = Len(idequeue) - 1 /\ idequeue'[i - 1] = j
      BY <2>1, <3>2, <3>4, FirstRequest
    <3> QED
      BY <3>1, <3>4, <3>5, InQueue
  <2>3. Pinned' \subseteq Pinned
    BY <2>1, <2>2 DEF Pinned
  <2> QED
    BY <2>3, <1>0
<1>4. ASSUME NEW p \in Users, BufStep(p) \/ KillWakesUser(p) PROVE FewPinned'
  <2>1. CASE AcquireSleep(p)
    <3>1. Pinned' = Pinned
      BY <2>1 DEF AcquireSleep, Pinned
    <3> QED
      BY <3>1, <1>0
  <2>2. CASE LockSleep(p)
    <3>1. Pinned' = Pinned
      BY <2>2 DEF LockSleep, Pinned
    <3> QED
      BY <3>1, <1>0
  <2>3. CASE ReadBlock(p)
    <3>1. PICK k \in Bufs : k = cur[p]
      BY <2>3, <1>9 DEF ReadBlock
    <3>2. idequeue' = Append(idequeue, k) /\ \A j \in Bufs : j # k => bdirty'[j] = bdirty[j]
      BY <2>3, <3>1 DEF ReadBlock, Iderw, BufType
    <3>3. Range(idequeue') = Range(idequeue) \cup {k}
      <4>1. /\ idequeue \in Seq(Bufs) /\ idequeue' \in Seq(Bufs) /\ Len(idequeue') = Len(idequeue) + 1
            /\ \A i \in 1 .. Len(idequeue) + 1 :
                 idequeue'[i] = IF i = Len(idequeue) + 1 THEN k ELSE idequeue[i]
        BY <3>2 DEF BufType
      <4>2. \A j : j \in Range(idequeue') <=> j \in Range(idequeue) \cup {k}
        <5> TAKE j
        <5>1. Len(idequeue) \in Nat
          BY <4>1
        <5> QED
          BY <4>1, <5>1, InQueue
      <4> QED
        BY <4>2
    <3>4. Pinned' \subseteq Pinned
      BY <3>2, <3>3 DEF Pinned
    <3> QED
      BY <3>4, <1>0
  <2>4. CASE IoTest(p)
    <3>1. Pinned' = Pinned
      BY <2>4 DEF IoTest, Pinned
    <3> QED
      BY <3>1, <1>0
  <2>5. CASE BrelseUnlock(p)
    <3>1. Pinned' = Pinned
      BY <2>5 DEF BrelseUnlock, Pinned
    <3> QED
      BY <3>1, <1>0
  <2>6. CASE BrelseUnref(p)
    <3>1. Pinned' = Pinned
      BY <2>6 DEF BrelseUnref, Pinned
    <3> QED
      BY <3>1, <1>0
  <2>7. CASE KillWakesUser(p)
    <3>1. Pinned' = Pinned
      BY <2>7 DEF KillWakesUser, Pinned
    <3> QED
      BY <3>1, <1>0
  <2> QED
    BY <1>4, <2>1, <2>2, <2>3, <2>4, <2>5, <2>6, <2>7 DEF BufStep
<1>5. ASSUME NEW p \in Users, NEW b \in DiskBlocks, BgetHit(p, b) PROVE FewPinned'
  <2>1. Pinned' = Pinned
    BY <1>5 DEF BgetHit, Pinned
  <2> QED
    BY <2>1, <1>0
<1>6. ASSUME NEW p \in Users, NEW b \in DiskBlocks, BgetRecycle(p, b) PROVE FewPinned'
  <2>1. PICK k \in Bufs : Recycled(p, b, k)
    BY <1>6, RecycleFacts
  <2>2. idequeue' = idequeue
    BY <1>6, RecycleFacts
  <2>3. Pinned' \subseteq Pinned
    BY <2>1, <2>2 DEF Recycled, Pinned
  <2> QED
    BY <2>3, <1>0
<1>7. ASSUME NEW p \in Users, NEW v \in BlockVals, Bwrite(p, v) PROVE FewPinned'
  <2>1. PICK k \in Bufs : k = cur[p]
    BY <1>7, <1>9 DEF Bwrite
  <2>2. idequeue' = Append(idequeue, k) /\ \A j \in Bufs : j # k => bdirty'[j] = bdirty[j]
    BY <1>7, <2>1 DEF Bwrite, Iderw, BufType
  <2>3. Range(idequeue') = Range(idequeue) \cup {k}
    <3>1. /\ idequeue \in Seq(Bufs) /\ idequeue' \in Seq(Bufs) /\ Len(idequeue') = Len(idequeue) + 1
          /\ \A i \in 1 .. Len(idequeue) + 1 :
               idequeue'[i] = IF i = Len(idequeue) + 1 THEN k ELSE idequeue[i]
      BY <2>2 DEF BufType
    <3>2. \A j : j \in Range(idequeue') <=> j \in Range(idequeue) \cup {k}
      <4> TAKE j
      <4>1. Len(idequeue) \in Nat
        BY <3>1
      <4> QED
        BY <3>1, <4>1, InQueue
    <3> QED
      BY <3>2
  <2>4. Pinned' \subseteq Pinned
    BY <2>2, <2>3 DEF Pinned
  <2> QED
    BY <2>4, <1>0
<1>8. ASSUME NEW p \in Users, NEW v \in BlockVals, PinBlock(p, v) PROVE FewPinned'
  <2>1. PICK k \in Bufs : k = cur[p]
    BY <1>8, <1>9 DEF PinBlock
  <2>2. /\ \A j \in Bufs : j # k => bdirty'[j] = bdirty[j]
        /\ idequeue' = idequeue /\ Cardinality(Pinned \cup {k}) <= MaxPinned
    BY <1>8, <2>1 DEF PinBlock, BufType
  <2>3. Pinned' \subseteq Pinned \cup {k} /\ Pinned \cup {k} \subseteq Bufs
    BY <2>2 DEF Pinned
  <2> QED
    BY <2>2, <2>3, FewerPinned DEF FewPinned
<1> QED
  BY <1>1, <1>2, <1>3, <1>4, <1>5, <1>6, <1>7, <1>8 DEF BufNext

\* The flags of the buffers.
LEMMA FlagsStep ==
  ASSUME BufType, References, Ownership, Queueing, Media, Flags, [BufNext]_bufVars PROVE Flags'
<1> USE DEF flagVars, driveVars
<1>9. \A q \in Users : bpc[q] # "idle" => cur[q] \in Bufs
  BY RefPositive
<1>1. CASE UNCHANGED bufVars
  BY <1>1 DEF bufVars, Flags, BufType, Ownership, OwnerPCs, WakeLock, WakeIo, Iderw
<1>2. CASE Drive
  BY <1>2, <1>9 DEF Drive, Flags, BufType, Ownership, OwnerPCs, WakeLock, WakeIo, Iderw
<1>3. CASE IdeIntr
  <2>1. PICK k \in Bufs : k = Head(idequeue)
    BY <1>3, FirstRequest DEF IdeIntr
  <2>2. owner[k] \in Users /\ bpc[owner[k]] \in {"iosleep", "iotest"} /\ blockno[k] \in DiskBlocks
    BY <1>3, <2>1, FirstRequest DEF IdeIntr
  <2>3. /\ UNCHANGED <<blockno, cur>>
        /\ \A j \in Bufs : /\ valid'[j] = IF j = k THEN TRUE ELSE valid[j]
                           /\ bdirty'[j] = IF j = k THEN FALSE ELSE bdirty[j]
        /\ \A q \in Users : bpc'[q] = IF bpc[q] = "iosleep" /\ cur[q] = k THEN "iotest" ELSE bpc[q]
    BY <1>3, <2>1 DEF IdeIntr, WakeIo, BufType
  <2>4. \A q \in Users : bpc[q] = "read" => cur[q] # k
    BY <2>2 DEF Ownership, OwnerPCs
  <2>5. \A j \in Bufs : /\ (valid'[j] \/ bdirty'[j]) => blockno'[j] # NoBlock
                        /\ bdirty'[j] => valid'[j]
    BY <2>2, <2>3, ZenonT(60) DEF Flags
  <2>6. ASSUME NEW q \in Users, bpc'[q] # "idle"
        PROVE  /\ blockno'[cur'[q]] # NoBlock
               /\ bpc'[q] = "read" => ~valid'[cur'[q]]
               /\ bpc'[q] = "held" => valid'[cur'[q]]
    <3>1. bpc[q] # "idle" /\ cur'[q] = cur[q] /\ cur[q] \in Bufs
      BY <2>3, <2>6, <1>9
    <3>2. bpc'[q] \in {"read", "held"} => bpc'[q] = bpc[q]
      BY <2>3
    <3>3. CASE cur[q] = k
      BY <2>2, <2>3, <2>4, <3>1, <3>2, <3>3
    <3>4. CASE cur[q] # k
      <4>1. valid'[cur'[q]] = valid[cur[q]] /\ blockno'[cur'[q]] = blockno[cur[q]]
        BY <2>3, <3>1, <3>4
      <4> QED
        BY <3>1, <3>2, <4>1 DEF Flags
    <3> QED
      BY <3>3, <3>4
  <2>7. \A i, j \in Bufs : blockno'[i] = blockno'[j] /\ blockno'[i] # NoBlock => i = j
    BY <2>3 DEF Flags
  <2> QED
    BY <2>5, <2>6, <2>7 DEF Flags
<1>4. ASSUME NEW p \in Users, BufStep(p) \/ KillWakesUser(p) PROVE Flags'
  <2>1. CASE AcquireSleep(p)
    BY <2>1, <1>9 DEF AcquireSleep, Flags, BufType, Ownership, OwnerPCs, WakeLock, WakeIo, Iderw
  <2>2. CASE LockSleep(p)
    BY <2>2, <1>9 DEF LockSleep, Flags, BufType, Ownership, OwnerPCs, WakeLock, WakeIo, Iderw
  <2>3. CASE ReadBlock(p)
    BY <2>3, <1>9 DEF ReadBlock, Flags, BufType, Ownership, OwnerPCs, WakeLock, WakeIo, Iderw
  <2>4. CASE IoTest(p)
    BY <2>4, <1>9 DEF IoTest, Flags, BufType, Ownership, OwnerPCs, WakeLock, WakeIo, Iderw
  <2>5. CASE BrelseUnlock(p)
    BY <2>5, <1>9 DEF BrelseUnlock, Flags, BufType, Ownership, OwnerPCs, WakeLock, WakeIo, Iderw
  <2>6. CASE BrelseUnref(p)
    BY <2>6, <1>9 DEF BrelseUnref, Flags, BufType, Ownership, OwnerPCs, WakeLock, WakeIo, Iderw
  <2>7. CASE KillWakesUser(p)
    BY <2>7, <1>9 DEF KillWakesUser, Flags, BufType, Ownership, OwnerPCs, WakeLock, WakeIo, Iderw
  <2> QED
    BY <1>4, <2>1, <2>2, <2>3, <2>4, <2>5, <2>6, <2>7 DEF BufStep
<1>5. ASSUME NEW p \in Users, NEW b \in DiskBlocks, BgetHit(p, b) PROVE Flags'
  <2>1. PICK k \in Bufs : blockno[k] = b /\ cur' = [cur EXCEPT ![p] = k]
    BY <1>5 DEF BgetHit, Cached
  <2> QED
    BY <1>5, <2>1 DEF BgetHit, Flags, BufType
<1>6. ASSUME NEW p \in Users, NEW b \in DiskBlocks, BgetRecycle(p, b) PROVE Flags'
  <2>0. PICK k \in Bufs : Recycled(p, b, k)
    BY <1>6, RecycleFacts
  <2>1. Cached(b) = {} /\ \A q \in Users : bpc'[q] = IF q = p THEN "lock" ELSE bpc[q]
    BY <1>6, RecycleFacts
  <2>2. \A j \in Bufs : /\ blockno'[j] = IF j = k THEN b ELSE blockno[j]
                        /\ valid'[j] = IF j = k THEN FALSE ELSE valid[j]
                        /\ bdirty'[j] = IF j = k THEN FALSE ELSE bdirty[j]
    BY <2>0 DEF Recycled
  <2>3. \A q \in Users : cur[q] # k /\ cur'[q] = IF q = p THEN k ELSE cur[q]
    BY <2>0 DEF Recycled
  <2>4. \A i, j \in Bufs : blockno'[i] = blockno'[j] /\ blockno'[i] # NoBlock => i = j
    <3>1. \A j \in Bufs : blockno[j] # b
      BY <2>1 DEF Cached
    <3>2. \A i, j \in Bufs : blockno[i] = blockno[j] /\ blockno[i] # NoBlock => i = j
      BY DEF Flags
    <3> QED
      BY <2>2, <3>1, <3>2
  <2>5. \A j \in Bufs : /\ (valid'[j] \/ bdirty'[j]) => blockno'[j] # NoBlock
                        /\ bdirty'[j] => valid'[j]
    BY <2>2 DEF Flags
  <2>6. \A q \in Users : /\ bpc'[q] # "idle" => blockno'[cur'[q]] # NoBlock
                         /\ bpc'[q] = "read" => ~valid'[cur'[q]]
                         /\ bpc'[q] = "held" => valid'[cur'[q]]
    <3> SUFFICES ASSUME NEW q \in Users, bpc'[q] # "idle"
                 PROVE  /\ blockno'[cur'[q]] # NoBlock
                        /\ bpc'[q] = "read" => ~valid'[cur'[q]]
                        /\ bpc'[q] = "held" => valid'[cur'[q]]
      BY <2>1
    <3>1. CASE q = p
      BY <2>1, <2>2, <2>3, <3>1, ZenonT(60)
    <3>2. CASE q # p
      <4>1. bpc'[q] = bpc[q] /\ cur'[q] = cur[q] /\ cur[q] \in Bufs /\ cur[q] # k
        BY <2>1, <2>3, <3>2, <1>9
      <4>2. valid'[cur'[q]] = valid[cur[q]] /\ blockno'[cur'[q]] = blockno[cur[q]]
        BY <2>2, <4>1
      <4> QED
        BY <4>1, <4>2 DEF Flags
    <3> QED
      BY <3>1, <3>2
  <2> QED
    BY <2>4, <2>5, <2>6 DEF Flags
<1>7. ASSUME NEW p \in Users, NEW v \in BlockVals, Bwrite(p, v) PROVE Flags'
  BY <1>7, <1>9 DEF Bwrite, Flags, BufType, Ownership, OwnerPCs, WakeLock, WakeIo, Iderw
<1>8. ASSUME NEW p \in Users, NEW v \in BlockVals, PinBlock(p, v) PROVE Flags'
  BY <1>8, <1>9 DEF PinBlock, Flags, BufType, Ownership, OwnerPCs, WakeLock, WakeIo, Iderw
<1> QED
  BY <1>1, <1>2, <1>3, <1>4, <1>5, <1>6, <1>7, <1>8 DEF BufNext

\* The drive, its command and the disk.
LEMMA MediaStep ==
  ASSUME BufType, References, Ownership, Queueing, Flags, Media, [BufNext]_bufVars PROVE Media'
<1> USE DEF flagVars, driveVars
<1>9. \A q \in Users : bpc[q] # "idle" => cur[q] \in Bufs
  BY RefPositive
<1>1. CASE UNCHANGED bufVars
  BY <1>1 DEF bufVars, Media, BufType, Command
<1>2. CASE Drive
  <2>1. idequeue # << >>
    BY <1>2 DEF Drive, Media
  <2>2. PICK h \in Bufs : h = Head(idequeue)
    BY <2>1, FirstRequest
  <2>3. /\ blockno[h] \in DiskBlocks /\ cmd.block = blockno[h] /\ (cmd.op = "write" <=> bdirty[h])
        /\ cmd = Command(h, bdirty, bdata)
    BY <2>1, <2>2, FirstRequest
  <2>4. UNCHANGED <<blockno, valid, bdirty, bdata, idequeue, cmd>>
    BY <1>2 DEF Drive
  <2>5. CASE cmd.op = "write"
    <3>1. disk' = [disk EXCEPT ![blockno[h]] = cmd.data]
      BY <1>2, <2>3, <2>5 DEF Drive
    <3>2. ASSUME NEW j \in Bufs, valid[j], ~bdirty[j] PROVE bdata[j] = disk'[blockno[j]]
      <4>1. blockno[j] # blockno[h] /\ blockno[j] # NoBlock
        BY <2>3, <2>5, <3>2 DEF Flags
      <4> QED
        BY <3>1, <3>2, <4>1 DEF Media, BufType
    <3>3. disk'[cmd.block] = cmd.data
      BY <2>3, <3>1 DEF BufType
    <3> QED
      BY <2>1, <2>2, <2>3, <2>4, <3>2, <3>3 DEF Media, Command
  <2>6. CASE cmd.op # "write"
    BY <1>2, <2>1, <2>2, <2>3, <2>4, <2>6 DEF Drive, Media, Command
  <2> QED
    BY <2>5, <2>6
<1>3. CASE IdeIntr
  <2>1. PICK h \in Bufs : h = Head(idequeue)
    BY <1>3, FirstRequest DEF IdeIntr
  <2>2. /\ idequeue # << >> /\ idequeue' = Tail(idequeue) /\ ~irq' /\ UNCHANGED <<blockno, disk>>
        /\ irq
        /\ \A j \in Bufs : j # h => valid'[j] = valid[j] /\ bdirty'[j] = bdirty[j] /\ bdata'[j] = bdata[j]
        /\ bdata'[h] = IF bdirty[h] THEN bdata[h] ELSE disk[cmd.block]
        /\ cmd' = IF Len(idequeue) > 1 THEN Command(idequeue[2], bdirty, bdata) ELSE NoCmd
    BY <1>3, <2>1 DEF IdeIntr, BufType
  <2>3. bdata'[h] = disk[blockno[h]]
    <3>1. cmd.block = blockno[h] /\ cmd.data = bdata[h]
      BY <2>1, <2>2, FirstRequest
    <3>2. bdirty[h] => disk[cmd.block] = cmd.data
      BY <2>1, <2>2 DEF Media
    <3> QED
      BY <2>2, <3>1, <3>2
  <2>4. \A j \in Bufs : valid'[j] /\ ~bdirty'[j] => bdata'[j] = disk'[blockno'[j]]
    <3> SUFFICES ASSUME NEW j \in Bufs, valid'[j], ~bdirty'[j] PROVE bdata'[j] = disk'[blockno'[j]]
      OBVIOUS
    <3>1. CASE j = h
      BY <2>2, <2>3, <3>1
    <3>2. CASE j # h
      BY <2>2, <3>2 DEF Media
    <3> QED
      BY <3>1, <3>2
  <2>5. Len(idequeue) \in Nat /\ idequeue' \in Seq(Bufs) /\ Len(idequeue') = Len(idequeue) - 1
    BY <2>2, FirstRequest DEF BufType
  <2>6. CASE Len(idequeue) > 1
    <3>1. 1 \in 1 .. Len(idequeue) - 1 /\ 2 \in 1 .. Len(idequeue)
      BY <2>5, <2>6
    <3>2. idequeue'[1] = idequeue[2]
      BY <2>2, <3>1, FirstRequest
    <3>3. idequeue' # << >> /\ Head(idequeue') = idequeue[2]
      BY <2>5, <2>6, <3>2
    <3>4. idequeue[2] \in Bufs /\ idequeue[2] # h
      BY <2>1, <2>2, <3>1, FirstRequest DEF Queueing, BufType
    <3>5. cmd' = Command(Head(idequeue), bdirty, bdata)'
      BY <2>2, <2>6, <3>3, <3>4 DEF Command
    <3> QED
      BY <2>2, <2>4, <3>3, <3>5 DEF Media
  <2>7. CASE ~(Len(idequeue) > 1)
    <3>1. idequeue' = << >>
      BY <2>5, <2>7
    <3>2. cmd' = NoCmd
      BY <2>2, <2>7
    <3> QED
      BY <2>2, <2>4, <3>1, <3>2 DEF Media
  <2> QED
    BY <2>6, <2>7
<1>4. ASSUME NEW p \in Users, BufStep(p) \/ KillWakesUser(p) PROVE Media'
  <2>1. CASE AcquireSleep(p)
    BY <2>1, <1>9 DEF AcquireSleep, Media, BufType, Command
  <2>2. CASE LockSleep(p)
    BY <2>2, <1>9 DEF LockSleep, Media, BufType, Command
  <2>3. CASE ReadBlock(p)
    <3>1. PICK k \in Bufs : k = cur[p]
      BY <2>3, <1>9 DEF ReadBlock
    <3>2. \A i \in 1 .. Len(idequeue) : idequeue[i] # k
      <4>1. owner[k] = p /\ bpc[p] \notin {"iosleep", "iotest"}
        BY <2>3, <3>1 DEF ReadBlock, Ownership, OwnerPCs
      <4> QED
        BY <4>1 DEF Queueing
    <3>3. /\ idequeue' = Append(idequeue, k) /\ UNCHANGED <<blockno, valid, disk, irq>>
          /\ \A j \in Bufs : j # k => bdirty'[j] = bdirty[j] /\ bdata'[j] = bdata[j]
          /\ cmd' = IF idequeue = << >> THEN Command(k, bdirty', bdata') ELSE cmd
      BY <2>3, <3>1 DEF ReadBlock, Iderw, BufType
    <3>4. valid[k] => bdirty'[k]
      BY <2>3, <3>1 DEF ReadBlock, Flags, BufType
    <3>5. \A j \in Bufs : valid'[j] /\ ~bdirty'[j] => bdata'[j] = disk'[blockno'[j]]
      BY <3>3, <3>4 DEF Media
    <3>6. CASE idequeue = << >>
      <4>1. idequeue' # << >> /\ Head(idequeue') = k /\ ~irq'
        BY <3>3, <3>6 DEF Media
      <4>2. cmd' = Command(k, bdirty, bdata)'
        BY <3>3, <3>6 DEF Command
      <4> QED
        BY <3>5, <4>1, <4>2 DEF Media, Command
    <3>7. CASE idequeue # << >>
      <4>1. PICK h \in Bufs : h = Head(idequeue)
        BY <3>7, FirstRequest
      <4>2. h # k /\ idequeue' # << >> /\ Head(idequeue') = h
        <5>1. idequeue \in Seq(Bufs) /\ h = idequeue[1] /\ 1 \in 1 .. Len(idequeue)
          BY <3>7, <4>1, FirstRequest DEF BufType
        <5>2. Head(Append(idequeue, k)) = idequeue[1] /\ Append(idequeue, k) # << >>
          BY <5>1
        <5> QED
          BY <3>2, <3>3, <5>1, <5>2
      <4>3. cmd' = Command(h, bdirty, bdata)'
        BY <3>3, <3>7, <4>1, <4>2 DEF Media, Command
      <4>4. irq' /\ bdirty'[h] => disk'[cmd'.block] = cmd'.data
        BY <3>3, <3>7, <4>1, <4>2 DEF Media
      <4> QED
        BY <3>5, <4>2, <4>3, <4>4 DEF Media, Command
    <3> QED
      BY <3>6, <3>7
  <2>4. CASE IoTest(p)
    BY <2>4, <1>9 DEF IoTest, Media, BufType, Command
  <2>5. CASE BrelseUnlock(p)
    BY <2>5, <1>9 DEF BrelseUnlock, Media, BufType, Command
  <2>6. CASE BrelseUnref(p)
    BY <2>6, <1>9 DEF BrelseUnref, Media, BufType, Command
  <2>7. CASE KillWakesUser(p)
    BY <2>7, <1>9 DEF KillWakesUser, Media, BufType, Command
  <2> QED
    BY <1>4, <2>1, <2>2, <2>3, <2>4, <2>5, <2>6, <2>7 DEF BufStep
<1>5. ASSUME NEW p \in Users, NEW b \in DiskBlocks, BgetHit(p, b) PROVE Media'
  BY <1>5, <1>9 DEF BgetHit, Media, BufType, Command
<1>6. ASSUME NEW p \in Users, NEW b \in DiskBlocks, BgetRecycle(p, b) PROVE Media'
  <2>1. PICK k \in Bufs : Recycled(p, b, k)
    BY <1>6, RecycleFacts
  <2>2. UNCHANGED <<bdata, idequeue, disk, cmd, irq>>
    BY <1>6, RecycleFacts
  <2>3. /\ \A i \in 1 .. Len(idequeue) : idequeue[i] # k
        /\ \A j \in Bufs : j # k => blockno'[j] = blockno[j] /\ valid'[j] = valid[j] /\ bdirty'[j] = bdirty[j]
        /\ ~valid'[k]
    BY <2>1 DEF Recycled
  <2>4. \A j \in Bufs : valid'[j] /\ ~bdirty'[j] => bdata'[j] = disk'[blockno'[j]]
    BY <2>2, <2>3 DEF Media
  <2>5. CASE idequeue = << >>
    BY <2>2, <2>4, <2>5 DEF Media
  <2>6. CASE idequeue # << >>
    <3>1. PICK h \in Bufs : h = Head(idequeue) /\ h # k
      BY <2>3, <2>6, FirstRequest
    <3>2. cmd' = Command(h, bdirty, bdata)'
      BY <2>2, <2>3, <2>6, <3>1 DEF Media, Command
    <3>3. irq' /\ bdirty'[h] => disk'[cmd'.block] = cmd'.data
      BY <2>2, <2>3, <2>6, <3>1 DEF Media
    <3> QED
      BY <2>2, <2>4, <2>6, <3>1, <3>2, <3>3 DEF Media, Command
  <2> QED
    BY <2>5, <2>6
<1>7. ASSUME NEW p \in Users, NEW v \in BlockVals, Bwrite(p, v) PROVE Media'
  <2>1. PICK k \in Bufs : k = cur[p]
    BY <1>7, <1>9 DEF Bwrite
  <2>2. \A i \in 1 .. Len(idequeue) : idequeue[i] # k
    <3>1. owner[k] = p /\ bpc[p] \notin {"iosleep", "iotest"}
      BY <1>7, <2>1 DEF Bwrite, Ownership, OwnerPCs
    <3> QED
      BY <3>1 DEF Queueing
  <2>3. /\ idequeue' = Append(idequeue, k) /\ UNCHANGED <<blockno, valid, disk, irq>>
        /\ \A j \in Bufs : j # k => bdirty'[j] = bdirty[j] /\ bdata'[j] = bdata[j]
        /\ cmd' = IF idequeue = << >> THEN Command(k, bdirty', bdata') ELSE cmd
    BY <1>7, <2>1 DEF Bwrite, Iderw, BufType
  <2>4. valid[k] => bdirty'[k]
    BY <1>7, <2>1 DEF Bwrite, Flags, BufType
  <2>5. \A j \in Bufs : valid'[j] /\ ~bdirty'[j] => bdata'[j] = disk'[blockno'[j]]
    BY <2>3, <2>4 DEF Media
  <2>6. CASE idequeue = << >>
    <3>1. idequeue' # << >> /\ Head(idequeue') = k /\ ~irq'
      BY <2>3, <2>6 DEF Media
    <3>2. cmd' = Command(k, bdirty, bdata)'
      BY <2>3, <2>6 DEF Command
    <3> QED
      BY <2>5, <3>1, <3>2 DEF Media, Command
  <2>7. CASE idequeue # << >>
    <3>1. PICK h \in Bufs : h = Head(idequeue)
      BY <2>7, FirstRequest
    <3>2. h # k /\ idequeue' # << >> /\ Head(idequeue') = h
      <4>1. idequeue \in Seq(Bufs) /\ h = idequeue[1] /\ 1 \in 1 .. Len(idequeue)
        BY <2>7, <3>1, FirstRequest DEF BufType
      <4>2. Head(Append(idequeue, k)) = idequeue[1] /\ Append(idequeue, k) # << >>
        BY <4>1
      <4> QED
        BY <2>2, <2>3, <4>1, <4>2
    <3>3. cmd' = Command(h, bdirty, bdata)'
      BY <2>3, <2>7, <3>1, <3>2 DEF Media, Command
    <3>4. irq' /\ bdirty'[h] => disk'[cmd'.block] = cmd'.data
      BY <2>3, <2>7, <3>1, <3>2 DEF Media
    <3> QED
      BY <2>5, <3>2, <3>3, <3>4 DEF Media, Command
  <2> QED
    BY <2>6, <2>7
<1>8. ASSUME NEW p \in Users, NEW v \in BlockVals, PinBlock(p, v) PROVE Media'
  <2>1. PICK k \in Bufs : k = cur[p]
    BY <1>8, <1>9 DEF PinBlock
  <2>2. \A i \in 1 .. Len(idequeue) : idequeue[i] # k
    <3>1. owner[k] = p /\ bpc[p] \notin {"iosleep", "iotest"}
      BY <1>8, <2>1 DEF PinBlock, Ownership, OwnerPCs
    <3> QED
      BY <3>1 DEF Queueing
  <2>3. /\ UNCHANGED <<blockno, valid, idequeue, cmd, disk, irq>> /\ bdirty'[k]
        /\ \A j \in Bufs : j # k => bdirty'[j] = bdirty[j] /\ bdata'[j] = bdata[j]
    BY <1>8, <2>1 DEF PinBlock, BufType
  <2>4. \A j \in Bufs : valid'[j] /\ ~bdirty'[j] => bdata'[j] = disk'[blockno'[j]]
    BY <2>3 DEF Media
  <2>5. CASE idequeue = << >>
    BY <2>3, <2>4, <2>5 DEF Media
  <2>6. CASE idequeue # << >>
    <3>1. PICK h \in Bufs : h = Head(idequeue) /\ h # k
      BY <2>2, <2>6, FirstRequest
    <3>2. cmd' = Command(h, bdirty, bdata)'
      BY <2>3, <2>6, <3>1 DEF Media, Command
    <3>3. irq' /\ bdirty'[h] => disk'[cmd'.block] = cmd'.data
      BY <2>3, <2>6, <3>1 DEF Media
    <3> QED
      BY <2>3, <2>4, <2>6, <3>1, <3>2, <3>3 DEF Media, Command
  <2> QED
    BY <2>5, <2>6
<1> QED
  BY <1>1, <1>2, <1>3, <1>4, <1>5, <1>6, <1>7, <1>8 DEF BufNext

LEMMA BufInitInv ==
  ASSUME BufInit PROVE BufInv
<1>1. BufType
  <2>1. \A k \in Bufs : NBUF + 1 - k \in Bufs
    BY DEF Bufs
  <2>2. << >> \in Seq(Bufs)
    OBVIOUS
  <2> QED
    BY <2>1, <2>2 DEF BufInit, BufType, BufPCs
<1>2. References
  <2>1. \A k \in Bufs : UsersOf(k) = {}
    BY DEF BufInit, UsersOf, Bufs
  <2> QED
    BY <2>1, FS_EmptySet DEF BufInit, References
<1>3. FewPinned
  <2>1. Pinned = {}
    BY DEF BufInit, Pinned
  <2> QED
    BY <2>1, FS_EmptySet DEF FewPinned
<1>4. Ownership /\ LockSleepersBlocked /\ Flags
  BY DEF BufInit, Ownership, OwnerPCs, LockSleepersBlocked, Flags
<1>5. Queueing /\ Media
  BY DEF BufInit, Queueing, Media
<1> QED
  BY <1>1, <1>2, <1>3, <1>4, <1>5 DEF BufInv

\* The buffer cache and the driver keep their data structures consistent, whatever
\* the order of processes, drive, interrupt and kill(): counts, locks, the request
\* queue, one buffer per block, and clean buffers that agree with the disk.
THEOREM BufInvariance ==
  BufSpec => []BufInv
<1>1. BufInit => BufInv
  BY BufInitInv
<1>2. BufInv /\ [BufNext]_bufVars => BufInv'
  BY BufTypeStep, ReferencesStep, OwnershipStep, QueueingStep, FewPinnedStep, FlagsStep,
     MediaStep, SleepersStep DEF BufInv
<1> QED
  BY <1>1, <1>2, PTL DEF BufSpec

-----------------------------------------------------------------------------
(* A new block finds a buffer.                                              *)

\* Buffers that are dirty and unused are outside the queue.
LEMMA DirtyUnusedPinned ==
  ASSUME BufInv, NEW k \in Bufs, ~Unused(k), refcnt[k] = 0
  PROVE  k \in Pinned
<1>1. bdirty[k]
  BY DEF Unused
<1>2. \A i \in 1 .. Len(idequeue) : idequeue[i] # k
  BY UnusedFree DEF BufInv
<1>3. k \notin Range(idequeue)
  BY <1>2, InQueue DEF BufInv, BufType
<1> QED
  BY <1>1, <1>3 DEF Pinned

\* The image of a finite set is finite and no larger.
LEMMA ImageSmall ==
  ASSUME NEW S, IsFiniteSet(S), NEW f
  PROVE  IsFiniteSet({f[x] : x \in S}) /\ Cardinality({f[x] : x \in S}) <= Cardinality(S)
<1> DEFINE U == {f[x] : x \in S}
           g == [x \in S |-> f[x]]
<1>1. g \in Surjection(S, U)
  BY DEF Surjection
<1> QED
  BY <1>1, FS_Surjection

\* With a buffer for each use beside the pinned ones, bget() finds an unused buffer.
LEMMA BufferIsLeft ==
  ASSUME BufInv, EnoughBuffers PROVE BufferLeft
<1> SUFFICES ASSUME NEW p \in Users, bpc[p] = "idle", \A k \in Bufs : ~Unused(k)
             PROVE  FALSE
  BY DEF BufferLeft
<1> DEFINE Others == Users \ {p}
           Used == {cur[q] : q \in Others}
<1>1. Bufs \subseteq Used \cup Pinned
  <2> SUFFICES ASSUME NEW k \in Bufs, k \notin Pinned PROVE k \in Used
    OBVIOUS
  <2>1. refcnt[k] # 0
    BY DirtyUnusedPinned
  <2>2. UsersOf(k) # {}
    BY <2>1, FS_EmptySet DEF BufInv, References
  <2>3. PICK q \in Users : cur[q] = k
    BY <2>2 DEF UsersOf
  <2>4. q # p
    BY <2>3 DEF BufInv, References, Bufs
  <2> QED
    BY <2>3, <2>4
<1>2. IsFiniteSet(Others) /\ Cardinality(Others) = Cardinality(Users) - 1
  BY FS_RemoveElement
<1>3. IsFiniteSet(Used) /\ Cardinality(Used) <= Cardinality(Others)
  BY <1>2, ImageSmall
<1>4. IsFiniteSet(Bufs) /\ Cardinality(Bufs) = NBUF
  BY FS_Interval DEF Bufs
<1>5. IsFiniteSet(Pinned) /\ Cardinality(Pinned) <= MaxPinned
  <2>1. Pinned \subseteq Bufs
    BY DEF Pinned
  <2> QED
    BY <1>4, <2>1, FS_Subset DEF BufInv, FewPinned
<1>6. /\ IsFiniteSet(Used \cup Pinned)
      /\ Cardinality(Used \cup Pinned) <= Cardinality(Used) + Cardinality(Pinned)
  <2>1. /\ IsFiniteSet(Used \cap Pinned)
        /\ Cardinality(Used \cup Pinned)
             = Cardinality(Used) + Cardinality(Pinned) - Cardinality(Used \cap Pinned)
    BY <1>3, <1>5, FS_Union, FS_Intersection
  <2>2. Cardinality(Used \cap Pinned) \in Nat
    BY <2>1, FS_CardinalityType
  <2>3. Cardinality(Used) \in Nat /\ Cardinality(Pinned) \in Nat
    BY <1>3, <1>5, FS_CardinalityType
  <2>4. IsFiniteSet(Used \cup Pinned)
    BY <1>3, <1>5, FS_Union
  <2> QED
    BY <2>1, <2>2, <2>3, <2>4
<1>7. Cardinality(Bufs) <= Cardinality(Used \cup Pinned)
  BY <1>1, <1>6, FS_Subset
<1>8. /\ Cardinality(Used) \in Nat /\ Cardinality(Pinned) \in Nat /\ Cardinality(Users) \in Nat
      /\ Cardinality(Used \cup Pinned) \in Nat
  BY <1>3, <1>5, <1>6, FS_CardinalityType
<1> QED
  BY <1>2, <1>3, <1>4, <1>5, <1>6, <1>7, <1>8 DEF EnoughBuffers

\* bget() does not panic for want of a buffer if there is one for each use that
\* processes make of buffers at a time, beside the LOGSIZE that log_write() may pin.
\* (param.h has NBUF = LOGSIZE, so this is what the kernel lacks, not what it has.)
THEOREM BufNoPanic ==
  ASSUME EnoughBuffers PROVE BufSpec => []BufferLeft
<1>1. BufInv => BufferLeft
  BY BufferIsLeft
<1> QED
  BY <1>1, BufInvariance, PTL

\* The drive works for the first request, and rests when there is none.
LEMMA DriveWorks ==
  ASSUME BufInv PROVE DriveServesQueue
<1>1. CASE idequeue = << >>
  BY <1>1 DEF BufInv, Media, DriveServesQueue
<1>2. CASE idequeue # << >>
  <2>1. PICK k \in Bufs : k = Head(idequeue)
    BY <1>2, FirstRequest DEF BufInv
  <2>2. cmd = Command(k, bdirty, bdata) /\ cmd.block = blockno[k]
    BY <1>2, <2>1, FirstRequest DEF BufInv
  <2>3. cmd # NoCmd
    BY <2>2 DEF Command, BufInv, BufType
  <2> QED
    BY <1>2, <2>1, <2>2, <2>3 DEF DriveServesQueue
<1> QED
  BY <1>1, <1>2

\* Nobody waits for a buffer in vain (acquiresleep(), iderw()), for every number of
\* processes, blocks and buffers.
THEOREM BufWaitsEnd ==
  BufSpec => []WaitsEnd
<1>1. BufInv => WaitsEnd
  BY DriveWorks DEF BufInv, WaitsEnd
<1> QED
  BY <1>1, BufInvariance, PTL

-----------------------------------------------------------------------------
(* One copy of each block.                                                  *)

\* The refinement mapping as a function of the buffers and the disk.
CurrentOf(bn, va, di, b) == {k \in {l \in Bufs : bn[l] = b} : va[k] \/ di[k]}
ContentOf(bn, va, di, da, dk) ==
  [b \in DiskBlocks |-> IF CurrentOf(bn, va, di, b) = {} THEN dk[b]
                        ELSE da[CHOOSE k \in CurrentOf(bn, va, di, b) : TRUE]]
HolderOf(bn, va, di, ow) ==
  [b \in DiskBlocks |-> IF CurrentOf(bn, va, di, b) = {} THEN NoUser
                        ELSE ow[CHOOSE k \in CurrentOf(bn, va, di, b) : TRUE]]

\* A block with a valid buffer is what that buffer says, another one what the disk says.
Copies(C, H, bn, va, da, ow, dk) ==
  /\ \A k \in Bufs : va[k] => C[bn[k]] = da[k] /\ H[bn[k]] = ow[k]
  /\ \A b \in DiskBlocks :
       (\A k \in Bufs : bn[k] = b => ~va[k]) => C[b] = dk[b] /\ H[b] = NoUser

LEMMA CopyFacts ==
  ASSUME NEW bn \in [Bufs -> DiskBlocks \cup {NoBlock}], NEW va, NEW di, NEW da, NEW ow, NEW dk,
         \A k, l \in Bufs : bn[k] = bn[l] /\ bn[k] # NoBlock => k = l,
         \A k \in Bufs : (va[k] \/ di[k]) => va[k] /\ bn[k] # NoBlock
  PROVE  Copies(ContentOf(bn, va, di, da, dk), HolderOf(bn, va, di, ow), bn, va, da, ow, dk)
<1>1. ASSUME NEW k \in Bufs, va[k]
      PROVE  /\ ContentOf(bn, va, di, da, dk)[bn[k]] = da[k]
             /\ HolderOf(bn, va, di, ow)[bn[k]] = ow[k]
  <2>1. bn[k] \in DiskBlocks
    BY <1>1
  <2>2. CurrentOf(bn, va, di, bn[k]) = {k}
    BY <1>1, <2>1 DEF CurrentOf
  <2>3. (CHOOSE l \in CurrentOf(bn, va, di, bn[k]) : TRUE) = k
    BY <2>2
  <2> QED
    BY <2>1, <2>2, <2>3 DEF ContentOf, HolderOf
<1>2. ASSUME NEW b \in DiskBlocks, \A k \in Bufs : bn[k] = b => ~va[k]
      PROVE  /\ ContentOf(bn, va, di, da, dk)[b] = dk[b]
             /\ HolderOf(bn, va, di, ow)[b] = NoUser
  <2>1. CurrentOf(bn, va, di, b) = {}
    BY <1>2 DEF CurrentOf
  <2> QED
    BY <2>1 DEF ContentOf, HolderOf
<1> QED
  BY <1>1, <1>2 DEF Copies

\* Two functions on the blocks are the same, or differ in one block.
LEMMA SameOn ==
  ASSUME NEW S, NEW U, NEW f \in [S -> U], NEW g \in [S -> U], \A x \in S : f[x] = g[x]
  PROVE  f = g
OBVIOUS

LEMMA DiffersAt ==
  ASSUME NEW S, NEW U, NEW f \in [S -> U], NEW g \in [S -> U], NEW a \in S, NEW v, g[a] = v,
         \A x \in S : x # a => g[x] = f[x]
  PROVE  g = [f EXCEPT ![a] = v]
OBVIOUS

LEMMA CopyTypes ==
  ASSUME NEW bn, NEW va, NEW di, NEW da \in [Bufs -> BlockVals], NEW ow \in [Bufs -> Users \cup {NoUser}],
         NEW dk \in [DiskBlocks -> BlockVals]
  PROVE  /\ ContentOf(bn, va, di, da, dk) \in [DiskBlocks -> BlockVals]
         /\ HolderOf(bn, va, di, ow) \in [DiskBlocks -> Users \cup {NoUser}]
<1>1. \A b : CurrentOf(bn, va, di, b) # {} =>
               (CHOOSE k \in CurrentOf(bn, va, di, b) : TRUE) \in Bufs
  BY DEF CurrentOf
<1> QED
  BY <1>1 DEF ContentOf, HolderOf

\* A step of the store, or none.
StoreMoves == [Store!StoreNext]_(Store!storeVars)

\* Every step is a step of the store, or none.
LEMMA StoreStep ==
  ASSUME BufType, References, Ownership, Queueing, Flags, Media, BufType', Flags', [BufNext]_bufVars PROVE StoreMoves
<1> USE DEF flagVars, driveVars, StoreMoves
<1>9. \A q \in Users : bpc[q] # "idle" => cur[q] \in Bufs
  BY RefPositive
<1>9a. \A q \in Users : bpc[q] # "idle" => blockno[cur[q]] \in DiskBlocks
  BY <1>9 DEF Flags, BufType
<1>10. ASSUME UNCHANGED <<blockno, valid, bdirty, bdata, owner, disk>> PROVE StoreMoves
  BY <1>10 DEF Store!storeVars, BlockContent, BlockHolder, Current, Cached
<1>11. Copies(BlockContent, BlockHolder, blockno, valid, bdata, owner, disk)
  <2>1. /\ BlockContent = ContentOf(blockno, valid, bdirty, bdata, disk)
        /\ BlockHolder = HolderOf(blockno, valid, bdirty, owner)
    BY DEF BlockContent, BlockHolder, ContentOf, HolderOf, Current, CurrentOf, Cached
  <2>2. /\ blockno \in [Bufs -> DiskBlocks \cup {NoBlock}]
        /\ \A k, l \in Bufs : blockno[k] = blockno[l] /\ blockno[k] # NoBlock => k = l
        /\ \A k \in Bufs : (valid[k] \/ bdirty[k]) => valid[k] /\ blockno[k] # NoBlock
    BY DEF BufType, Flags
  <2> QED
    BY <2>1, <2>2, CopyFacts
<1>12. Copies(BlockContent', BlockHolder', blockno', valid', bdata', owner', disk')
  <2>1. /\ BlockContent' = ContentOf(blockno', valid', bdirty', bdata', disk')
        /\ BlockHolder' = HolderOf(blockno', valid', bdirty', owner')
    BY DEF BlockContent, BlockHolder, ContentOf, HolderOf, Current, CurrentOf, Cached
  <2>2. /\ blockno' \in [Bufs -> DiskBlocks \cup {NoBlock}]
        /\ \A k, l \in Bufs : blockno'[k] = blockno'[l] /\ blockno'[k] # NoBlock => k = l
        /\ \A k \in Bufs : (valid'[k] \/ bdirty'[k]) => valid'[k] /\ blockno'[k] # NoBlock
    BY DEF BufType, Flags
  <2> QED
    BY <2>1, <2>2, CopyFacts
<1>13. /\ BlockContent \in [DiskBlocks -> BlockVals] /\ BlockContent' \in [DiskBlocks -> BlockVals]
       /\ BlockHolder \in [DiskBlocks -> Users \cup {NoUser}]
       /\ BlockHolder' \in [DiskBlocks -> Users \cup {NoUser}]
  <2>1. /\ BlockContent = ContentOf(blockno, valid, bdirty, bdata, disk)
        /\ BlockHolder = HolderOf(blockno, valid, bdirty, owner)
        /\ BlockContent' = ContentOf(blockno', valid', bdirty', bdata', disk')
        /\ BlockHolder' = HolderOf(blockno', valid', bdirty', owner')
    BY DEF BlockContent, BlockHolder, ContentOf, HolderOf, Current, CurrentOf, Cached
  <2> QED
    BY <2>1, CopyTypes DEF BufType
<1>1. CASE UNCHANGED bufVars
  BY <1>1, <1>10 DEF bufVars
<1>2. CASE Drive
  <2>1. idequeue # << >>
    BY <1>2 DEF Drive, Media
  <2>2. PICK h \in Bufs : h = Head(idequeue)
    BY <2>1, FirstRequest
  <2>3. PICK c \in DiskBlocks : c = blockno[h]
    BY <2>1, <2>2, FirstRequest
  <2>4. /\ cmd.block = c /\ cmd.data = bdata[h] /\ (cmd.op = "write" <=> bdirty[h]) /\ owner[h] \in Users
    BY <2>1, <2>2, <2>3, FirstRequest
  <2>5. UNCHANGED <<blockno, valid, bdirty, bdata, owner>>
    BY <1>2 DEF Drive
  <2>6. CASE cmd.op = "write"
    <3>1. valid[h] /\ disk' = [disk EXCEPT ![c] = bdata[h]]
      BY <1>2, <2>4, <2>6 DEF Drive, Flags
    <3>2. BlockContent[c] = bdata[h] /\ BlockHolder[c] # NoUser
      BY <1>11, <2>3, <2>4, <3>1 DEF Copies
    <3>3. ASSUME NEW x \in DiskBlocks
          PROVE  BlockContent'[x] = BlockContent[x] /\ BlockHolder'[x] = BlockHolder[x]
      <4>1. CASE \E j \in Bufs : blockno[j] = x /\ valid[j]
        BY <1>11, <1>12, <2>5, <4>1 DEF Copies
      <4>2. CASE \A j \in Bufs : blockno[j] = x => ~valid[j]
        <5>1. x # c /\ disk'[x] = disk[x]
          BY <2>3, <3>1, <4>2 DEF BufType
        <5> QED
          BY <1>11, <1>12, <2>5, <4>2, <5>1 DEF Copies
      <4> QED
        BY <4>1, <4>2
    <3>4. BlockContent' = BlockContent
      BY <1>13, <3>3, SameOn
    <3>5. BlockHolder' = BlockHolder
      BY <1>13, <3>3, SameOn
    <3> QED
      BY <3>1, <3>2, <3>4, <3>5 DEF Store!Sync, Store!StoreNext
  <2>7. CASE cmd.op # "write"
    BY <1>2, <2>7, <1>10 DEF Drive
  <2> QED
    BY <2>6, <2>7
<1>3. CASE IdeIntr
  <2>1. PICK h \in Bufs : h = Head(idequeue)
    BY <1>3, FirstRequest DEF IdeIntr
  <2>2. PICK c \in DiskBlocks : c = blockno[h]
    BY <1>3, <2>1, FirstRequest DEF IdeIntr
  <2>3. /\ cmd.block = c /\ owner[h] \in Users /\ (bdirty[h] \/ ~valid[h])
    BY <1>3, <2>1, <2>2, FirstRequest DEF IdeIntr
  <2>4. /\ UNCHANGED <<blockno, owner, disk>> /\ valid'[h]
        /\ \A j \in Bufs : j # h => valid'[j] = valid[j] /\ bdata'[j] = bdata[j]
        /\ bdata'[h] = IF bdirty[h] THEN bdata[h] ELSE disk[c]
    BY <1>3, <2>1, <2>3 DEF IdeIntr, BufType
  <2>5. ASSUME NEW x \in DiskBlocks, x # c
        PROVE  BlockContent'[x] = BlockContent[x] /\ BlockHolder'[x] = BlockHolder[x]
    <3>1. CASE \E j \in Bufs : blockno[j] = x /\ valid[j]
      BY <1>11, <1>12, <2>2, <2>4, <2>5, <3>1 DEF Copies
    <3>2. CASE \A j \in Bufs : blockno[j] = x => ~valid[j]
      <4>1. \A j \in Bufs : blockno'[j] = x => ~valid'[j]
        BY <2>2, <2>4, <2>5, <3>2
      <4> QED
        BY <1>11, <1>12, <2>4, <3>2, <4>1 DEF Copies
    <3> QED
      BY <3>1, <3>2
  <2>6. BlockContent'[c] = bdata'[h] /\ BlockHolder'[c] = owner[h]
    BY <1>12, <2>2, <2>4 DEF Copies
  <2>7. CASE bdirty[h]
    <3>1. BlockContent[c] = bdata[h] /\ BlockHolder[c] = owner[h]
      BY <1>11, <2>2, <2>7 DEF Copies, Flags
    <3>2. \A x \in DiskBlocks : BlockContent'[x] = BlockContent[x] /\ BlockHolder'[x] = BlockHolder[x]
      BY <2>4, <2>5, <2>6, <2>7, <3>1
    <3>3. BlockContent' = BlockContent
      BY <1>13, <3>2, SameOn
    <3>4. BlockHolder' = BlockHolder
      BY <1>13, <3>2, SameOn
    <3> QED
      BY <2>4, <3>3, <3>4 DEF Store!storeVars
  <2>8. CASE ~bdirty[h]
    <3>1. \A j \in Bufs : blockno[j] = c => ~valid[j]
      BY <2>2, <2>3, <2>8 DEF Flags
    <3>2. BlockContent[c] = disk[c] /\ BlockHolder[c] = NoUser
      BY <1>11, <3>1 DEF Copies
    <3>3. \A x \in DiskBlocks : BlockContent'[x] = BlockContent[x]
      BY <2>4, <2>5, <2>6, <2>8, <3>2
    <3>4. BlockContent' = BlockContent
      BY <1>13, <3>3, SameOn
    <3>5. BlockHolder' = [BlockHolder EXCEPT ![c] = owner[h]]
      BY <1>13, <2>5, <2>6, DiffersAt, ZenonT(60)
    <3> QED
      BY <2>3, <2>4, <3>2, <3>4, <3>5 DEF Store!Get, Store!StoreNext
  <2> QED
    BY <2>7, <2>8
<1>4. ASSUME NEW p \in Users, BufStep(p) \/ KillWakesUser(p) PROVE StoreMoves
  <2>1. CASE AcquireSleep(p)
    <3>1. PICK k \in Bufs : k = cur[p]
      BY <2>1, <1>9 DEF AcquireSleep
    <3>2. PICK c \in DiskBlocks : c = blockno[k]
      BY <2>1, <1>9a, <3>1 DEF AcquireSleep
    <3>3. /\ UNCHANGED <<blockno, valid, bdata, disk>> /\ owner[k] = NoUser /\ owner'[k] = p
          /\ \A j \in Bufs : j # k => owner'[j] = owner[j]
      BY <2>1, <3>1 DEF AcquireSleep, BufType
    <3>4. \A x \in DiskBlocks : BlockContent'[x] = BlockContent[x]
      BY <1>11, <1>12, <3>3 DEF Copies
    <3>5. BlockContent' = BlockContent
      BY <1>13, <3>4, SameOn
    <3>6. CASE valid[k]
      <4>1. BlockHolder[c] = NoUser /\ BlockHolder'[c] = p
        BY <1>11, <1>12, <3>2, <3>3, <3>6 DEF Copies
      <4>2. \A x \in DiskBlocks : x # c => BlockHolder'[x] = BlockHolder[x]
        <5> SUFFICES ASSUME NEW x \in DiskBlocks, x # c PROVE BlockHolder'[x] = BlockHolder[x]
          OBVIOUS
        <5>1. CASE \E j \in Bufs : blockno[j] = x /\ valid[j]
          BY <1>11, <1>12, <3>2, <3>3, <5>1 DEF Copies
        <5>2. CASE \A j \in Bufs : blockno[j] = x => ~valid[j]
          BY <1>11, <1>12, <3>3, <5>2 DEF Copies
        <5> QED
          BY <5>1, <5>2
      <4>3. BlockHolder' = [BlockHolder EXCEPT ![c] = p]
        BY <1>13, <4>1, <4>2, DiffersAt, ZenonT(60)
      <4> QED
        BY <3>3, <3>5, <4>1, <4>3 DEF Store!Get, Store!StoreNext
    <3>7. CASE ~valid[k]
      <4>1. \A j \in Bufs : valid[j] => owner'[j] = owner[j]
        BY <3>3, <3>7
      <4>2. \A x \in DiskBlocks : BlockHolder'[x] = BlockHolder[x]
        BY <1>11, <1>12, <3>3, <4>1 DEF Copies
      <4>3. BlockHolder' = BlockHolder
        BY <1>13, <4>2, SameOn
      <4> QED
        BY <3>3, <3>5, <4>3 DEF Store!storeVars
    <3> QED
      BY <3>6, <3>7
  <2>2. CASE LockSleep(p)
    BY <2>2, <1>10 DEF LockSleep
  <2>3. CASE ReadBlock(p)
    BY <2>3, <1>10 DEF ReadBlock, Iderw
  <2>4. CASE IoTest(p)
    BY <2>4, <1>10 DEF IoTest
  <2>5. CASE BrelseUnlock(p)
    <3>1. PICK k \in Bufs : k = cur[p]
      BY <2>5, <1>9 DEF BrelseUnlock
    <3>2. PICK c \in DiskBlocks : c = blockno[k]
      BY <2>5, <1>9a, <3>1 DEF BrelseUnlock
    <3>3. valid[k] /\ owner[k] = p
      BY <2>5, <3>1 DEF BrelseUnlock, Flags, Ownership, OwnerPCs
    <3>4. /\ UNCHANGED <<blockno, valid, bdata, disk>> /\ owner'[k] = NoUser
          /\ \A j \in Bufs : j # k => owner'[j] = owner[j]
      BY <2>5, <3>1 DEF BrelseUnlock, BufType
    <3>5. \A x \in DiskBlocks : BlockContent'[x] = BlockContent[x]
      BY <1>11, <1>12, <3>4 DEF Copies
    <3>6. BlockContent' = BlockContent
      BY <1>13, <3>5, SameOn
    <3>7. BlockHolder[c] = p /\ BlockHolder'[c] = NoUser
      BY <1>11, <1>12, <3>2, <3>3, <3>4 DEF Copies
    <3>8. \A x \in DiskBlocks : x # c => BlockHolder'[x] = BlockHolder[x]
      <4> SUFFICES ASSUME NEW x \in DiskBlocks, x # c PROVE BlockHolder'[x] = BlockHolder[x]
        OBVIOUS
      <4>1. CASE \E j \in Bufs : blockno[j] = x /\ valid[j]
        BY <1>11, <1>12, <3>2, <3>4, <4>1 DEF Copies
      <4>2. CASE \A j \in Bufs : blockno[j] = x => ~valid[j]
        BY <1>11, <1>12, <3>4, <4>2 DEF Copies
      <4> QED
        BY <4>1, <4>2
    <3>9. BlockHolder' = [BlockHolder EXCEPT ![c] = NoUser]
      BY <1>13, <3>7, <3>8, DiffersAt, ZenonT(60)
    <3> QED
      BY <3>4, <3>6, <3>7, <3>9 DEF Store!Drop, Store!StoreNext
  <2>6. CASE BrelseUnref(p)
    BY <2>6, <1>10 DEF BrelseUnref
  <2>7. CASE KillWakesUser(p)
    BY <2>7, <1>10 DEF KillWakesUser
  <2> QED
    BY <1>4, <2>1, <2>2, <2>3, <2>4, <2>5, <2>6, <2>7 DEF BufStep
<1>5. ASSUME NEW p \in Users, NEW b \in DiskBlocks, BgetHit(p, b) PROVE StoreMoves
  BY <1>5, <1>10 DEF BgetHit
<1>6. ASSUME NEW p \in Users, NEW b \in DiskBlocks, BgetRecycle(p, b) PROVE StoreMoves
  <2>1. PICK k \in Bufs : Recycled(p, b, k)
    BY <1>6, RecycleFacts
  <2>2. UNCHANGED <<owner, bdata, disk>> /\ Cached(b) = {}
    BY <1>6, RecycleFacts
  <2>3. /\ ~bdirty[k] /\ owner[k] = NoUser /\ ~valid'[k] /\ blockno'[k] = b
        /\ \A j \in Bufs : j # k => blockno'[j] = blockno[j] /\ valid'[j] = valid[j]
    BY <2>1 DEF Recycled
  <2>4. ASSUME NEW x \in DiskBlocks
        PROVE  BlockContent'[x] = BlockContent[x] /\ BlockHolder'[x] = BlockHolder[x]
    <3>1. CASE \E j \in Bufs : j # k /\ blockno[j] = x /\ valid[j]
      BY <1>11, <1>12, <2>2, <2>3, <3>1 DEF Copies
    <3>2. CASE blockno[k] = x /\ valid[k]
      <4>1. bdata[k] = disk[x]
        BY <2>3, <3>2 DEF Media
      <4>2. BlockContent[x] = disk[x] /\ BlockHolder[x] = NoUser
        BY <1>11, <2>3, <3>2, <4>1 DEF Copies
      <4>3. \A j \in Bufs : j # k => blockno[j] # x
        BY <3>2 DEF Flags
      <4>4. \A j \in Bufs : blockno'[j] = x => ~valid'[j]
        BY <2>3, <4>3
      <4> QED
        BY <1>12, <2>2, <4>2, <4>4 DEF Copies
    <3>3. CASE \A j \in Bufs : blockno[j] = x => ~valid[j]
      <4>1. \A j \in Bufs : blockno'[j] = x => ~valid'[j]
        BY <2>3, <3>3
      <4> QED
        BY <1>11, <1>12, <2>2, <3>3, <4>1 DEF Copies
    <3> QED
      BY <3>1, <3>2, <3>3
  <2>5. BlockContent' = BlockContent
    BY <1>13, <2>4, SameOn
  <2>6. BlockHolder' = BlockHolder
    BY <1>13, <2>4, SameOn
  <2> QED
    BY <2>2, <2>5, <2>6 DEF Store!storeVars
<1>7. ASSUME NEW p \in Users, NEW v \in BlockVals, Bwrite(p, v) PROVE StoreMoves
  <2>1. PICK k \in Bufs : k = cur[p]
    BY <1>7, <1>9 DEF Bwrite
  <2>2. PICK c \in DiskBlocks : c = blockno[k]
    BY <1>7, <1>9a, <2>1 DEF Bwrite
  <2>3. valid[k] /\ owner[k] = p
    BY <1>7, <2>1 DEF Bwrite, Flags, Ownership, OwnerPCs
  <2>4. /\ UNCHANGED <<blockno, valid, owner, disk>> /\ bdata'[k] = v
        /\ \A j \in Bufs : j # k => bdata'[j] = bdata[j]
    BY <1>7, <2>1 DEF Bwrite, Iderw, BufType
  <2>5. \A x \in DiskBlocks : BlockHolder'[x] = BlockHolder[x]
    BY <1>11, <1>12, <2>4 DEF Copies
  <2>6. \A x \in DiskBlocks : x # c => BlockContent'[x] = BlockContent[x]
    <3> SUFFICES ASSUME NEW x \in DiskBlocks, x # c PROVE BlockContent'[x] = BlockContent[x]
      OBVIOUS
    <3>1. CASE \E j \in Bufs : blockno[j] = x /\ valid[j]
      BY <1>11, <1>12, <2>2, <2>4, <3>1 DEF Copies
    <3>2. CASE \A j \in Bufs : blockno[j] = x => ~valid[j]
      BY <1>11, <1>12, <2>4, <3>2 DEF Copies
    <3> QED
      BY <3>1, <3>2
  <2>7. BlockContent'[c] = v /\ BlockHolder[c] = p
    BY <1>11, <1>12, <2>2, <2>3, <2>4 DEF Copies
  <2>8. BlockContent' = [BlockContent EXCEPT ![c] = v]
    BY <1>13, <2>6, <2>7, DiffersAt, ZenonT(60)
  <2>9. BlockHolder' = BlockHolder
    BY <1>13, <2>5, SameOn
  <2> QED
    BY <2>4, <2>7, <2>8, <2>9 DEF Store!Put, Store!StoreNext
<1>8. ASSUME NEW p \in Users, NEW v \in BlockVals, PinBlock(p, v) PROVE StoreMoves
  <2>1. PICK k \in Bufs : k = cur[p]
    BY <1>8, <1>9 DEF PinBlock
  <2>2. PICK c \in DiskBlocks : c = blockno[k]
    BY <1>8, <1>9a, <2>1 DEF PinBlock
  <2>3. valid[k] /\ owner[k] = p
    BY <1>8, <2>1 DEF PinBlock, Flags, Ownership, OwnerPCs
  <2>4. /\ UNCHANGED <<blockno, valid, owner, disk>> /\ bdata'[k] = v
        /\ \A j \in Bufs : j # k => bdata'[j] = bdata[j]
    BY <1>8, <2>1 DEF PinBlock, Iderw, BufType
  <2>5. \A x \in DiskBlocks : BlockHolder'[x] = BlockHolder[x]
    BY <1>11, <1>12, <2>4 DEF Copies
  <2>6. \A x \in DiskBlocks : x # c => BlockContent'[x] = BlockContent[x]
    <3> SUFFICES ASSUME NEW x \in DiskBlocks, x # c PROVE BlockContent'[x] = BlockContent[x]
      OBVIOUS
    <3>1. CASE \E j \in Bufs : blockno[j] = x /\ valid[j]
      BY <1>11, <1>12, <2>2, <2>4, <3>1 DEF Copies
    <3>2. CASE \A j \in Bufs : blockno[j] = x => ~valid[j]
      BY <1>11, <1>12, <2>4, <3>2 DEF Copies
    <3> QED
      BY <3>1, <3>2
  <2>7. BlockContent'[c] = v /\ BlockHolder[c] = p
    BY <1>11, <1>12, <2>2, <2>3, <2>4 DEF Copies
  <2>8. BlockContent' = [BlockContent EXCEPT ![c] = v]
    BY <1>13, <2>6, <2>7, DiffersAt, ZenonT(60)
  <2>9. BlockHolder' = BlockHolder
    BY <1>13, <2>5, SameOn
  <2> QED
    BY <2>4, <2>7, <2>8, <2>9 DEF Store!Put, Store!StoreNext
<1> QED
  BY <1>1, <1>2, <1>3, <1>4, <1>5, <1>6, <1>7, <1>8 DEF BufNext

\* The buffer cache is one copy of each block that one process at a time uses: it
\* implements BlockStore, whichever buffers bget() recycles and whenever the drive
\* answers.
THEOREM BufOneCopy == BufSpec => OneCopy
<1>1. BufInit => Store!StoreInit
  <2> SUFFICES ASSUME BufInit PROVE Store!StoreInit
    OBVIOUS
  <2>1. \A b \in DiskBlocks : Current(b) = {}
    BY DEF BufInit, Current, Cached
  <2>2. BlockContent = disk /\ BlockHolder = [b \in DiskBlocks |-> NoUser]
    BY <2>1 DEF BufInit, BlockContent, BlockHolder
  <2> QED
    BY <2>2 DEF BufInit, Store!StoreInit
<1>2. BufInv /\ BufInv' /\ [BufNext]_bufVars => [Store!StoreNext]_(Store!storeVars)
  BY StoreStep DEF BufInv, StoreMoves
<1> QED
  BY <1>1, <1>2, BufInvariance, PTL DEF BufSpec, OneCopy, Store!StoreSpec

-----------------------------------------------------------------------------
(* The log.  Three layers: types, who may be where (Phases), and how the    *)
(* disk, the log and the cache agree (Data).                                *)

HIDE BufCacheAssumption

USE LogAssumption

-----------------------------------------------------------------------------
(* The layers of the invariant.                                             *)

Distinct(s) == \A i, j \in DOMAIN s : s[i] = s[j] => i = j

\* The log names a block once, and fits its slots.
Shape ==
  /\ TypeOK
  /\ Distinct(lh) /\ Distinct(head) /\ Len(lh) <= LOGSIZE /\ Len(head) <= LOGSIZE

OpProcs == {p \in Procs : pc[p] = "op"}
CommitPCs == {"write_log", "write_head", "install_trans", "committed"}

\* The first process recovers and nobody else is there.
RecoveryPhase ==
  /\ ~committing /\ outstanding = 0
  /\ pc[First] \in {"read_head", "install_trans"}
  /\ \A p \in Procs : p # First => pc[p] = "off"

RunPhase == ~committing /\ \A p \in Procs : pc[p] \in {"idle", "begin_op", "asleep", "op"}

\* One process commits and no operation is under way.
CommitPhase ==
  /\ committing /\ outstanding = 0
  /\ \E c \in Procs :
       /\ pc[c] \in CommitPCs
       /\ \A p \in Procs : p # c => pc[p] \in {"idle", "begin_op", "asleep"}

Phases ==
  /\ RecoveryPhase \/ RunPhase \/ CommitPhase
  /\ outstanding = Cardinality(OpProcs)

\* A buffer without B_DIRTY agrees with the disk, and those with it are in the log.
CacheClean ==
  /\ \A b \in Blocks : b \notin dirty /\ cache[b] # NoBuf => cache[b] = home[b]
  /\ \A b \in dirty : cache[b] # NoBuf
  /\ dirty \subseteq Logged

\* The log block of slot i holds what file system code sees of block lh[i].
CopyOf(i) == lh[i] \in dirty /\ logblk[i] = cache[lh[i]]
Installed(i) == lh[i] \notin dirty /\ home[lh[i]] = logblk[i]

\* Until the header is written nothing on disk speaks of the log; from then on
\* the slots before tail are installed, and the others are copies of the cache.
Data ==
  /\ CacheClean
  /\ \A p \in Procs : pc[p] \in {"idle", "op", "begin_op", "asleep"} /\ ~committing =>
       head = <<>> /\ Logged \subseteq dirty
  /\ \A p \in Procs : pc[p] = "write_log" =>
       /\ head = <<>> /\ Logged \subseteq dirty /\ tail[p] \in 1 .. Len(lh)
       /\ \A i \in 1 .. Len(lh) : i < tail[p] => CopyOf(i)
  /\ \A p \in Procs : pc[p] = "write_head" => head = <<>> /\ \A i \in 1 .. Len(lh) : CopyOf(i)
  /\ \A p \in Procs : pc[p] = "install_trans" =>
       /\ head = lh /\ tail[p] >= 1
       /\ \A i \in 1 .. Len(lh) : i < tail[p] => Installed(i)
       /\ committing => \A i \in 1 .. Len(lh) : i >= tail[p] => CopyOf(i)
  /\ \A p \in Procs : pc[p] = "committed" => head = <<>> /\ lh = <<>>
  /\ RecoveryPhase => dirty = {}

LogInv == Shape /\ Phases /\ Data

-----------------------------------------------------------------------------
(* Types and the shape of the log.                                          *)

\* Appending a block that is not there keeps the blocks distinct.
LEMMA AppendDistinct ==
  ASSUME NEW s \in Seq(Blocks), NEW b \in Blocks, Distinct(s), \A i \in DOMAIN s : s[i] # b
  PROVE  /\ Append(s, b) \in Seq(Blocks) /\ Len(Append(s, b)) = Len(s) + 1
         /\ Distinct(Append(s, b))
         /\ {Append(s, b)[i] : i \in DOMAIN Append(s, b)} = {s[i] : i \in DOMAIN s} \cup {b}
BY DEF Distinct

\* The operations under way are finitely many, and counted by outstanding.
LEMMA OpActive ==
  ASSUME Shape, Phases, NEW p \in Procs, pc[p] = "op"
  PROVE  /\ IsFiniteSet(OpProcs) /\ Cardinality(OpProcs) \in Nat
         /\ outstanding = Cardinality(OpProcs) /\ outstanding > 0
         /\ Cardinality(OpProcs \ {p}) = outstanding - 1
<1>1. IsFiniteSet(OpProcs) /\ p \in OpProcs
  BY FS_Subset DEF OpProcs
<1>2. Cardinality(OpProcs) \in Nat /\ (Cardinality(OpProcs) = 0 <=> OpProcs = {})
  BY <1>1, FS_CardinalityType, FS_EmptySet
<1>3. Cardinality(OpProcs \ {p}) = Cardinality(OpProcs) - 1
  BY <1>1, FS_RemoveElement
<1> QED
  BY <1>1, <1>2, <1>3 DEF Phases

\* A log without entries is well formed.
LEMMA EmptyLog ==
  << >> \in Seq(Blocks) /\ Distinct(<< >>) /\ Len(<< >>) = 0 /\ 0 <= LOGSIZE
BY DEF Distinct

\* The initial state has the shape of a log.
LEMMA ShapeInit == LogInit => Shape
<1> SUFFICES ASSUME LogInit PROVE Shape
  OBVIOUS
<1>1. wrote \in [Procs -> SUBSET Blocks] /\ dirty \in SUBSET Blocks
  BY ZenonT(60) DEF LogInit
<1>2. cache \in [Blocks -> Vals \cup {NoBuf}] /\ tail \in [Procs -> Nat] /\ pc \in [Procs -> PCs]
  BY DEF LogInit, PCs
<1>3. TypeOK
  BY <1>1, <1>2, EmptyLog DEF LogInit, TypeOK
<1> QED
  BY <1>3, EmptyLog DEF LogInit, Shape

\* Every step keeps types, distinctness and lengths.
LEMMA ShapeStep ==
  ASSUME LogInv, [LogNext]_logVars PROVE Shape'
<1>0. Shape
  BY DEF LogInv
<1>9. ASSUME NEW p \in Procs PROVE [wrote EXCEPT ![p] = {}] \in [Procs -> SUBSET Blocks]
  BY <1>0, ZenonT(60) DEF Shape, TypeOK
<1> USE <1>0 DEF TypeOK, PCs, diskVars
<1>1. CASE UNCHANGED logVars
  BY <1>1 DEF Shape, logVars, Distinct
<1>2. ASSUME NEW p \in Procs, LogStep(p) PROVE Shape'
  <2>1. CASE BeginCall(p)
    BY <2>1 DEF Shape, Distinct, BeginCall
  <2>2. CASE BeginOp(p)
    <3>1. wrote' \in [Procs -> SUBSET Blocks]
      <4>1. CASE wrote' = wrote
        BY <4>1 DEF Shape
      <4>2. CASE wrote' = [wrote EXCEPT ![p] = {}]
        BY <4>2, <1>9
      <4> QED
        BY <2>2, <4>1, <4>2 DEF BeginOp
    <3>2. \/ outstanding' = outstanding /\ pc' = [pc EXCEPT ![p] = "asleep"]
          \/ outstanding' = outstanding + 1 /\ pc' = [pc EXCEPT ![p] = "op"]
      BY <2>2 DEF BeginOp
    <3>3. outstanding' \in Nat /\ pc' \in [Procs -> PCs]
      <4>1. CASE outstanding' = outstanding /\ pc' = [pc EXCEPT ![p] = "asleep"]
        BY <4>1 DEF Shape
      <4>2. CASE outstanding' = outstanding + 1 /\ pc' = [pc EXCEPT ![p] = "op"]
        BY <4>2 DEF Shape
      <4> QED
        BY <3>2, <4>1, <4>2
    <3> QED
      BY <2>2, <3>1, <3>3 DEF Shape, Distinct, BeginOp
  <2>3. CASE KillWakes(p)
    BY <2>3 DEF Shape, Distinct, KillWakes
  <2>4. CASE EndOp(p)
    <3>1. outstanding > 0
      BY <2>4, OpActive DEF EndOp, LogInv
    <3> QED
      BY <2>4, <3>1, <1>9 DEF Shape, Distinct, EndOp, Awake
  <2>5. CASE EndCommit(p)
    BY <2>5 DEF Shape, Distinct, EndCommit, Awake
  <2>6. CASE WriteLog(p)
    <3>1. tail[p] \in 1 .. Len(lh)
      BY <2>6 DEF WriteLog, LogInv, Data
    <3>2. lh[tail[p]] \in Blocks /\ tail[p] \in Slots
      BY <3>1 DEF Shape, Slots
    <3>3. Contents(lh[tail[p]]) \in Vals
      BY <3>2 DEF Shape, Contents
    <3>4. logblk' \in [Slots -> Vals] /\ cache' \in [Blocks -> Vals \cup {NoBuf}]
      BY <2>6, <3>2, <3>3 DEF Shape, WriteLog
    <3>5. tail' \in [Procs -> Nat] /\ pc' \in [Procs -> PCs]
      <4>1. CASE tail[p] < Len(lh)
        BY <2>6, <4>1 DEF Shape, WriteLog
      <4>2. CASE ~(tail[p] < Len(lh))
        BY <2>6, <4>2 DEF Shape, WriteLog
      <4> QED
        BY <4>1, <4>2
    <3> QED
      BY <2>6, <3>4, <3>5 DEF Shape, Distinct, WriteLog
  <2>7. CASE WriteHead(p)
    BY <2>7 DEF Shape, Distinct, WriteHead
  <2>8. CASE InstallTrans(p)
    <3>1. tail[p] \in 1 .. Len(lh)
      BY <2>8 DEF InstallTrans, LogInv, Data, Shape
    <3>2. lh[tail[p]] \in Blocks /\ logblk[tail[p]] \in Vals
      BY <3>1 DEF Shape, Slots
    <3> QED
      BY <2>8, <3>1, <3>2 DEF Shape, Distinct, InstallTrans
  <2>9. CASE ClearHead(p)
    BY <2>9 DEF Shape, Distinct, ClearHead
  <2>10. CASE ReadHead(p)
    BY <2>10 DEF Shape, Distinct, ReadHead
  <2>11. ASSUME NEW b \in Blocks, NEW v \in Vals, LogWrite(p, b, v) PROVE Shape'
    <3>1. CASE b \in Logged
      BY <2>11, <3>1 DEF Shape, Distinct, LogWrite
    <3>2. CASE b \notin Logged
      <4>1. lh' = Append(lh, b) /\ Len(lh) < LOGSIZE
        BY <2>11, <3>2 DEF LogWrite, Fits
      <4>2. lh' \in Seq(Blocks) /\ Len(lh') = Len(lh) + 1 /\ Distinct(lh')
        BY <3>2, <4>1, AppendDistinct DEF Shape, Logged
      <4> QED
        BY <2>11, <4>1, <4>2 DEF Shape, Distinct, LogWrite
    <3> QED
      BY <3>1, <3>2
  <2> QED
    BY <1>2, <2>1, <2>2, <2>3, <2>4, <2>5, <2>6, <2>7, <2>8, <2>9, <2>10, <2>11
       DEF LogStep, CommitStep
<1>3. ASSUME NEW b \in Blocks, Bread(b) \/ Recycle(b) PROVE Shape'
  BY <1>3 DEF Shape, Distinct, Bread, Recycle
<1>4. CASE Crash
  <2>1. wrote' \in [Procs -> SUBSET Blocks] /\ dirty' \in SUBSET Blocks
    BY <1>4, ZenonT(60) DEF Crash
  <2>2. /\ cache' \in [Blocks -> Vals \cup {NoBuf}] /\ tail' \in [Procs -> Nat]
        /\ pc' \in [Procs -> PCs]
    BY <1>4 DEF Crash
  <2>3. TypeOK'
    BY <1>4, <2>1, <2>2, EmptyLog DEF Shape, Crash
  <2> QED
    BY <1>4, <2>3, EmptyLog DEF Shape, Distinct, Crash
<1> QED
  BY <1>1, <1>2, <1>3, <1>4 DEF LogNext

-----------------------------------------------------------------------------
(* Who may be where.                                                        *)

Waiting == {"idle", "begin_op", "asleep"}

\* The place a process has reached tells the phase of the system.
LEMMA PhaseOf ==
  ASSUME Shape, Phases, NEW p \in Procs
  PROVE  /\ Recovering <=> RecoveryPhase
         /\ pc[p] \in Waiting => RunPhase \/ CommitPhase
         /\ pc[p] = "op" => RunPhase
         /\ pc[p] \in {"write_log", "write_head", "committed"} => committing
         /\ pc[p] = "read_head" => RecoveryPhase
         /\ pc[p] = "install_trans" => committing \/ RecoveryPhase
         /\ RecoveryPhase /\ pc[p] # "off" => p = First
         /\ committing => outstanding = 0
         /\ pc[p] \in CommitPCs /\ committing =>
              \A q \in Procs : q # p => pc[q] \in Waiting
         /\ RunPhase => ~RecoveryPhase /\ ~CommitPhase
         /\ RecoveryPhase => ~CommitPhase
<1> USE DEF Shape, TypeOK, Phases, RecoveryPhase, RunPhase, CommitPhase, CommitPCs, Waiting
<1>1. Recovering <=> RecoveryPhase
  <2>1. CASE RecoveryPhase
    BY <2>1 DEF Recovering
  <2>2. CASE RunPhase
    BY <2>2 DEF Recovering
  <2>3. CASE CommitPhase
    BY <2>3 DEF Recovering
  <2> QED
    BY <2>1, <2>2, <2>3
<1>2. CASE RecoveryPhase
  BY <1>1, <1>2
<1>3. CASE RunPhase
  BY <1>1, <1>3
<1>4. CASE CommitPhase
  BY <1>1, <1>4
<1> QED
  BY <1>2, <1>3, <1>4

\* The count of operations follows their processes.
LEMMA SameOps ==
  ASSUME \A q \in Procs : pc'[q] = "op" <=> pc[q] = "op"
  PROVE  OpProcs' = OpProcs
BY DEF OpProcs

\* The system starts in recovery.
LEMMA PhasesInit == LogInit => Phases
<1> SUFFICES ASSUME LogInit PROVE Phases
  OBVIOUS
<1>1. OpProcs = {}
  BY DEF LogInit, OpProcs
<1>2. RecoveryPhase
  BY DEF LogInit, RecoveryPhase
<1> QED
  BY <1>1, <1>2, FS_EmptySet DEF Phases, LogInit

\* Recovery leads to operation, operation to a commit and back, and a crash to
\* recovery.
LEMMA PhasesStep ==
  ASSUME LogInv, [LogNext]_logVars PROVE Phases'
<1>0. Shape /\ Phases
  BY DEF LogInv
<1> USE <1>0 DEF diskVars, Waiting, PCs
<1>1. CASE UNCHANGED logVars
  BY <1>1 DEF Phases, RecoveryPhase, RunPhase, CommitPhase, OpProcs, logVars
<1>2. ASSUME NEW p \in Procs, LogStep(p) PROVE Phases'
  <2>1. ASSUME pc[p] \in {"idle", "asleep"}, pc' = [pc EXCEPT ![p] = "begin_op"],
               UNCHANGED <<outstanding, committing>>
        PROVE  Phases'
    <3>1. OpProcs' = OpProcs
      BY <2>1, SameOps DEF Shape, TypeOK
    <3>2. RunPhase \/ CommitPhase
      BY <2>1, PhaseOf
    <3>3. CASE RunPhase
      BY <2>1, <3>1, <3>3 DEF Phases, RunPhase, Shape, TypeOK
    <3>4. CASE CommitPhase
      BY <2>1, <3>1, <3>4 DEF Phases, CommitPhase, CommitPCs, Shape, TypeOK
    <3> QED
      BY <3>2, <3>3, <3>4
  <2>2. CASE BeginCall(p)
    BY <2>1, <2>2 DEF BeginCall
  <2>3. CASE KillWakes(p)
    BY <2>1, <2>3 DEF KillWakes
  <2>4. CASE BeginOp(p)
    <3>1. RunPhase \/ CommitPhase
      BY <2>4, PhaseOf DEF BeginOp
    <3>2. CASE MustWait
      <4>1. pc' = [pc EXCEPT ![p] = "asleep"] /\ UNCHANGED <<outstanding, committing>>
        BY <2>4, <3>2 DEF BeginOp
      <4>2. OpProcs' = OpProcs
        BY <2>4, <4>1, SameOps DEF BeginOp, Shape, TypeOK
      <4>3. CASE RunPhase
        BY <4>1, <4>2, <4>3 DEF Phases, RunPhase, Shape, TypeOK
      <4>4. CASE CommitPhase
        BY <2>4, <4>1, <4>2, <4>4 DEF Phases, CommitPhase, CommitPCs, Shape, TypeOK, BeginOp
      <4> QED
        BY <3>1, <4>3, <4>4
    <3>3. CASE ~MustWait
      <4>1. /\ pc' = [pc EXCEPT ![p] = "op"] /\ outstanding' = outstanding + 1
            /\ UNCHANGED committing /\ ~committing
        BY <2>4, <3>3 DEF BeginOp, MustWait
      <4>2. OpProcs' = OpProcs \cup {p} /\ p \notin OpProcs /\ IsFiniteSet(OpProcs)
        BY <2>4, <4>1, FS_Subset DEF OpProcs, BeginOp, Shape, TypeOK
      <4>3. Cardinality(OpProcs') = outstanding + 1
        BY <4>2, FS_AddElement DEF Phases
      <4>4. RunPhase
        BY <3>1, <4>1 DEF CommitPhase
      <4> QED
        BY <4>1, <4>3, <4>4 DEF Phases, RunPhase, Shape, TypeOK
    <3> QED
      BY <3>2, <3>3
  <2>5. CASE EndOp(p)
    <3>1. pc[p] = "op" /\ outstanding' = outstanding - 1 /\ (committing' <=> outstanding' = 0)
      BY <2>5 DEF EndOp
    <3>2. RunPhase /\ outstanding > 0 /\ Cardinality(OpProcs \ {p}) = outstanding'
      BY <3>1, PhaseOf, OpActive
    <3>3. OpProcs' = OpProcs \ {p}
      BY <2>5 DEF EndOp, OpProcs, Awake, Shape, TypeOK
    <3>4. CASE outstanding' = 0
      <4>1. /\ \/ pc' = [pc EXCEPT ![p] = "committed"]
               \/ pc' = [pc EXCEPT ![p] = "write_log"]
            /\ committing'
        BY <2>5, <3>4 DEF EndOp
      <4>2. OpProcs \ {p} = {}
        BY <3>2, <3>4, FS_EmptySet, FS_Subset DEF OpProcs
      <4>3. \A q \in Procs : q # p => pc'[q] \in Waiting
        BY <3>2, <4>1, <4>2 DEF RunPhase, OpProcs, Shape, TypeOK
      <4>4. pc'[p] \in CommitPCs
        BY <4>1 DEF CommitPCs, Shape, TypeOK
      <4>5. CommitPhase'
        BY <3>4, <4>1, <4>3, <4>4 DEF CommitPhase
      <4> QED
        BY <3>2, <3>3, <4>5 DEF Phases
    <3>5. CASE outstanding' # 0
      <4>1. pc' = Awake([pc EXCEPT ![p] = "idle"]) /\ ~committing'
        BY <2>5, <3>5 DEF EndOp
      <4>2. RunPhase'
        BY <3>2, <4>1 DEF RunPhase, Awake, Shape, TypeOK
      <4> QED
        BY <3>2, <3>3, <4>2 DEF Phases
    <3> QED
      BY <3>4, <3>5
  <2>6. CASE EndCommit(p)
    <3>1. /\ committing /\ outstanding = 0 /\ ~committing' /\ outstanding' = outstanding
          /\ \A q \in Procs : q # p => pc[q] \in Waiting
          /\ pc' = Awake([pc EXCEPT ![p] = "idle"])
      BY <2>6, PhaseOf DEF EndCommit, CommitPCs
    <3>2. RunPhase' /\ \A q \in Procs : pc'[q] = "op" <=> pc[q] = "op"
      BY <2>6, <3>1 DEF RunPhase, Awake, EndCommit, Shape, TypeOK
    <3> QED
      BY <3>1, <3>2, SameOps DEF Phases
  <2>7. ASSUME pc[p] \in CommitPCs, committing, UNCHANGED <<outstanding, committing>>,
               NEW k \in CommitPCs, pc' = [pc EXCEPT ![p] = k]
        PROVE  Phases'
    <3>1. outstanding = 0 /\ \A q \in Procs : q # p => pc[q] \in Waiting
      BY <2>7, PhaseOf
    <3>2. CommitPhase'
      BY <2>7, <3>1 DEF CommitPhase, Shape, TypeOK
    <3>3. \A q \in Procs : pc'[q] = "op" <=> pc[q] = "op"
      BY <2>7 DEF CommitPCs, Shape, TypeOK
    <3> QED
      BY <2>7, <3>2, <3>3, SameOps DEF Phases
  <2>8. CASE WriteLog(p)
    <3>1. committing /\ pc[p] \in CommitPCs /\ UNCHANGED <<outstanding, committing>>
      BY <2>8, PhaseOf DEF WriteLog, CommitPCs
    <3>2. CASE tail[p] < Len(lh)
      BY <2>8, <3>1, <3>2 DEF WriteLog, Phases, RecoveryPhase, RunPhase, CommitPhase, OpProcs
    <3>3. CASE ~(tail[p] < Len(lh))
      BY <2>8, <2>7, <3>1, <3>3 DEF WriteLog, CommitPCs
    <3> QED
      BY <3>2, <3>3
  <2>9. CASE WriteHead(p)
    BY <2>9, <2>7, PhaseOf DEF WriteHead, CommitPCs
  <2>10. CASE InstallTrans(p)
    BY <2>10 DEF InstallTrans, Phases, RecoveryPhase, RunPhase, CommitPhase, OpProcs
  <2>11. CASE ClearHead(p)
    <3>1. UNCHANGED <<outstanding, committing>> /\ pc[p] = "install_trans"
      BY <2>11 DEF ClearHead
    <3>2. CASE committing
      BY <2>11, <2>7, <3>1, <3>2 DEF ClearHead, CommitPCs
    <3>3. CASE ~committing
      <4>1. RecoveryPhase /\ pc' = [q \in Procs |-> "idle"]
        BY <2>11, <3>1, <3>3, PhaseOf DEF ClearHead
      <4>2. \A q \in Procs : pc'[q] = "op" <=> pc[q] = "op"
        BY <3>1, <4>1 DEF RecoveryPhase
      <4>3. RunPhase'
        BY <3>1, <3>3, <4>1 DEF RunPhase
      <4> QED
        BY <3>1, <4>2, <4>3, SameOps DEF Phases
    <3> QED
      BY <3>2, <3>3
  <2>12. CASE ReadHead(p)
    <3>1. RecoveryPhase /\ p = First /\ pc[p] = "read_head"
          /\ pc' = [pc EXCEPT ![p] = "install_trans"] /\ UNCHANGED <<outstanding, committing>>
      BY <2>12, PhaseOf DEF ReadHead
    <3>2. RecoveryPhase' /\ \A q \in Procs : pc'[q] = "op" <=> pc[q] = "op"
      BY <3>1 DEF RecoveryPhase, Shape, TypeOK
    <3> QED
      BY <3>1, <3>2, SameOps DEF Phases
  <2>13. ASSUME NEW b \in Blocks, NEW v \in Vals, LogWrite(p, b, v) PROVE Phases'
    BY <2>13 DEF LogWrite, Phases, RecoveryPhase, RunPhase, CommitPhase, OpProcs
  <2> QED
    BY <1>2, <2>2, <2>3, <2>4, <2>5, <2>6, <2>8, <2>9, <2>10, <2>11, <2>12, <2>13
       DEF LogStep, CommitStep
<1>3. ASSUME NEW b \in Blocks, Bread(b) \/ Recycle(b) PROVE Phases'
  BY <1>3 DEF Bread, Recycle, Phases, RecoveryPhase, RunPhase, CommitPhase, OpProcs
<1>4. CASE Crash
  <2>1. OpProcs' = {} /\ RecoveryPhase'
    BY <1>4 DEF Crash, OpProcs, RecoveryPhase
  <2> QED
    BY <1>4, <2>1, FS_EmptySet DEF Crash, Phases
<1> QED
  BY <1>1, <1>2, <1>3, <1>4 DEF LogNext

-----------------------------------------------------------------------------
(* Disk, log and cache.                                                     *)

\* An empty disk log and an empty cache agree.
LEMMA DataInit == LogInit => Data
BY DEF LogInit, Data, CacheClean, Logged, RecoveryPhase

\* What the data depend on does not change where only processes outside the commit
\* move.
LEMMA DataKept ==
  ASSUME Shape, Phases, Data,
         UNCHANGED <<home, logblk, head, cache, dirty, lh, committing>>,
         ~RecoveryPhase, \A q \in Procs : pc'[q] # "off",
         \A q \in Procs : \/ pc'[q] = pc[q] /\ tail'[q] = tail[q]
                          \/ {pc'[q], pc[q]} \subseteq Waiting \cup {"op"}
  PROVE  Data'
<1>1. CacheClean' /\ ~RecoveryPhase'
  <2>1. CacheClean'
    BY DEF Data, CacheClean, Logged
  <2>2. pc[First] # "read_head" /\ (pc[First] = "install_trans" => committing)
    BY PhaseOf
  <2>3. ~RecoveryPhase'
    BY <2>2 DEF RecoveryPhase, Waiting
  <2> QED
    BY <2>1, <2>3
<1>2. /\ Logged' = Logged
      /\ \A i : CopyOf(i)' <=> CopyOf(i)
      /\ \A i : Installed(i)' <=> Installed(i)
  BY DEF Logged, CopyOf, Installed
<1> QED
  BY <1>1, <1>2 DEF Data, Waiting

\* Every step keeps disk, log and cache in agreement.
LEMMA DataStep ==
  ASSUME LogInv, [LogNext]_logVars PROVE Data'
<1>0. Shape /\ Phases /\ Data
  BY DEF LogInv
<1> USE <1>0 DEF diskVars
<1>1. CASE UNCHANGED logVars
  BY <1>1 DEF logVars, Data, CacheClean, Logged, CopyOf, Installed, RecoveryPhase
<1>2. ASSUME NEW p \in Procs, LogStep(p) PROVE Data'
  <2>0. ASSUME pc[p] \in Waiting, NEW k \in Waiting \cup {"op"}, pc' = [pc EXCEPT ![p] = k],
               UNCHANGED <<home, logblk, head, cache, dirty, lh, committing, tail>>
        PROVE  Data'
    <3>1. ~RecoveryPhase /\ \A q \in Procs : pc[q] # "off"
      BY <2>0, PhaseOf DEF Waiting, RunPhase, CommitPhase, CommitPCs
    <3>2. pc'[p] = k /\ \A q \in Procs : q # p => pc'[q] = pc[q] /\ tail'[q] = tail[q]
      BY <2>0 DEF Shape, TypeOK
    <3>3. \A q \in Procs : pc'[q] # "off"
      BY <3>1, <3>2 DEF Waiting
    <3>4. \A q \in Procs : \/ pc'[q] = pc[q] /\ tail'[q] = tail[q]
                           \/ {pc'[q], pc[q]} \subseteq Waiting \cup {"op"}
      BY <2>0, <3>2
    <3> QED
      BY <2>0, <3>1, <3>3, <3>4, DataKept
  <2>1. CASE BeginCall(p)
    BY <2>0, <2>1 DEF BeginCall, Waiting
  <2>2. CASE KillWakes(p)
    BY <2>0, <2>2 DEF KillWakes, Waiting
  <2>3. CASE BeginOp(p)
    <3>1. \E k \in {"asleep", "op"} : pc' = [pc EXCEPT ![p] = k]
      BY <2>3 DEF BeginOp
    <3> QED
      BY <2>0, <2>3, <3>1 DEF BeginOp, Waiting
  <2>4. CASE EndOp(p)
    <3>1. RunPhase /\ pc[p] = "op" /\ ~committing /\ UNCHANGED <<home, logblk, head, cache, dirty, lh>>
      BY <2>4, PhaseOf DEF EndOp
    <3>2. head = <<>> /\ Logged \subseteq dirty
      BY <3>1 DEF Data
    <3>3. CacheClean' /\ Logged' = Logged
      BY <3>1 DEF Data, CacheClean, Logged
    <3>4. CASE outstanding' # 0
      <4>1. ~committing' /\ \A q \in Procs : pc'[q] \in Waiting \cup {"op"}
        BY <2>4, <3>1, <3>4 DEF EndOp, Awake, RunPhase, Waiting, Shape, TypeOK
      <4> QED
        BY <3>1, <3>2, <3>3, <4>1 DEF Data, Waiting, RecoveryPhase
    <3>5. CASE outstanding' = 0
      <4>1. committing' /\ tail'[p] = 1 /\ \A q \in Procs : q # p => pc'[q] = pc[q]
        BY <2>4, <3>5 DEF EndOp, Shape, TypeOK
      <4>2. CASE lh = <<>>
        <5>1. pc'[p] = "committed"
          BY <2>4, <3>5, <4>2 DEF EndOp, Shape, TypeOK
        <5> QED
          BY <3>1, <3>2, <3>3, <4>1, <4>2, <5>1 DEF Data, RunPhase, RecoveryPhase
      <4>3. CASE lh # <<>>
        <5>1. pc'[p] = "write_log"
          BY <2>4, <3>5, <4>3 DEF EndOp, Shape, TypeOK
        <5>2. 1 \in 1 .. Len(lh) /\ \A i \in 1 .. Len(lh) : ~(i < 1)
          BY <4>3 DEF Shape, TypeOK
        <5> QED
          BY <3>1, <3>2, <3>3, <4>1, <5>1, <5>2 DEF Data, RunPhase, RecoveryPhase
      <4> QED
        BY <4>2, <4>3
    <3> QED
      BY <3>4, <3>5
  <2>5. CASE EndCommit(p)
    <3>1. committing /\ \A q \in Procs : q # p => pc[q] \in Waiting
      BY <2>5, PhaseOf DEF EndCommit, CommitPCs
    <3>2. head = <<>> /\ lh = <<>> /\ UNCHANGED <<home, logblk, head, cache, dirty, lh>>
      BY <2>5 DEF EndCommit, Data
    <3>3. \A q \in Procs : pc'[q] \in Waiting
      BY <2>5, <3>1 DEF EndCommit, Awake, Waiting, Shape, TypeOK
    <3>4. CacheClean' /\ Logged' \subseteq dirty'
      BY <3>2 DEF Data, CacheClean, Logged
    <3> QED
      BY <3>2, <3>3, <3>4 DEF Data, Waiting, RecoveryPhase
  <2>6. CASE WriteLog(p)
    <3> DEFINE t == tail[p]
    <3>1. committing /\ \A q \in Procs : q # p => pc[q] \in Waiting
      BY <2>6, PhaseOf DEF WriteLog, CommitPCs
    <3>2. /\ head = <<>> /\ Logged \subseteq dirty /\ t \in 1 .. Len(lh)
          /\ \A i \in 1 .. Len(lh) : i < t => CopyOf(i)
      BY <2>6 DEF WriteLog, Data
    <3>3. lh[t] \in dirty /\ lh[t] \in Blocks /\ Contents(lh[t]) = cache[lh[t]]
      BY <3>2 DEF Logged, Contents, Data, CacheClean, Shape, TypeOK
    <3>4. cache' = cache /\ UNCHANGED <<home, head, dirty, lh, committing>>
      BY <2>6, <3>3 DEF WriteLog, Shape, TypeOK
    <3>5. \A i \in 1 .. Len(lh) : i <= t => CopyOf(i)'
      <4>1. logblk' = [logblk EXCEPT ![t] = cache[lh[t]]] /\ Len(lh) <= LOGSIZE
        BY <2>6, <3>3 DEF WriteLog, Shape
      <4>2. \A i \in 1 .. Len(lh) : logblk'[i] = IF i = t THEN cache[lh[t]] ELSE logblk[i]
        BY <4>1 DEF Shape, TypeOK, Slots
      <4> QED
        BY <3>2, <3>3, <3>4, <4>2 DEF CopyOf, Shape, TypeOK
    <3>6. CacheClean' /\ Logged' = Logged
      BY <3>4 DEF Data, CacheClean, Logged
    <3>7. CASE t < Len(lh)
      <4>1. pc' = pc /\ tail' = [tail EXCEPT ![p] = t + 1]
        BY <2>6, <3>7 DEF WriteLog
      <4>2. tail'[p] \in 1 .. Len(lh) /\ \A i \in 1 .. Len(lh) : i < tail'[p] => i <= t
        BY <3>2, <3>7, <4>1 DEF Shape, TypeOK
      <4>3. \A i \in 1 .. Len(lh') : i < tail'[p] => CopyOf(i)'
        BY <3>4, <3>5, <4>2
      <4>4. pc'[p] = "write_log"
        BY <2>6, <4>1 DEF WriteLog
      <4> QED
        BY <3>1, <3>2, <3>4, <3>6, <4>1, <4>2, <4>3, <4>4 DEF Data, Waiting, RecoveryPhase
    <3>8. CASE ~(t < Len(lh))
      <4>1. pc' = [pc EXCEPT ![p] = "write_head"]
        BY <2>6, <3>8 DEF WriteLog
      <4>2. \A i \in 1 .. Len(lh') : CopyOf(i)'
        BY <3>2, <3>4, <3>5, <3>8 DEF Shape, TypeOK
      <4>3. pc'[p] = "write_head" /\ \A q \in Procs : q # p => pc'[q] \in Waiting
        BY <3>1, <4>1 DEF Shape, TypeOK
      <4> QED
        BY <3>1, <3>2, <3>4, <3>6, <4>2, <4>3 DEF Data, Waiting, RecoveryPhase
    <3> QED
      BY <3>7, <3>8
  <2>7. CASE WriteHead(p)
    <3>1. committing /\ \A q \in Procs : q # p => pc[q] \in Waiting
      BY <2>7, PhaseOf DEF WriteHead, CommitPCs
    <3>2. /\ UNCHANGED <<home, logblk, cache, dirty, lh, committing>> /\ head' = lh
          /\ pc'[p] = "install_trans" /\ tail'[p] = 1
          /\ \A q \in Procs : q # p => pc'[q] \in Waiting
      BY <2>7, <3>1 DEF WriteHead, Shape, TypeOK
    <3>3. CacheClean' /\ \A i \in 1 .. Len(lh') : CopyOf(i)'
      BY <2>7, <3>2 DEF WriteHead, Data, CacheClean, Logged, CopyOf
    <3>4. \A i \in 1 .. Len(lh') : ~(i < tail'[p])
      BY <3>2
    <3> QED
      BY <3>1, <3>2, <3>3, <3>4 DEF Data, Waiting, RecoveryPhase
  <2>8. CASE InstallTrans(p)
    <3> DEFINE t == tail[p]  b == lh[t]
    <3>1. /\ pc[p] = "install_trans" /\ t \in 1 .. Len(lh) /\ head = lh
          /\ \A i \in 1 .. Len(lh) : i < t => Installed(i)
          /\ committing => \A i \in 1 .. Len(lh) : i >= t => CopyOf(i)
      BY <2>8 DEF InstallTrans, Data, Shape, TypeOK
    <3>2. /\ home' = [home EXCEPT ![b] = logblk[t]] /\ cache' = [cache EXCEPT ![b] = logblk[t]]
          /\ dirty' = dirty \ {b} /\ tail' = [tail EXCEPT ![p] = t + 1]
          /\ UNCHANGED <<logblk, head, lh, committing, pc, outstanding>>
      BY <2>8 DEF InstallTrans
    <3>3. b \in Blocks /\ logblk[t] \in Vals /\ tail'[p] = t + 1
      BY <3>1, <3>2 DEF Shape, TypeOK, Slots
    <3>4. \A i \in 1 .. Len(lh) : i # t => lh[i] # b /\ lh[i] \in Blocks
      BY <3>1 DEF Shape, TypeOK, Distinct
    <3>5. \A i \in 1 .. Len(lh) : i <= t => Installed(i)'
      BY <3>1, <3>2, <3>3, <3>4, SMTT(40) DEF Installed, Shape, TypeOK
    <3>6. committing => \A i \in 1 .. Len(lh) : i > t => CopyOf(i)'
      BY <3>1, <3>2, <3>3, <3>4 DEF CopyOf, Shape, TypeOK
    <3>7. CacheClean'
      BY <3>2, <3>3 DEF CacheClean, Data, Logged, Shape, TypeOK
    <3>8. /\ tail'[p] >= 1
          /\ \A i \in 1 .. Len(lh') : i < tail'[p] => Installed(i)'
          /\ committing => \A i \in 1 .. Len(lh') : i >= tail'[p] => CopyOf(i)'
      BY <3>1, <3>2, <3>3, <3>5, <3>6
    <3>9. RecoveryPhase' => dirty' = {}
      BY <3>2 DEF RecoveryPhase, Data
    <3>10. \A q \in Procs : q # p => pc[q] \in Waiting \cup {"off"}
      BY <3>1, PhaseOf DEF RecoveryPhase, CommitPCs
    <3>11. \A q \in Procs : pc[q] \in Waiting => committing
      BY <3>1, PhaseOf DEF RecoveryPhase, RunPhase, Waiting, CommitPhase
    <3> HIDE DEF t, b
    <3> QED
      BY <3>1, <3>2, <3>7, <3>8, <3>9, <3>10, <3>11 DEF Data, Waiting
  <2>9. CASE ClearHead(p)
    <3>1. /\ pc[p] = "install_trans" /\ tail[p] > Len(lh)
          /\ head' = <<>> /\ lh' = <<>>
          /\ UNCHANGED <<home, logblk, cache, dirty, committing>>
      BY <2>9 DEF ClearHead
    <3>2. \A i \in 1 .. Len(lh) : lh[i] \notin dirty
      BY <3>1 DEF Data, Installed, Shape, TypeOK
    <3>3. dirty = {}
      BY <3>2 DEF Data, CacheClean, Logged, Shape, TypeOK
    <3>4. CacheClean' /\ Logged' = {} /\ dirty' = {}
      BY <3>1, <3>3 DEF Data, CacheClean, Logged
    <3>5. \A q \in Procs : pc'[q] \in Waiting \cup {"committed"}
      <4>1. CASE committing
        BY <2>9, <3>1, <4>1, PhaseOf DEF ClearHead, Waiting, CommitPCs, Shape, TypeOK
      <4>2. CASE ~committing
        BY <2>9, <4>2 DEF ClearHead, Waiting
      <4> QED
        BY <4>1, <4>2
    <3> QED
      BY <3>1, <3>4, <3>5 DEF Data, Waiting
  <2>10. CASE ReadHead(p)
    <3>1. RecoveryPhase /\ p = First /\ pc[p] = "read_head"
      BY <2>10, PhaseOf DEF ReadHead
    <3>2. /\ pc'[p] = "install_trans" /\ tail'[p] = 1 /\ lh' = head
          /\ UNCHANGED <<home, logblk, head, cache, dirty, committing>>
          /\ \A q \in Procs : q # p => pc'[q] = "off"
      BY <2>10, <3>1 DEF ReadHead, RecoveryPhase, Shape, TypeOK
    <3>3. dirty' = {} /\ ~committing'
      BY <3>1, <3>2 DEF Data, RecoveryPhase
    <3>4. CacheClean'
      BY <3>2, <3>3 DEF Data, CacheClean
    <3>5. \A i \in 1 .. Len(lh') : ~(i < tail'[p])
      BY <3>2
    <3> QED
      BY <3>2, <3>3, <3>4, <3>5 DEF Data
  <2>11. ASSUME NEW b \in Blocks, NEW v \in Vals, LogWrite(p, b, v) PROVE Data'
    <3>1. /\ RunPhase /\ pc[p] = "op" /\ dirty' = dirty \cup {b}
          /\ cache' = [cache EXCEPT ![b] = v]
          /\ UNCHANGED <<home, logblk, head, committing, pc>>
      BY <2>11, PhaseOf DEF LogWrite
    <3>2. head = <<>> /\ Logged \subseteq dirty
      BY <3>1 DEF Data, RunPhase
    <3>3. Logged' = Logged \cup {b}
      <4>1. CASE b \in Logged
        BY <2>11, <4>1 DEF LogWrite, Logged
      <4>2. CASE b \notin Logged
        <5>1. lh' = Append(lh, b) /\ lh \in Seq(Blocks) /\ Distinct(lh)
          BY <2>11, <4>2 DEF LogWrite, Shape, TypeOK
        <5>2. \A i \in DOMAIN lh : lh[i] # b
          BY <4>2 DEF Logged
        <5> QED
          BY <5>1, <5>2, AppendDistinct DEF Logged
      <4> QED
        BY <4>1, <4>2
    <3>4. CacheClean'
      BY <3>1, <3>3 DEF Data, CacheClean, Shape, TypeOK
    <3> QED
      BY <3>1, <3>2, <3>3, <3>4 DEF Data, RunPhase, RecoveryPhase
  <2> QED
    BY <1>2, <2>1, <2>2, <2>3, <2>4, <2>5, <2>6, <2>7, <2>8, <2>9, <2>10, <2>11
       DEF LogStep, CommitStep
<1>3. ASSUME NEW b \in Blocks, Bread(b) PROVE Data'
  <2>1. /\ cache[b] = NoBuf /\ cache' = [cache EXCEPT ![b] = home[b]] /\ b \notin dirty
        /\ UNCHANGED <<home, logblk, head, dirty, lh, outstanding, committing, pc, tail>>
    BY <1>3 DEF Bread, Data, CacheClean
  <2>2. CacheClean' /\ Logged' = Logged
    BY <2>1 DEF Data, CacheClean, Logged, Shape, TypeOK
  <2>3. \A i \in 1 .. Len(lh) : /\ CopyOf(i) => CopyOf(i)'
                                /\ Installed(i) => Installed(i)'
    BY <2>1 DEF CopyOf, Installed, Shape, TypeOK
  <2> QED
    BY <2>1, <2>2, <2>3 DEF Data, RecoveryPhase
<1>4. ASSUME NEW b \in Blocks, Recycle(b) PROVE Data'
  <2>1. /\ b \notin dirty /\ cache' = [cache EXCEPT ![b] = NoBuf]
        /\ UNCHANGED <<home, logblk, head, dirty, lh, outstanding, committing, pc, tail>>
    BY <1>4 DEF Recycle
  <2>2. CacheClean' /\ Logged' = Logged
    BY <2>1 DEF Data, CacheClean, Logged, Shape, TypeOK
  <2>3. \A i \in 1 .. Len(lh) : /\ CopyOf(i) => CopyOf(i)'
                                /\ Installed(i) => Installed(i)'
    BY <2>1 DEF CopyOf, Installed, Shape, TypeOK
  <2> QED
    BY <2>1, <2>2, <2>3 DEF Data, RecoveryPhase
<1>5. CASE Crash
  BY <1>5 DEF Crash, Data, CacheClean, Logged, RecoveryPhase
<1> QED
  BY <1>1, <1>2, <1>3, <1>4, <1>5 DEF LogNext

\* The inductive invariant holds always.
THEOREM LogInvariance == LogSpec => []LogInv
<1>1. LogInit => LogInv
  BY ShapeInit, PhasesInit, DataInit DEF LogInv
<1>2. LogInv /\ [LogNext]_logVars => LogInv'
  BY ShapeStep, PhasesStep, DataStep DEF LogInv
<1> QED
  BY <1>1, <1>2, PTL DEF LogSpec

-----------------------------------------------------------------------------
(* The space of the log.                                                    *)

\* What processes S have written, one pair per block, when wrote is w.
PairsIn(S, w) == {x \in S \X Blocks : x[2] \in w[x[1]]}

\* Each operation keeps within its blocks, and so do any number of them together;
\* begin_op() has reserved MAXOPBLOCKS for each, and what they have written is in
\* the log.  Without operations the log is empty.
Space ==
  /\ \A p \in OpProcs : wrote[p] \subseteq Logged /\ Cardinality(wrote[p]) <= OpBlocks
  /\ \A S \in SUBSET OpProcs : Cardinality(PairsIn(S, wrote)) <= Cardinality(S) * OpBlocks
  /\ RunPhase =>
       Len(lh) + outstanding * MAXOPBLOCKS <= LOGSIZE + Cardinality(PairsIn(OpProcs, wrote))
  /\ RunPhase /\ outstanding = 0 => lh = <<>>

\* The log names finitely many blocks.
LEMMA LoggedFinite ==
  ASSUME NEW s \in Seq(Blocks)
  PROVE  IsFiniteSet({s[i] : i \in DOMAIN s}) /\ {s[i] : i \in DOMAIN s} \in SUBSET Blocks
<1>1. IsFiniteSet(1 .. Len(s)) /\ DOMAIN s = 1 .. Len(s)
  BY FS_Interval
<1>2. s \in Surjection(1 .. Len(s), {s[i] : i \in DOMAIN s})
  BY <1>1 DEF Surjection
<1>3. {s[i] : i \in DOMAIN s} \in SUBSET Blocks
  BY <1>1
<1> QED
  BY <1>1, <1>2, <1>3, FS_Surjection

\* The pairs of a set of processes are those of one of them and of the others.
LEMMA PairsSplit ==
  ASSUME NEW S \in SUBSET Procs, NEW w, NEW Fin \in SUBSET Blocks, IsFiniteSet(Fin),
         \A q \in S : w[q] \subseteq Fin, NEW p \in S
  PROVE  /\ IsFiniteSet(PairsIn(S, w)) /\ IsFiniteSet(w[p])
         /\ Cardinality(PairsIn(S, w)) \in Nat /\ Cardinality(w[p]) \in Nat
         /\ Cardinality(PairsIn(S \ {p}, w)) \in Nat
         /\ Cardinality(PairsIn(S, w)) = Cardinality(PairsIn(S \ {p}, w)) + Cardinality(w[p])
<1>1. IsFiniteSet(S) /\ IsFiniteSet(w[p]) /\ IsFiniteSet({p}) /\ Cardinality({p}) = 1
  BY FS_Subset, FS_Singleton
<1>2. IsFiniteSet(S \X Fin)
  BY <1>1, FS_Product
<1>3. IsFiniteSet(PairsIn(S, w)) /\ IsFiniteSet(PairsIn(S \ {p}, w))
  BY <1>2, FS_Subset DEF PairsIn
<1>4. IsFiniteSet({p} \X w[p]) /\ Cardinality({p} \X w[p]) = Cardinality({p}) * Cardinality(w[p])
  BY <1>1, FS_Product
<1>5. Cardinality(w[p]) \in Nat /\ Cardinality(PairsIn(S, w)) \in Nat
      /\ Cardinality(PairsIn(S \ {p}, w)) \in Nat
  BY <1>1, <1>3, FS_CardinalityType
<1>6. Cardinality({p} \X w[p]) = Cardinality(w[p])
  BY <1>1, <1>4, <1>5
<1>7. /\ PairsIn(S, w) = PairsIn(S \ {p}, w) \cup ({p} \X w[p])
      /\ PairsIn(S \ {p}, w) \cap ({p} \X w[p]) = {}
  BY DEF PairsIn
<1>8. Cardinality(PairsIn(S \ {p}, w) \cup ({p} \X w[p])) =
        Cardinality(PairsIn(S \ {p}, w)) + Cardinality({p} \X w[p])
  <2> DEFINE A == PairsIn(S \ {p}, w)  B == {p} \X w[p]
  <2>1. IsFiniteSet(A) /\ IsFiniteSet(B) /\ Cardinality(A \cap B) = 0
    BY <1>3, <1>4, <1>7, FS_EmptySet
  <2>2. Cardinality(A) \in Nat /\ Cardinality(B) \in Nat
    BY <1>5, <1>6
  <2> HIDE DEF A, B
  <2>3. Cardinality(A \cup B) = Cardinality(A) + Cardinality(B) - Cardinality(A \cap B)
    BY <2>1, FS_Union, ZenonT(60)
  <2>4. Cardinality(A \cup B) = Cardinality(A) + Cardinality(B)
    BY <2>1, <2>2, <2>3
  <2> QED
    BY <2>4 DEF A, B
<1> QED
  BY <1>1, <1>3, <1>5, <1>6, <1>7, <1>8

\* The pairs depend on the processes of the set only.
LEMMA PairsSame ==
  ASSUME NEW S, NEW w, NEW x, \A q \in S : w[q] = x[q]
  PROVE  PairsIn(S, w) = PairsIn(S, x)
BY DEF PairsIn

\* Nobody has written anything where nobody is in an operation.
LEMMA SpaceNoOps ==
  ASSUME OpProcs' = {}, RunPhase' => lh' = <<>> /\ outstanding' = 0 PROVE Space'
<1>1. \A w : PairsIn({}, w) = {}
  BY DEF PairsIn
<1>2. Cardinality({}) = 0 /\ \A S \in SUBSET {} : S = {}
  BY FS_EmptySet
<1>4. 0 * OpBlocks = 0 /\ 0 <= 0
  OBVIOUS
<1>5. \A S \in SUBSET {} : Cardinality(PairsIn(S, wrote')) <= Cardinality(S) * OpBlocks
  BY <1>1, <1>2, <1>4
<1>6. RunPhase' =>
        Len(lh') + outstanding' * MAXOPBLOCKS <= LOGSIZE + Cardinality(PairsIn({}, wrote'))
  <2> SUFFICES ASSUME lh' = <<>>, outstanding' = 0
               PROVE  Len(lh') + outstanding' * MAXOPBLOCKS
                        <= LOGSIZE + Cardinality(PairsIn({}, wrote'))
    OBVIOUS
  <2>1. Len(lh') = 0 /\ Cardinality(PairsIn({}, wrote')) = 0 /\ 0 * MAXOPBLOCKS = 0
    BY <1>1, <1>2, EmptyLog
  <2> QED
    BY <2>1
<1> QED
  BY <1>5, <1>6 DEF Space

\* Space depends on the operations, what they have written and the log.
LEMMA SpaceKept ==
  ASSUME Space, OpProcs' = OpProcs, UNCHANGED <<wrote, lh, outstanding>>, RunPhase' => RunPhase
  PROVE  Space'
BY DEF Space, Logged

\* Recovery begins with nobody in an operation.
LEMMA SpaceInit == LogInit => Space
<1> SUFFICES ASSUME LogInit PROVE Space
  OBVIOUS
<1>1. OpProcs = {} /\ lh = <<>> /\ outstanding = 0
  BY DEF LogInit, OpProcs
<1>2. \A w : PairsIn({}, w) = {}
  BY DEF PairsIn
<1>3. Cardinality({}) = 0 /\ 0 * OpBlocks = 0 /\ 0 * MAXOPBLOCKS = 0 /\ Len(<<>>) = 0
  BY FS_EmptySet
<1>4. \A S \in SUBSET {} : Cardinality(PairsIn(S, wrote)) <= Cardinality(S) * OpBlocks
  <2> TAKE S \in SUBSET {}
  <2>1. S = {}
    OBVIOUS
  <2> QED
    BY <1>2, <1>3, <2>1
<1>5. Len(lh) + outstanding * MAXOPBLOCKS <= LOGSIZE + Cardinality(PairsIn(OpProcs, wrote))
  <2>1. Len(lh) = 0 /\ outstanding * MAXOPBLOCKS = 0 /\ Cardinality(PairsIn(OpProcs, wrote)) = 0
    BY <1>1, <1>2, <1>3
  <2> QED
    BY <2>1
<1> QED
  BY <1>1, <1>4, <1>5 DEF Space

\* Every step keeps the accounts of the log's space.
LEMMA SpaceStep ==
  ASSUME LogInv, LogInv', Space, [LogNext]_logVars PROVE Space'
<1>0. Shape /\ Phases /\ Data /\ Shape' /\ Phases'
  BY DEF LogInv
<1> USE <1>0 DEF diskVars, Waiting
<1>9. committing \/ RecoveryPhase => OpProcs = {}
  BY FS_EmptySet, FS_Subset DEF Phases, RunPhase, RecoveryPhase, CommitPhase, CommitPCs, OpProcs
<1>1. CASE UNCHANGED logVars
  BY <1>1, SpaceKept DEF logVars, OpProcs, RunPhase
<1>2. ASSUME NEW p \in Procs, LogStep(p) PROVE Space'
  <2>0. ASSUME pc[p] \in Waiting, NEW k \in Waiting, pc' = [pc EXCEPT ![p] = k],
               UNCHANGED <<wrote, lh, outstanding, committing>>
        PROVE  Space'
    <3>1. OpProcs' = OpProcs
      BY <2>0, SameOps DEF Shape, TypeOK
    <3>2. RunPhase' => RunPhase
      BY <2>0, PhaseOf DEF RunPhase, CommitPhase
    <3> QED
      BY <2>0, <3>1, <3>2, SpaceKept
  <2>1. CASE BeginCall(p)
    BY <2>0, <2>1 DEF BeginCall
  <2>2. CASE KillWakes(p)
    BY <2>0, <2>2 DEF KillWakes
  <2>3. CASE BeginOp(p)
    <3>1. CASE MustWait
      BY <2>0, <2>3, <3>1 DEF BeginOp
    <3>2. CASE ~MustWait
      <4>1. /\ pc' = [pc EXCEPT ![p] = "op"] /\ outstanding' = outstanding + 1
            /\ wrote' = [wrote EXCEPT ![p] = {}] /\ lh' = lh /\ pc[p] = "begin_op"
            /\ Len(lh) + (outstanding + 1) * MAXOPBLOCKS <= LOGSIZE
        BY <2>3, <3>2 DEF BeginOp, MustWait, Shape, TypeOK
      <4>2. OpProcs' = OpProcs \cup {p} /\ p \notin OpProcs /\ IsFiniteSet(OpProcs')
        BY <4>1, FS_Subset DEF OpProcs, Shape, TypeOK
      <4>3. wrote'[p] = {} /\ \A q \in Procs : q # p => wrote'[q] = wrote[q]
        BY <4>1 DEF Shape, TypeOK
      <4>4. \A q \in OpProcs' : wrote'[q] \subseteq Logged' /\ Cardinality(wrote'[q]) <= OpBlocks
        <5>1. Logged' = Logged /\ Cardinality({}) = 0
          BY <4>1, FS_EmptySet DEF Logged
        <5>2. Cardinality(wrote'[p]) <= OpBlocks /\ wrote'[p] \subseteq Logged'
          BY <4>3, <5>1
        <5>3. \A q \in OpProcs : wrote'[q] = wrote[q]
          BY <4>2, <4>3 DEF OpProcs
        <5> QED
          BY <4>2, <5>1, <5>2, <5>3 DEF Space
      <4>5. ASSUME NEW S \in SUBSET OpProcs'
            PROVE  Cardinality(PairsIn(S, wrote')) <= Cardinality(S) * OpBlocks
        <5>1. PairsIn(S, wrote') = PairsIn(S \ {p}, wrote)
          BY <4>2, <4>3 DEF PairsIn, OpProcs
        <5>2. Cardinality(PairsIn(S \ {p}, wrote)) <= Cardinality(S \ {p}) * OpBlocks
          BY <4>2 DEF Space
        <5>3. CASE p \notin S
          <6>1. S \ {p} = S
            BY <5>3
          <6> QED
            BY <5>1, <5>2, <6>1
        <5>4. CASE p \in S
          <6>1. IsFiniteSet(S) /\ Cardinality(S) \in Nat /\ Cardinality(S \ {p}) = Cardinality(S) - 1
            BY <4>2, <5>4, FS_Subset, FS_RemoveElement, FS_CardinalityType, SMTT(40)
          <6>2. IsFiniteSet(Logged)
            BY LoggedFinite DEF Shape, TypeOK, Logged
          <6>3. Cardinality(PairsIn(S \ {p}, wrote)) \in Nat
            <7>1. PairsIn(S \ {p}, wrote) \subseteq (S \ {p}) \X Logged
              BY <4>2 DEF PairsIn, Space
            <7>2. IsFiniteSet(PairsIn(S \ {p}, wrote))
              BY <6>1, <6>2, <7>1, FS_Subset, FS_Product
            <7> QED
              BY <7>2, FS_CardinalityType
          <6>4. (Cardinality(S) - 1) * OpBlocks <= Cardinality(S) * OpBlocks
            BY <6>1
          <6>5. Cardinality(S) * OpBlocks \in Nat /\ (Cardinality(S) - 1) * OpBlocks \in Int
            BY <6>1
          <6> QED
            BY <5>1, <5>2, <6>1, <6>3, <6>4, <6>5
        <5> QED
          BY <5>3, <5>4
      <4>6. Cardinality(PairsIn(OpProcs', wrote')) \in Nat
        <5>1. \A q \in OpProcs' : wrote'[q] \subseteq Logged
          BY <4>1, <4>4 DEF Logged
        <5>2. IsFiniteSet(Logged) /\ Logged \in SUBSET Blocks
          BY LoggedFinite DEF Shape, TypeOK, Logged
        <5>3. OpProcs' \in SUBSET Procs /\ p \in OpProcs'
          BY <4>2 DEF OpProcs
        <5> QED
          BY <5>1, <5>2, <5>3, PairsSplit
      <4>7. Len(lh') + outstanding' * MAXOPBLOCKS <= LOGSIZE + Cardinality(PairsIn(OpProcs', wrote'))
        BY <4>1, <4>6 DEF Shape, TypeOK
      <4>8. outstanding' # 0
        BY <4>1 DEF Shape, TypeOK
      <4> QED
        BY <4>4, <4>5, <4>7, <4>8 DEF Space
    <3> QED
      BY <3>1, <3>2
  <2>4. CASE EndOp(p)
    <3>1. /\ pc[p] = "op" /\ outstanding' = outstanding - 1 /\ lh' = lh
          /\ wrote' = [wrote EXCEPT ![p] = {}] /\ (committing' <=> outstanding' = 0)
      BY <2>4 DEF EndOp
    <3>2. OpProcs' = OpProcs \ {p} /\ p \in OpProcs
      BY <2>4 DEF EndOp, OpProcs, Awake, Shape, TypeOK
    <3>3. RunPhase /\ outstanding > 0 /\ outstanding \in Nat
      BY <3>1, PhaseOf DEF Shape, TypeOK, Phases
    <3>4. CASE outstanding' = 0
      BY <3>1, <3>2, <3>4, SpaceNoOps, FS_EmptySet, FS_Subset DEF Phases, RunPhase, OpProcs
    <3>5. CASE outstanding' # 0
      <4>1. \A q \in OpProcs' : wrote'[q] = wrote[q]
        BY <3>1, <3>2 DEF Shape, TypeOK, OpProcs
      <4>2. \A S \in SUBSET OpProcs' : PairsIn(S, wrote') = PairsIn(S, wrote)
        BY <4>1, PairsSame
      <4>3. /\ IsFiniteSet(Logged) /\ Logged \in SUBSET Blocks /\ OpProcs \in SUBSET Procs
            /\ \A q \in OpProcs : wrote[q] \subseteq Logged
        <5>1. IsFiniteSet(Logged) /\ Logged \in SUBSET Blocks
          BY LoggedFinite DEF Shape, TypeOK, Logged
        <5> QED
          BY <5>1 DEF Space, OpProcs
      <4> DEFINE c == Cardinality(PairsIn(OpProcs, wrote))
                 d == Cardinality(PairsIn(OpProcs \ {p}, wrote))
                 n == Cardinality(wrote[p])
                 m == outstanding * MAXOPBLOCKS
      <4>4. c \in Nat /\ d \in Nat /\ n \in Nat /\ c = d + n
        BY <3>2, <4>3, PairsSplit
      <4>5. n <= OpBlocks /\ Len(lh) + m <= LOGSIZE + c
        BY <3>2, <3>3 DEF Space
      <4>6. m \in Nat /\ (outstanding - 1) * MAXOPBLOCKS = m - MAXOPBLOCKS /\ Len(lh) \in Nat
        BY <3>3 DEF Shape, TypeOK
      <4> HIDE DEF c, d, n, m
      <4>7. Len(lh) + (outstanding - 1) * MAXOPBLOCKS <= LOGSIZE + d
        BY <4>4, <4>5, <4>6
      <4>8. Len(lh') + outstanding' * MAXOPBLOCKS <= LOGSIZE + Cardinality(PairsIn(OpProcs', wrote'))
        BY <3>1, <3>2, <4>2, <4>7 DEF d
      <4>9. \A q \in OpProcs' : wrote'[q] \subseteq Logged' /\ Cardinality(wrote'[q]) <= OpBlocks
        BY <3>1, <3>2, <4>1 DEF Space, Logged
      <4>10. \A S \in SUBSET OpProcs' : Cardinality(PairsIn(S, wrote')) <= Cardinality(S) * OpBlocks
        BY <3>2, <4>2 DEF Space
      <4> QED
        BY <3>5, <4>8, <4>9, <4>10 DEF Space
    <3> QED
      BY <3>4, <3>5
  <2>5. CASE EndCommit(p)
    <3>1. committing /\ lh' = lh /\ lh = <<>> /\ outstanding' = 0
          /\ \A q \in Procs : pc'[q] = "op" <=> pc[q] = "op"
      BY <2>5, PhaseOf DEF EndCommit, Data, Awake, Shape, TypeOK
    <3> QED
      BY <3>1, <1>9, SameOps, SpaceNoOps
  <2>6. CASE WriteLog(p)
    <3>1. committing /\ committing'
      BY <2>6, PhaseOf DEF WriteLog
    <3>2. \A q \in Procs : pc'[q] = "op" <=> pc[q] = "op"
      <4>1. CASE tail[p] < Len(lh)
        BY <2>6, <4>1 DEF WriteLog
      <4>2. CASE ~(tail[p] < Len(lh))
        BY <2>6, <4>2 DEF WriteLog, Shape, TypeOK
      <4> QED
        BY <4>1, <4>2
    <3> QED
      BY <1>9, <3>1, <3>2, SameOps, SpaceNoOps DEF RunPhase
  <2>7. CASE WriteHead(p)
    <3>1. committing /\ committing' /\ \A q \in Procs : pc'[q] = "op" <=> pc[q] = "op"
      BY <2>7, PhaseOf DEF WriteHead, Shape, TypeOK
    <3> QED
      BY <1>9, <3>1, SameOps, SpaceNoOps DEF RunPhase
  <2>8. CASE InstallTrans(p)
    <3>1. (committing \/ RecoveryPhase) /\ pc' = pc /\ pc[p] = "install_trans"
      BY <2>8, PhaseOf DEF InstallTrans
    <3> QED
      BY <1>9, <3>1, SameOps, SpaceNoOps DEF RunPhase
  <2>9. CASE ClearHead(p)
    <3>1. (committing \/ RecoveryPhase) /\ lh' = <<>> /\ outstanding' = outstanding
      BY <2>9, PhaseOf DEF ClearHead
    <3>2. OpProcs' = {} /\ outstanding = 0
      <4>1. CASE committing
        BY <1>9, <2>9, <4>1, PhaseOf DEF ClearHead, OpProcs, Shape, TypeOK
      <4>2. CASE ~committing
        BY <2>9, <3>1, <4>2 DEF ClearHead, OpProcs, RecoveryPhase
      <4> QED
        BY <4>1, <4>2
    <3> QED
      BY <3>1, <3>2, SpaceNoOps
  <2>10. CASE ReadHead(p)
    <3>1. /\ RecoveryPhase /\ pc'[p] = "install_trans"
          /\ \A q \in Procs : pc'[q] = "op" <=> pc[q] = "op"
      BY <2>10, PhaseOf DEF ReadHead, Shape, TypeOK
    <3> QED
      BY <1>9, <3>1, SameOps, SpaceNoOps DEF RunPhase
  <2>11. ASSUME NEW b \in Blocks, NEW v \in Vals, LogWrite(p, b, v) PROVE Space'
    <3>1. /\ pc[p] = "op" /\ UNCHANGED <<outstanding, committing, pc>>
          /\ wrote' = [wrote EXCEPT ![p] = @ \cup {b}]
          /\ Cardinality(wrote[p] \cup {b}) <= OpBlocks
      BY <2>11 DEF LogWrite
    <3>2. OpProcs' = OpProcs /\ p \in OpProcs /\ OpProcs \in SUBSET Procs /\ RunPhase
      BY <3>1, PhaseOf DEF OpProcs
    <3>3. wrote'[p] = wrote[p] \cup {b} /\ \A q \in Procs : q # p => wrote'[q] = wrote[q]
      BY <3>1 DEF Shape, TypeOK
    <3>4. /\ Logged' = Logged \cup {b}
          /\ IF b \in Logged THEN Len(lh') = Len(lh) ELSE Len(lh') = Len(lh) + 1
      <4>1. CASE b \in Logged
        BY <2>11, <4>1 DEF LogWrite, Logged
      <4>2. CASE b \notin Logged
        <5>1. lh' = Append(lh, b) /\ lh \in Seq(Blocks) /\ Distinct(lh)
          BY <2>11, <4>2 DEF LogWrite, Shape, TypeOK
        <5>2. \A i \in DOMAIN lh : lh[i] # b
          BY <4>2 DEF Logged
        <5> QED
          BY <4>2, <5>1, <5>2, AppendDistinct DEF Logged
      <4> QED
        BY <4>1, <4>2
    <3>5. \A q \in OpProcs : wrote'[q] \subseteq Logged' /\ Cardinality(wrote'[q]) <= OpBlocks
      BY <3>1, <3>2, <3>3, <3>4 DEF Space
    <3>6. IsFiniteSet(Logged') /\ Logged' \in SUBSET Blocks /\ IsFiniteSet(OpProcs)
      <4>1. IsFiniteSet(Logged') /\ Logged' \in SUBSET Blocks
        BY LoggedFinite DEF Shape, TypeOK, Logged
      <4>2. IsFiniteSet(OpProcs)
        BY FS_Subset DEF OpProcs
      <4> QED
        BY <4>1, <4>2
    <3>7. ASSUME NEW S \in SUBSET OpProcs, p \in S
          PROVE  LET d == Cardinality(PairsIn(S \ {p}, wrote))
                     n == Cardinality(wrote'[p])
                 IN d \in Nat /\ n \in Nat /\ Cardinality(PairsIn(S, wrote')) = d + n
      <4>1. PairsIn(S \ {p}, wrote') = PairsIn(S \ {p}, wrote)
        BY <3>2, <3>3, PairsSame
      <4>2. S \in SUBSET Procs /\ \A q \in S : wrote'[q] \subseteq Logged'
        BY <3>2, <3>5
      <4> DEFINE w == wrote'
                 Fin == Logged'
      <4>3. IsFiniteSet(Fin) /\ Fin \in SUBSET Blocks /\ \A q \in S : w[q] \subseteq Fin
        BY <3>6, <4>2
      <4> HIDE DEF w, Fin
      <4>4. /\ Cardinality(PairsIn(S, w)) = Cardinality(PairsIn(S \ {p}, w)) + Cardinality(w[p])
            /\ Cardinality(w[p]) \in Nat /\ Cardinality(PairsIn(S \ {p}, w)) \in Nat
        BY <3>7, <4>2, <4>3, PairsSplit
      <4> QED
        BY <4>1, <4>4 DEF w
    <3>8. ASSUME NEW S \in SUBSET OpProcs
          PROVE  Cardinality(PairsIn(S, wrote')) <= Cardinality(S) * OpBlocks
      <4>1. CASE p \notin S
        <5>1. PairsIn(S, wrote') = PairsIn(S, wrote)
          BY <3>2, <3>3, <4>1, PairsSame
        <5> QED
          BY <5>1 DEF Space
      <4>2. CASE p \in S
        <5> DEFINE d == Cardinality(PairsIn(S \ {p}, wrote))
                   n == Cardinality(wrote'[p])
                   k == Cardinality(S)
        <5>1. d \in Nat /\ n \in Nat /\ Cardinality(PairsIn(S, wrote')) = d + n
          BY <3>7, <4>2
        <5>2. k \in Nat /\ Cardinality(S \ {p}) = k - 1
          BY <3>6, <4>2, FS_Subset, FS_RemoveElement, FS_CardinalityType
        <5>3. d <= Cardinality(S \ {p}) * OpBlocks /\ n <= OpBlocks
          BY <3>2, <3>5 DEF Space
        <5> HIDE DEF d, n, k
        <5>4. (k - 1) * OpBlocks = k * OpBlocks - OpBlocks /\ k * OpBlocks \in Int
          BY <5>2
        <5>5. d + n <= k * OpBlocks
          BY <5>1, <5>2, <5>3, <5>4
        <5> QED
          BY <5>1, <5>5 DEF k
      <4> QED
        BY <4>1, <4>2
    <3>9. Len(lh') + outstanding' * MAXOPBLOCKS <= LOGSIZE + Cardinality(PairsIn(OpProcs', wrote'))
      <4> DEFINE c == Cardinality(PairsIn(OpProcs, wrote))
                 d == Cardinality(PairsIn(OpProcs \ {p}, wrote))
                 n == Cardinality(wrote[p])
                 nn == Cardinality(wrote'[p])
                 m == outstanding * MAXOPBLOCKS
      <4>1. /\ IsFiniteSet(Logged) /\ Logged \in SUBSET Blocks
            /\ wrote[p] \subseteq Logged /\ IsFiniteSet(wrote[p])
        <5>1. IsFiniteSet(Logged) /\ Logged \in SUBSET Blocks
          BY LoggedFinite DEF Shape, TypeOK, Logged
        <5> QED
          BY <3>2, <5>1, FS_Subset DEF Space
      <4>2. c \in Nat /\ d \in Nat /\ n \in Nat /\ c = d + n
        <5>1. \A q \in OpProcs : wrote[q] \subseteq Logged
          BY DEF Space
        <5> QED
          BY <3>2, <4>1, <5>1, PairsSplit
      <4>3. nn \in Nat /\ Cardinality(PairsIn(OpProcs, wrote')) = d + nn
        BY <3>2, <3>7
      <4>4. Len(lh) + m <= LOGSIZE + c
        BY <3>2 DEF Space
      <4>5. CASE b \in Logged
        <5>1. n <= nn
          BY <3>3, <4>1, FS_AddElement, FS_Subset
        <5>2. Len(lh') = Len(lh)
          BY <3>4, <4>5
        <5>3. m \in Int /\ Len(lh) \in Nat
          BY DEF Shape, TypeOK
        <5> HIDE DEF c, d, n, nn, m
        <5>4. Len(lh') + m <= LOGSIZE + (d + nn)
          BY <4>2, <4>3, <4>4, <5>1, <5>2, <5>3
        <5> QED
          BY <3>1, <3>2, <4>3, <5>4 DEF m
      <4>6. CASE b \notin Logged
        <5>1. nn = n + 1
          BY <3>3, <4>1, <4>6, FS_AddElement, ZenonT(60)
        <5>2. Len(lh') = Len(lh) + 1
          BY <3>4, <4>6
        <5>3. m \in Int /\ Len(lh) \in Nat
          BY DEF Shape, TypeOK
        <5> HIDE DEF c, d, n, nn, m
        <5>4. Len(lh') + m <= LOGSIZE + (d + nn)
          BY <4>2, <4>3, <4>4, <5>1, <5>2, <5>3
        <5> QED
          BY <3>1, <3>2, <4>3, <5>4 DEF m
      <4> QED
        BY <4>5, <4>6
    <3>10. outstanding' # 0
      <4>1. outstanding > 0 /\ outstanding \in Nat
        BY <3>1, OpActive
      <4> QED
        BY <3>1, <4>1
    <3> QED
      BY <3>2, <3>5, <3>8, <3>9, <3>10 DEF Space
  <2> QED
    BY <1>2, <2>1, <2>2, <2>3, <2>4, <2>5, <2>6, <2>7, <2>8, <2>9, <2>10, <2>11
       DEF LogStep, CommitStep
<1>3. ASSUME NEW b \in Blocks, Bread(b) \/ Recycle(b) PROVE Space'
  BY <1>3, SpaceKept DEF Bread, Recycle, OpProcs, RunPhase
<1>4. CASE Crash
  BY <1>4, SpaceNoOps DEF Crash, OpProcs, RunPhase
<1> QED
  BY <1>1, <1>2, <1>3, <1>4 DEF LogNext

\* Sleepers wait for space or for a commit, and are woken when there may be some.
LEMMA LogSleepersStep ==
  ASSUME LogInv, SleepersMustWait, [LogNext]_logVars PROVE SleepersMustWait'
<1>0. Shape /\ Phases /\ Data
  BY DEF LogInv
<1> USE <1>0 DEF diskVars, Waiting
<1>1. CASE UNCHANGED logVars
  BY <1>1 DEF logVars, SleepersMustWait, MustWait
<1>2. ASSUME NEW p \in Procs, LogStep(p) PROVE SleepersMustWait'
  <2>1. CASE BeginCall(p)
    BY <2>1 DEF BeginCall, SleepersMustWait, MustWait, Shape, TypeOK
  <2>2. CASE KillWakes(p)
    BY <2>2 DEF KillWakes, SleepersMustWait, MustWait, Shape, TypeOK
  <2>3. CASE BeginOp(p)
    <3>1. CASE MustWait
      <4>1. MustWait'
        BY <2>3, <3>1 DEF BeginOp, MustWait
      <4> QED
        BY <4>1 DEF SleepersMustWait
    <3>2. CASE ~MustWait
      <4>1. \A q \in Procs : pc'[q] # "asleep"
        BY <2>3, <3>2 DEF BeginOp, SleepersMustWait, Shape, TypeOK
      <4> QED
        BY <4>1 DEF SleepersMustWait
    <3> QED
      BY <3>1, <3>2
  <2>4. CASE EndOp(p)
    <3>1. CASE outstanding' = 0
      BY <2>4, <3>1 DEF EndOp, SleepersMustWait, MustWait
    <3>2. CASE outstanding' # 0
      BY <2>4, <3>2 DEF EndOp, Awake, SleepersMustWait
    <3> QED
      BY <3>1, <3>2
  <2>5. CASE EndCommit(p)
    BY <2>5 DEF EndCommit, Awake, SleepersMustWait
  <2>6. CASE CommitStep(p) \/ ReadHead(p)
    <3>1. CASE committing
      <4>1. committing'
        BY <2>6, <3>1, PhaseOf DEF CommitStep, WriteLog, WriteHead, InstallTrans, ClearHead,
             ReadHead, RecoveryPhase
      <4> QED
        BY <4>1 DEF SleepersMustWait, MustWait
    <3>2. CASE ~committing
      <4>1. RecoveryPhase /\ p = First
        BY <2>6, <3>2, PhaseOf DEF CommitStep, WriteLog, WriteHead, InstallTrans, ClearHead,
             ReadHead, RecoveryPhase
      <4>2. \A q \in Procs : pc[q] # "asleep"
        BY <4>1 DEF RecoveryPhase
      <4>3. \A q \in Procs : pc'[q] # "asleep"
        <5>1. CASE WriteLog(p) \/ WriteHead(p)
          BY <3>2, <5>1, PhaseOf DEF WriteLog, WriteHead
        <5>2. CASE InstallTrans(p)
          BY <4>2, <5>2 DEF InstallTrans
        <5>3. CASE ClearHead(p)
          BY <3>2, <5>3 DEF ClearHead
        <5>4. CASE ReadHead(p)
          BY <4>2, <5>4 DEF ReadHead, Shape, TypeOK
        <5> QED
          BY <2>6, <5>1, <5>2, <5>3, <5>4 DEF CommitStep
      <4> QED
        BY <4>3 DEF SleepersMustWait
    <3> QED
      BY <3>1, <3>2
  <2>7. ASSUME NEW b \in Blocks, NEW v \in Vals, LogWrite(p, b, v) PROVE SleepersMustWait'
    <3>1. Len(lh') >= Len(lh) /\ Len(lh') \in Nat /\ Len(lh) \in Nat
      BY <2>7 DEF LogWrite, Shape, TypeOK
    <3>2. UNCHANGED <<outstanding, committing, pc>> /\ (outstanding + 1) * MAXOPBLOCKS \in Int
      BY <2>7 DEF LogWrite, Shape, TypeOK
    <3>3. MustWait => MustWait'
      BY <3>1, <3>2 DEF MustWait
    <3> QED
      BY <3>2, <3>3 DEF SleepersMustWait
  <2> QED
    BY <1>2, <2>1, <2>2, <2>3, <2>4, <2>5, <2>6, <2>7 DEF LogStep
<1>3. ASSUME NEW b \in Blocks, Bread(b) \/ Recycle(b) PROVE SleepersMustWait'
  BY <1>3 DEF Bread, Recycle, SleepersMustWait, MustWait
<1>4. CASE Crash
  BY <1>4 DEF Crash, SleepersMustWait
<1> QED
  BY <1>1, <1>2, <1>3, <1>4 DEF LogNext

\* The accounts leave room for every block an operation may still write, provided
\* the on-disk log has a slot for each: mkfs.c counts the header among the
\* LOGSIZE blocks, so operations have to stay one block below MAXOPBLOCKS.
LEMMA SpaceEnough ==
  ASSUME LogInv, Space, LOGSIZE + OpBlocks < NLOG + MAXOPBLOCKS PROVE SpaceReserved
<1> SUFFICES ASSUME NEW p \in Procs, pc[p] = "op", Cardinality(wrote[p]) < OpBlocks
             PROVE  Fits
  BY DEF SpaceReserved
<1> DEFINE c == Cardinality(PairsIn(OpProcs, wrote))
           d == Cardinality(PairsIn(OpProcs \ {p}, wrote))
           n == Cardinality(wrote[p])
           k == outstanding
<1>1. Shape /\ Phases /\ RunPhase /\ p \in OpProcs /\ OpProcs \in SUBSET Procs
  BY PhaseOf DEF LogInv, OpProcs
<1>2. /\ k \in Nat /\ k > 0 /\ Cardinality(OpProcs \ {p}) = k - 1 /\ Len(lh) \in Nat
  BY <1>1, OpActive DEF Shape, TypeOK
<1>3. IsFiniteSet(Logged) /\ Logged \in SUBSET Blocks
  BY <1>1, LoggedFinite DEF Shape, TypeOK, Logged
<1>4. \A q \in OpProcs : wrote[q] \subseteq Logged
  BY DEF Space
<1>5. c \in Nat /\ d \in Nat /\ n \in Nat /\ c = d + n
  BY <1>1, <1>3, <1>4, PairsSplit
<1>6. d <= (k - 1) * OpBlocks
  BY <1>2 DEF Space
<1>7. Len(lh) + k * MAXOPBLOCKS <= LOGSIZE + c
  BY <1>1 DEF Space
<1>8. n < OpBlocks
  OBVIOUS
<1> HIDE DEF c, d, n, k
<1>9. /\ (k - 1) * OpBlocks <= (k - 1) * MAXOPBLOCKS
      /\ (k - 1) * MAXOPBLOCKS = k * MAXOPBLOCKS - MAXOPBLOCKS
      /\ (k - 1) * OpBlocks \in Int /\ k * MAXOPBLOCKS \in Int
  BY <1>2
<1>10. Len(lh) < LOGSIZE + OpBlocks - MAXOPBLOCKS
  BY <1>2, <1>5, <1>6, <1>7, <1>8, <1>9
<1> QED
  BY <1>2, <1>10 DEF Fits

\* begin_op() (log.c:126) lets in neither too many operations nor too few: no
\* sleeper could go on, and log_write() never panics, for any number of processes
\* and any size of the log.
THEOREM LogSpaceManaged ==
  ASSUME LOGSIZE + OpBlocks < NLOG + MAXOPBLOCKS
  PROVE  LogSpec => []SpaceManaged
<1>1. LogInit => Space /\ SleepersMustWait
  BY SpaceInit DEF LogInit, SleepersMustWait
<1>2. LogInv /\ LogInv' /\ Space /\ SleepersMustWait /\ [LogNext]_logVars
        => Space' /\ SleepersMustWait'
  BY SpaceStep, LogSleepersStep
<1>3. LogInv /\ Space /\ SleepersMustWait => SpaceManaged
  BY SpaceEnough DEF SpaceManaged
<1> QED
  BY <1>1, <1>2, <1>3, LogInvariance, PTL DEF LogSpec

-----------------------------------------------------------------------------
(* Atomic transactions.                                                     *)

\* Recovered, as a function of the header, the log blocks and the home blocks.
RecoveredFrom(h, l, d) ==
  [b \in Blocks |-> IF \E i \in DOMAIN h : h[i] = b
                    THEN l[CHOOSE i \in DOMAIN h : h[i] = b]
                    ELSE d[b]]

\* What recovery would make of a block the header names, ...
LEMMA RecoveredSlot ==
  ASSUME NEW h \in Seq(Blocks), Distinct(h), NEW l, NEW d, NEW i \in 1 .. Len(h)
  PROVE  RecoveredFrom(h, l, d)[h[i]] = l[i]
<1>1. i \in DOMAIN h /\ h[i] \in Blocks
  OBVIOUS
<1>2. (CHOOSE j \in DOMAIN h : h[j] = h[i]) = i
  BY <1>1 DEF Distinct
<1> QED
  BY <1>1, <1>2 DEF RecoveredFrom

\* ... of another one, ...
LEMMA RecoveredHome ==
  ASSUME NEW h \in Seq(Blocks), NEW l, NEW d, NEW b \in Blocks,
         \A i \in 1 .. Len(h) : h[i] # b
  PROVE  RecoveredFrom(h, l, d)[b] = d[b]
<1>1. DOMAIN h = 1 .. Len(h)
  OBVIOUS
<1> QED
  BY <1>1 DEF RecoveredFrom

\* ... and of a disk with an empty log.
LEMMA RecoveredEmpty ==
  ASSUME NEW l, NEW d \in [Blocks -> Vals]
  PROVE  RecoveredFrom(<<>>, l, d) = d
BY DEF RecoveredFrom

\* The same for the disk as it is.
LEMMA RecoveredAt ==
  ASSUME Shape
  PROVE  /\ \A i \in 1 .. Len(head) : Recovered[head[i]] = logblk[i]
         /\ \A b \in Blocks : (\A i \in 1 .. Len(head) : head[i] # b) => Recovered[b] = home[b]
         /\ head = <<>> => Recovered = home
<1>1. Recovered = RecoveredFrom(head, logblk, home)
  BY DEF Recovered, RecoveredFrom
<1>2. head \in Seq(Blocks) /\ Distinct(head) /\ home \in [Blocks -> Vals]
  BY DEF Shape, TypeOK
<1>3. \A i \in 1 .. Len(head) : Recovered[head[i]] = logblk[i]
  BY <1>1, <1>2, RecoveredSlot
<1>4. ASSUME NEW b \in Blocks, \A i \in 1 .. Len(head) : head[i] # b PROVE Recovered[b] = home[b]
  BY <1>1, <1>2, <1>4, RecoveredHome
<1>5. head = <<>> => Recovered = home
  BY <1>1, <1>2, RecoveredEmpty
<1> QED
  BY <1>3, <1>4, <1>5

\* While a committed transaction is in the log, and when nothing is left to be
\* written, the disk recovers to what file system code sees.
LEMMA DurableView ==
  ASSUME Shape, Phases, Data, (head # <<>>) \/ dirty = {} PROVE Seen = Recovered
<1>1. CASE Recovering
  BY <1>1 DEF Seen
<1>2. CASE ~Recovering
  <2> USE DEF Shape, TypeOK
  <2>1. Seen = [b \in Blocks |-> Contents(b)] /\ (RunPhase \/ CommitPhase)
    BY <1>2, PhaseOf DEF Seen, Phases
  <2>2. CASE head = <<>>
    <3>1. dirty = {} /\ Recovered = home
      BY <2>2, RecoveredAt
    <3>2. \A b \in Blocks : Contents(b) = home[b]
      BY <3>1 DEF Contents, Data, CacheClean
    <3> QED
      BY <2>1, <3>1, <3>2
  <2>3. CASE head # <<>>
    <3>1. CommitPhase
      BY <2>1, <2>3 DEF Data, RunPhase
    <3>2. PICK c \in Procs : pc[c] = "install_trans"
      BY <2>3, <3>1 DEF CommitPhase, CommitPCs, Data
    <3>3. /\ head = lh
          /\ \A i \in 1 .. Len(lh) : i < tail[c] => Installed(i)
          /\ \A i \in 1 .. Len(lh) : i >= tail[c] => CopyOf(i)
      BY <3>1, <3>2 DEF Data, CommitPhase
    <3>4. ASSUME NEW b \in Blocks PROVE Contents(b) = Recovered[b]
      <4>1. CASE \A i \in 1 .. Len(head) : head[i] # b
        <5>1. b \notin dirty
          BY <3>3, <4>1 DEF Data, CacheClean, Logged
        <5> QED
          BY <4>1, <5>1, RecoveredAt DEF Contents, Data, CacheClean
      <4>2. ASSUME NEW i \in 1 .. Len(head), head[i] = b PROVE Contents(b) = Recovered[b]
        <5>1. Recovered[b] = logblk[i]
          BY <4>2, RecoveredAt
        <5>2. Installed(i) \/ CopyOf(i)
          BY <3>3
        <5> QED
          BY <3>3, <4>2, <5>1, <5>2 DEF Contents, Installed, CopyOf, Data, CacheClean
      <4> QED
        BY <4>1, <4>2
    <3> QED
      BY <2>1, <3>4 DEF Recovered
  <2> QED
    BY <2>2, <2>3
<1> QED
  BY <1>1, <1>2

\* Once end_op() (log.c:147) of the last operation has returned, everything it
\* and the operations before it wrote survives a crash.
THEOREM LogQuietIsDurable == LogSpec => []QuietIsDurable
<1>1. LogInit => Space
  BY SpaceInit
<1>2. LogInv /\ LogInv' /\ Space /\ [LogNext]_logVars => Space'
  BY SpaceStep
<1>3. LogInv /\ Space => QuietIsDurable
  <2> SUFFICES ASSUME LogInv, Space, ~Recovering, outstanding = 0, ~committing
               PROVE  Seen = Recovered
    BY DEF QuietIsDurable
  <2>1. RunPhase
    BY PhaseOf DEF LogInv, Phases, CommitPhase
  <2>2. dirty = {}
    BY <2>1 DEF Space, LogInv, Data, CacheClean, Logged
  <2> QED
    BY <2>2, DurableView DEF LogInv
<1> QED
  BY <1>1, <1>2, <1>3, LogInvariance, PTL DEF LogSpec

\* The contents of the blocks, the steps that disturb them apart, do not change.
LEMMA SameDisk ==
  ASSUME UNCHANGED <<home, logblk, head, cache>>, Recovering' <=> Recovering
  PROVE  Seen' = Seen /\ Recovered' = Recovered
BY DEF Seen, Recovered, Contents

\* write_head() (log.c:101) is the step that commits: from then on the disk
\* recovers to what file system code sees.
LEMMA CommitPoint ==
  ASSUME LogInv, LogInv', NEW p \in Procs, WriteHead(p)
  PROVE  /\ Recovered' = Seen /\ Seen' = Seen /\ outstanding = 0 /\ outstanding' = outstanding
<1> USE DEF LogInv, Shape, TypeOK
<1>1. /\ committing /\ committing' /\ outstanding = 0 /\ outstanding' = outstanding
      /\ UNCHANGED <<home, logblk, cache, lh>> /\ head' = lh
      /\ \A i \in 1 .. Len(lh) : CopyOf(i)
  BY PhaseOf DEF WriteHead, Data
<1>2. ~Recovering /\ ~Recovering'
  BY <1>1, PhaseOf DEF WriteHead, Recovering, RecoveryPhase
<1>3. Seen = [b \in Blocks |-> Contents(b)] /\ Seen' = Seen
  BY <1>1, <1>2 DEF Seen, Contents
<1>4. Recovered' = RecoveredFrom(lh, logblk, home)
  BY <1>1 DEF Recovered, RecoveredFrom
<1>5. ASSUME NEW b \in Blocks PROVE RecoveredFrom(lh, logblk, home)[b] = Contents(b)
  <2>1. CASE \A i \in 1 .. Len(lh) : lh[i] # b
    <3>1. b \notin dirty
      BY <2>1 DEF Data, CacheClean, Logged
    <3>2. RecoveredFrom(lh, logblk, home)[b] = home[b]
      <4>1. DOMAIN lh = 1 .. Len(lh)
        OBVIOUS
      <4> QED
        BY <2>1, <4>1 DEF RecoveredFrom
    <3> QED
      BY <3>1, <3>2 DEF Contents, Data, CacheClean
  <2>2. ASSUME NEW i \in 1 .. Len(lh), lh[i] = b
        PROVE  RecoveredFrom(lh, logblk, home)[b] = Contents(b)
    <3>1. RecoveredFrom(lh, logblk, home)[b] = logblk[i]
      BY <2>2, RecoveredSlot
    <3>2. b \in dirty /\ logblk[i] = cache[b] /\ cache[b] # NoBuf
      BY <1>1, <2>2 DEF CopyOf, Data, CacheClean
    <3> QED
      BY <3>1, <3>2 DEF Contents
  <2> QED
    BY <2>1, <2>2
<1>6. RecoveredFrom(lh, logblk, home) = [b \in Blocks |-> Contents(b)]
  BY <1>5 DEF RecoveredFrom
<1> QED
  BY <1>1, <1>3, <1>4, <1>6

\* Installing a committed block changes neither what is seen nor what survives.
LEMMA InstallHides ==
  ASSUME LogInv, NEW p \in Procs, InstallTrans(p)
  PROVE  Seen' = Seen /\ Recovered' = Recovered /\ outstanding' = outstanding
<1> USE DEF LogInv, Shape, TypeOK
<1> DEFINE t == tail[p]
<1>1. /\ head = lh /\ t \in 1 .. Len(lh) /\ lh[t] \in Blocks
      /\ home' = [home EXCEPT ![lh[t]] = logblk[t]]
      /\ cache' = [cache EXCEPT ![lh[t]] = logblk[t]]
      /\ UNCHANGED <<logblk, head, committing, pc, outstanding>>
  BY DEF InstallTrans, Data
<1>2. t \in Slots /\ logblk[t] \in Vals /\ head # <<>>
  BY <1>1 DEF Slots
<1>4. Recovered' = RecoveredFrom(head, logblk, home') /\ Recovered = RecoveredFrom(head, logblk, home)
  BY <1>1 DEF Recovered, RecoveredFrom
<1>5. ASSUME NEW b \in Blocks
      PROVE  RecoveredFrom(head, logblk, home')[b] = RecoveredFrom(head, logblk, home)[b]
  <2>1. CASE \A i \in 1 .. Len(head) : head[i] # b
    <3>1. home'[b] = home[b]
      BY <1>1, <2>1
    <3> QED
      BY <2>1, <3>1, RecoveredHome, SMTT(40)
  <2>2. ASSUME NEW i \in 1 .. Len(head), head[i] = b
        PROVE  RecoveredFrom(head, logblk, home')[b] = RecoveredFrom(head, logblk, home)[b]
    BY <2>2, RecoveredSlot
  <2> QED
    BY <2>1, <2>2
<1>6. Recovered' = Recovered
  BY <1>4, <1>5 DEF RecoveredFrom
<1>7. Recovering' <=> Recovering
  BY <1>1 DEF Recovering
<1>8. Seen = Recovered
  BY <1>2, DurableView
<1>9. CASE Recovering
  BY <1>1, <1>6, <1>7, <1>8, <1>9 DEF Seen
<1>10. CASE ~Recovering
  <2>1. Recovered = [b \in Blocks |-> Contents(b)] /\ Seen' = [b \in Blocks |-> Contents(b)']
    BY <1>7, <1>8, <1>10 DEF Seen
  <2>2. Recovered[lh[t]] = logblk[t]
    BY <1>1, RecoveredAt
  <2>3. ASSUME NEW b \in Blocks PROVE Contents(b)' = Contents(b)
    <3>1. CASE b = lh[t]
      <4>1. cache'[b] = logblk[t] /\ logblk[t] # NoBuf
        BY <1>1, <1>2, <3>1
      <4> QED
        BY <2>1, <2>2, <3>1, <4>1 DEF Contents
    <3>2. CASE b # lh[t]
      BY <1>1, <3>2 DEF Contents
    <3> QED
      BY <3>1, <3>2
  <2> QED
    BY <1>1, <1>6, <1>8, <2>1, <2>3
<1> QED
  BY <1>9, <1>10

\* When all is installed the log may be emptied, in a commit and in recovery.
LEMMA ClearHides ==
  ASSUME LogInv, NEW p \in Procs, ClearHead(p)
  PROVE  Seen' = Seen /\ Recovered' = Recovered /\ outstanding' = outstanding
<1> USE DEF LogInv, Shape, TypeOK
<1>1. /\ head = lh /\ head' = <<>> /\ pc[p] = "install_trans"
      /\ UNCHANGED <<home, logblk, cache, committing, outstanding>>
      /\ \A i \in 1 .. Len(lh) : Installed(i)
  BY DEF ClearHead, Data
<1>2. Recovered' = RecoveredFrom(<<>>, logblk, home) /\ Recovered = RecoveredFrom(head, logblk, home)
  BY <1>1 DEF Recovered, RecoveredFrom
<1>3. Recovered' = home
  BY <1>2, RecoveredEmpty
<1>4. ASSUME NEW b \in Blocks PROVE RecoveredFrom(head, logblk, home)[b] = home[b]
  <2>1. CASE \A i \in 1 .. Len(head) : head[i] # b
    <3>1. DOMAIN head = 1 .. Len(head)
      OBVIOUS
    <3> QED
      BY <2>1, <3>1 DEF RecoveredFrom
  <2>2. ASSUME NEW i \in 1 .. Len(head), head[i] = b
        PROVE  RecoveredFrom(head, logblk, home)[b] = home[b]
    BY <1>1, <2>2, RecoveredSlot DEF Installed
  <2> QED
    BY <2>1, <2>2
<1>5. Recovered = home
  BY <1>2, <1>4 DEF RecoveredFrom
<1>6. dirty = {}
  BY <1>1 DEF Data, CacheClean, Logged, Installed
<1>7. [b \in Blocks |-> Contents(b)] = home
  BY <1>6 DEF Contents, Data, CacheClean
<1>8. Seen = home
  BY <1>5, <1>7 DEF Seen
<1>9. ~Recovering'
  <2>1. CASE committing
    BY <1>1, <2>1, PhaseOf DEF Recovering, ClearHead, RecoveryPhase
  <2>2. CASE ~committing
    BY <1>1, <2>2 DEF Recovering, ClearHead
  <2> QED
    BY <2>1, <2>2
<1>10. Seen' = [b \in Blocks |-> Contents(b)]
  BY <1>1, <1>9 DEF Seen, Contents
<1> QED
  BY <1>1, <1>3, <1>5, <1>7, <1>8, <1>10

\* What a step of the log does to the contents of the blocks, in terms of TxDisk.
LEMMA TxStep ==
  ASSUME LogInv, LogInv', [LogNext]_logVars PROVE [T!TxNext]_(T!txVars)
<1>0. Shape /\ Phases /\ Data
  BY DEF LogInv
<1> USE <1>0 DEF diskVars, Waiting
<1> DEFINE Quiet == Seen' = Seen /\ Recovered' = Recovered /\ outstanding' = outstanding
<1>q. ASSUME Quiet PROVE UNCHANGED T!txVars
  BY <1>q DEF T!txVars
<1>1. CASE UNCHANGED logVars
  <2>1. Quiet
    BY <1>1, SameDisk DEF logVars, Recovering
  <2> QED
    BY <2>1, <1>q
<1>2. ASSUME NEW p \in Procs, LogStep(p) PROVE [T!TxNext]_(T!txVars)
  <2>1. CASE BeginCall(p) \/ KillWakes(p)
    <3>1. Recovering' <=> Recovering
      BY <2>1 DEF BeginCall, KillWakes, Recovering, Shape, TypeOK
    <3> QED
      BY <2>1, <3>1, SameDisk, <1>q DEF BeginCall, KillWakes
  <2>2. CASE BeginOp(p)
    <3>1. UNCHANGED <<home, logblk, head, cache, committing>>
      BY <2>2 DEF BeginOp
    <3>2. CASE MustWait
      <4>1. Recovering' <=> Recovering
        BY <2>2, <3>2 DEF BeginOp, Recovering, Shape, TypeOK
      <4> QED
        BY <2>2, <3>1, <3>2, <4>1, SameDisk, <1>q DEF BeginOp
    <3>3. CASE ~MustWait
      <4>1. Recovering' <=> Recovering
        BY <2>2, <3>3 DEF BeginOp, Recovering, Shape, TypeOK
      <4>2. T!Begin
        BY <2>2, <3>1, <3>3, <4>1, SameDisk DEF BeginOp, T!Begin
      <4> QED
        BY <4>2 DEF T!TxNext
    <3> QED
      BY <3>2, <3>3
  <2>3. CASE EndOp(p)
    <3>1. ~Recovering /\ outstanding > 0
      BY <2>3, PhaseOf, OpActive DEF EndOp
    <3>2. ~Recovering'
      BY <2>3, <3>1, PhaseOf DEF EndOp, Recovering, Awake, RunPhase, Shape, TypeOK
    <3>3. T!End
      BY <2>3, <3>1, <3>2, SameDisk DEF EndOp, T!End
    <3> QED
      BY <3>3 DEF T!TxNext
  <2>4. CASE EndCommit(p)
    <3>1. committing /\ \A q \in Procs : q # p => pc[q] \in Waiting
      BY <2>4, PhaseOf DEF EndCommit, CommitPCs
    <3>2. ~Recovering /\ ~Recovering'
      BY <2>4, <3>1 DEF EndCommit, Recovering, Awake, Shape, TypeOK
    <3> QED
      BY <2>4, <3>2, SameDisk, <1>q DEF EndCommit
  <2>5. CASE WriteLog(p)
    <3>1. /\ committing /\ head = <<>> /\ tail[p] \in 1 .. Len(lh)
          /\ UNCHANGED <<home, head, outstanding, committing>>
          /\ cache' = [cache EXCEPT ![lh[tail[p]]] = Contents(lh[tail[p]])]
      BY <2>5, PhaseOf DEF WriteLog, Data
    <3>2. Recovered = RecoveredFrom(<<>>, logblk, home) /\ Recovered' = RecoveredFrom(<<>>, logblk', home)
      BY <3>1 DEF Recovered, RecoveredFrom
    <3>3. Recovered' = Recovered
      BY <3>2, RecoveredEmpty DEF Shape, TypeOK
    <3>4. ~Recovering /\ ~Recovering'
      <4>1. \A q \in Procs : pc[q] # "read_head"
        BY <3>1, PhaseOf DEF RecoveryPhase
      <4>2. \A q \in Procs : pc'[q] # "read_head"
        <5>1. CASE tail[p] < Len(lh)
          BY <2>5, <4>1, <5>1 DEF WriteLog
        <5>2. CASE ~(tail[p] < Len(lh))
          BY <2>5, <4>1, <5>2 DEF WriteLog, Shape, TypeOK
        <5> QED
          BY <5>1, <5>2
      <4> QED
        BY <3>1, <4>1, <4>2 DEF Recovering
    <3>5. ASSUME NEW b \in Blocks PROVE Contents(b)' = Contents(b)
      <4>1. lh[tail[p]] \in Blocks
        BY <3>1 DEF Shape, TypeOK
      <4>2. CASE b = lh[tail[p]]
        BY <3>1, <4>1, <4>2 DEF Contents, Shape, TypeOK
      <4>3. CASE b # lh[tail[p]]
        BY <3>1, <4>1, <4>3 DEF Contents, Shape, TypeOK
      <4> QED
        BY <4>2, <4>3
    <3>6. Seen' = Seen
      BY <3>4, <3>5 DEF Seen
    <3> QED
      BY <3>1, <3>3, <3>6, <1>q
  <2>6. CASE WriteHead(p)
    <3>1. T!Commit
      BY <2>6, CommitPoint DEF T!Commit
    <3> QED
      BY <3>1 DEF T!TxNext
  <2>7. CASE InstallTrans(p)
    BY <2>7, InstallHides, <1>q
  <2>8. CASE ClearHead(p)
    BY <2>8, ClearHides, <1>q
  <2>9. CASE ReadHead(p)
    <3>1. RecoveryPhase /\ ~committing /\ pc'[p] = "install_trans"
      BY <2>9, PhaseOf DEF ReadHead, RecoveryPhase, Shape, TypeOK
    <3>2. Recovering /\ Recovering'
      BY <2>9, <3>1 DEF ReadHead, Recovering
    <3> QED
      BY <2>9, <3>2, SameDisk, <1>q DEF ReadHead
  <2>10. ASSUME NEW b \in Blocks, NEW v \in Vals, LogWrite(p, b, v) PROVE T!Write(b, v)
    <3>1. ~Recovering /\ outstanding > 0
      BY <2>10, PhaseOf, OpActive DEF LogWrite
    <3>2. ~Recovering' /\ cache' = [cache EXCEPT ![b] = v] /\ UNCHANGED <<home, logblk, head, outstanding>>
      BY <2>10, <3>1 DEF LogWrite, Recovering
    <3>3. Seen = [c \in Blocks |-> Contents(c)] /\ Seen' = [c \in Blocks |-> Contents(c)']
      BY <3>1, <3>2 DEF Seen
    <3>4. \A c \in Blocks : Contents(c)' = IF c = b THEN v ELSE Contents(c)
      BY <3>2 DEF Contents, Shape, TypeOK
    <3>5. Seen' = [Seen EXCEPT ![b] = v]
      BY <3>3, <3>4
    <3>6. Recovered' = Recovered
      BY <3>2 DEF Recovered
    <3> QED
      BY <3>1, <3>2, <3>5, <3>6 DEF T!Write
  <2>11. ASSUME NEW b \in Blocks, NEW v \in Vals, LogWrite(p, b, v) PROVE T!TxNext
    BY <2>10, <2>11 DEF T!TxNext
  <2> QED
    BY <1>2, <2>1, <2>2, <2>3, <2>4, <2>5, <2>6, <2>7, <2>8, <2>9, <2>11
       DEF LogStep, CommitStep
<1>3. ASSUME NEW b \in Blocks, Bread(b) \/ Recycle(b) PROVE [T!TxNext]_(T!txVars)
  <2>1. UNCHANGED <<home, logblk, head, outstanding, pc, committing>>
    BY <1>3 DEF Bread, Recycle
  <2>2. ASSUME NEW c \in Blocks PROVE Contents(c)' = Contents(c)
    <3>1. CASE Bread(b)
      BY <3>1 DEF Bread, Contents, Shape, TypeOK
    <3>2. CASE Recycle(b)
      BY <3>2 DEF Recycle, Contents, Shape, TypeOK, Data, CacheClean
    <3> QED
      BY <1>3, <3>1, <3>2
  <2>3. Recovered' = Recovered /\ (Recovering' <=> Recovering)
    BY <2>1 DEF Recovered, Recovering
  <2>4. Seen' = Seen
    BY <2>2, <2>3 DEF Seen
  <2> QED
    BY <2>1, <2>3, <2>4, <1>q
<1>4. CASE Crash
  <2>1. Recovering' /\ Recovered' = Recovered
    BY <1>4 DEF Crash, Recovering, Recovered
  <2>2. T!Crash
    BY <1>4, <2>1 DEF Crash, Seen, T!Crash
  <2> QED
    BY <2>2 DEF T!TxNext
<1> QED
  BY <1>1, <1>2, <1>3, <1>4 DEF LogNext

\* The log (log.c) implements atomic transactions: in every behaviour, with crashes
\* anywhere, in recovery too, the blocks that would survive change only when no
\* operation is under way, to what all finished ones wrote.
THEOREM LogAtomic == LogSpec => Atomic
<1>1. LogInit => T!TxInit
  <2> SUFFICES ASSUME LogInit PROVE T!TxInit
    OBVIOUS
  <2>1. Recovering /\ Recovered = RecoveredFrom(<<>>, logblk, home)
    BY DEF LogInit, Recovering, Recovered, RecoveredFrom
  <2>2. Recovered = home /\ home \in [Blocks -> Vals]
    BY <2>1, RecoveredEmpty DEF LogInit
  <2> QED
    BY <2>1, <2>2 DEF LogInit, Seen, T!TxInit
<1>2. LogInv /\ LogInv' /\ [LogNext]_logVars => [T!TxNext]_(T!txVars)
  BY TxStep
<1> QED
  BY <1>1, <1>2, LogInvariance, PTL DEF LogSpec, Atomic, T!TxSpec
=============================================================================
