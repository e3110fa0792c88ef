---------------------------- MODULE ProcTableProofs ----------------------------
(***************************************************************************)
(* Proofs about ProcTable, for any number of slots, CPUs and pages.  Each   *)
(* theorem adds one layer of the inductive invariant and builds on the      *)
(* layers below it.                                                         *)
(***************************************************************************)
EXTENDS ProcTable, FiniteSetTheorems, WellFoundedInduction, TLAPS

ForkPCs == {"fork_kalloc", "fork_copyuvm", "fork_publish"}
Live == {"SLEEPING", "RUNNABLE", "RUNNING"}

-----------------------------------------------------------------------------
(* The layers.                                                              *)

\* fork() owns the slot it works on: it is an EMBRYO and nobody else's np.
NpOwned ==
  /\ \A p \in Slots : pc[p] \in ForkPCs => np[p] \in Slots /\ state[np[p]] = "EMBRYO"
  /\ \A p, r \in Slots :
       pc[p] \in ForkPCs /\ pc[r] \in ForkPCs /\ np[p] = np[r] => p = r

\* init lives for ever: no kill() reaches it, so no path leads it into exit().
InitLives ==
  /\ pid[Initproc] = InitPid /\ ~killed[Initproc] /\ pc[Initproc] # "exit"
  /\ state[Initproc] \in Live /\ parent[Initproc] = NoProc

\* Every allocated pid is below nextpid.
PidsBelowNext == \A p \in Slots : pid[p] < nextpid

\* Whoever is in use has a pid, and whoever has a CPU is in use.
LivePids ==
  /\ nextpid > 0
  /\ \A p \in Slots : state[p] # "UNUSED" => pid[p] # 0
  /\ \A c \in CPUs : curproc[c] # NoProc => state[curproc[c]] \notin {"UNUSED", "EMBRYO"}

\* A child that is about to be published belongs to the forking process, and
\* nobody is its own parent.
ParentLinks ==
  /\ \A p \in Slots : pc[p] = "fork_publish" => parent[np[p]] = p
  /\ \A p \in Slots : parent[p] # p

\* Inside sys_sleep() with tickslock held: the process is on the CPU that holds
\* it, nothing has preempted it, and it has ticks left to wait for.
TickslockOwned ==
  \A p \in Slots : pc[p] = "tsleep" =>
    /\ state[p] = "RUNNING" /\ resume[p] = "none" /\ rem[p] > 0
    /\ \E c \in CPUs : curproc[c] = p /\ tickslock = c
-----------------------------------------------------------------------------
(* Types.                                                                   *)

USE ProcTableAssumption

\* The constants the types mention.
LEMMA Constants ==
  /\ Initproc \in Slots /\ NoProc \notin Slots /\ NoChan \notin Slots
  /\ NoCpu \notin CPUs /\ TicksChan \notin Slots /\ TicksChan # NoChan /\ NoProc # TicksChan
  /\ \A c \in CPUs : c \in Int
  /\ \A p \in Slots : p \in Int
BY DEF Slots, CPUs, NoProc, NoCpu, NoChan, TicksChan, Initproc

\* A step keeps the types of the fields of struct proc and of the locks.
LEMMA TypeOKStep == TypeOK /\ [Next]_procVars => TypeOK'
<1> SUFFICES ASSUME TypeOK, [Next]_procVars PROVE TypeOK'
  OBVIOUS
<1> USE Constants DEF States, PCs, Resumes
<1>1. CASE UNCHANGED procVars
  BY <1>1 DEF TypeOK, procVars
<1>2. ASSUME NEW c \in CPUs,
             \/ SchedAcquire(c) \/ SchedRelease(c) \/ SwitchBack(c)
             \/ \E p \in Slots : Dispatch(c, p)
             \/ ProcessStep(c)
      PROVE  TypeOK'
  <2> DEFINE p == curproc[c]
  <2>0. p \in Slots \/ p = NoProc
    BY DEF TypeOK
  <2>1. CASE SchedAcquire(c)
    BY <2>1 DEF TypeOK, SchedAcquire
  <2>2. CASE SchedRelease(c)
    BY <2>2 DEF TypeOK, SchedRelease
  <2>3. CASE SwitchBack(c)
    BY <2>3 DEF TypeOK, SwitchBack
  <2>4. ASSUME NEW q \in Slots, Dispatch(c, q) PROVE TypeOK'
    BY <2>4 DEF TypeOK, Dispatch
  <2>5. CASE ReturnFromSwitch(c)
    BY <2>5 DEF TypeOK, ReturnFromSwitch, AfterTrap
  <2>6. CASE ForkAlloc(c)
    <3>1. p \in Slots
      BY <2>0, <2>6 DEF ForkAlloc, MaySyscall, InUser, Executing
    <3>2. PICK q \in Slots :
            /\ state' = [state EXCEPT ![q] = "EMBRYO"]
            /\ pid' = [pid EXCEPT ![q] = nextpid]
            /\ np' = [np EXCEPT ![p] = q]
      BY <2>6 DEF ForkAlloc
    <3> QED
      BY <2>6, <3>1, <3>2 DEF TypeOK, ForkAlloc
  <2>7. CASE ForkKalloc(c)
    <3>1. CASE freepages > 0
      <4>1. /\ freepages' = freepages - 1
            /\ kstack' = [kstack EXCEPT ![np[p]] = TRUE]
            /\ resume' = [resume EXCEPT ![np[p]] = "forkret"]
            /\ pc' = [pc EXCEPT ![p] = "fork_copyuvm", ![np[p]] = "user"]
            /\ UNCHANGED <<state, np>>
        BY <2>7, <3>1 DEF ForkKalloc
      <4>2. freepages' \in Nat
        BY <3>1, <4>1 DEF TypeOK
      <4> QED
        BY <2>7, <4>1, <4>2 DEF TypeOK, ForkKalloc
    <3>2. CASE freepages = 0
      BY <2>7, <3>2 DEF TypeOK, ForkKalloc, AfterTrap
    <3> QED
      BY <2>7, <3>1, <3>2 DEF ForkKalloc
  <2>8. CASE ForkCopyuvm(c)
    <3>0. p \in Slots
      BY <2>0, <2>8 DEF ForkCopyuvm, Executing
    <3>1. CASE freepages > 0
      <4>1. /\ freepages' = freepages - 1
            /\ pgdir' = [pgdir EXCEPT ![np[p]] = TRUE]
            /\ parent' = [parent EXCEPT ![np[p]] = p]
            /\ pc' = [pc EXCEPT ![p] = "fork_publish"]
            /\ UNCHANGED <<state, kstack, np>>
        BY <2>8, <3>1 DEF ForkCopyuvm
      <4>2. freepages' \in Nat
        BY <3>1, <4>1 DEF TypeOK
      <4> QED
        BY <2>8, <3>0, <4>1, <4>2 DEF TypeOK, ForkCopyuvm
    <3>2. CASE freepages = 0
      <4>1. /\ freepages' = freepages + 1
            /\ kstack' = [kstack EXCEPT ![np[p]] = FALSE]
            /\ state' = [state EXCEPT ![np[p]] = "UNUSED"]
            /\ np' = [np EXCEPT ![p] = NoProc]
            /\ pc' = [pc EXCEPT ![p] = AfterTrap(killed[p])]
            /\ UNCHANGED <<parent, pgdir>>
        BY <2>8, <3>2 DEF ForkCopyuvm
      <4>2. freepages' \in Nat
        BY <4>1 DEF TypeOK
      <4> QED
        BY <2>8, <4>1, <4>2 DEF TypeOK, ForkCopyuvm, AfterTrap
    <3> QED
      BY <2>8, <3>1, <3>2 DEF ForkCopyuvm
  <2>9. CASE ForkPublish(c)
    BY <2>9 DEF TypeOK, ForkPublish, AfterTrap
  <2>10. CASE ExitCall(c)
    BY <2>10 DEF TypeOK, ExitCall
  <2>11. CASE ExitFinish(c)
    BY <2>11 DEF TypeOK, ExitFinish
  <2>12. CASE Wait(c)
    <3>0. p \in Slots
      BY <2>0, <2>12 DEF Wait, MaySyscall, InUser, Executing, Resumed
    <3>1. CASE Reap(c, p)
      <4>1. PICK q \in Slots :
              /\ freepages' = freepages + 2
              /\ kstack' = [kstack EXCEPT ![q] = FALSE]
              /\ pgdir' = [pgdir EXCEPT ![q] = FALSE]
              /\ pid' = [pid EXCEPT ![q] = 0]
              /\ parent' = [parent EXCEPT ![q] = NoProc]
              /\ killed' = [killed EXCEPT ![q] = FALSE]
              /\ state' = [state EXCEPT ![q] = "UNUSED"]
        BY <3>1 DEF Reap
      <4>2. freepages' \in Nat
        BY <4>1 DEF TypeOK
      <4>3. /\ chan' = [chan EXCEPT ![p] = NoChan]
            /\ resume' = [resume EXCEPT ![p] = "none"]
            /\ pc' = [pc EXCEPT ![p] = AfterTrap(killed[p])]
            /\ ptlock' = NoCpu
            /\ UNCHANGED <<nextpid, np, rem, curproc, tickslock>>
        BY <2>12, <3>1 DEF Wait, Reap
      <4> QED
        BY <4>1, <4>2, <4>3 DEF TypeOK, AfterTrap
    <3>2. CASE WaitFail(c, p)
      BY <2>12, <3>2 DEF TypeOK, Wait, WaitFail, AfterTrap
    <3>3. CASE WaitSleep(c, p)
      BY <2>12, <3>0, <3>3 DEF TypeOK, Wait, WaitSleep
    <3> QED
      BY <2>12, <3>1, <3>2, <3>3 DEF Wait
  <2>13. ASSUME NEW k \in KillPids, Kill(c, k) PROVE TypeOK'
    <3>1. PICK q \in Slots :
            /\ killed' = [killed EXCEPT ![q] = TRUE]
            /\ state' = [state EXCEPT ![q] = IF @ = "SLEEPING" THEN "RUNNABLE" ELSE @]
      BY <2>13 DEF Kill
    <3> QED
      BY <2>13, <3>1 DEF TypeOK, Kill, AfterTrap
  <2>14. CASE TimerTrap(c)
    <3>1. resume' \in [Slots -> Resumes]
      BY <2>14 DEF TypeOK, TimerTrap
    <3>2. rem' \in [Slots -> Nat]
      BY <2>14 DEF TypeOK, TimerTrap, TickEffect
    <3>3. state' \in [Slots -> States]
      BY <2>14 DEF TypeOK, TimerTrap, TickEffect
    <3> QED
      BY <2>14, <3>1, <3>2, <3>3 DEF TypeOK, TimerTrap
  <2>15. CASE TrapExit(c)
    BY <2>15 DEF TypeOK, TrapExit
  <2>16. CASE TrapYield(c)
    BY <2>16 DEF TypeOK, TrapYield
  <2>17. ASSUME NEW n \in 1 .. MaxSleep, SysSleep(c, n) PROVE TypeOK'
    <3>1. n \in Nat
      BY <2>17
    <3> QED
      BY <2>17, <3>1 DEF TypeOK, SysSleep
  <2>18. CASE SleepTicks(c)
    BY <2>18 DEF TypeOK, SleepTicks
  <2>19. CASE SleepReturn(c)
    BY <2>19 DEF TypeOK, SleepReturn
  <2>20. CASE SleepRecheck(c)
    BY <2>20 DEF TypeOK, SleepRecheck, AfterTrap
  <2> QED
    BY <1>2, <2>1, <2>2, <2>3, <2>4, <2>5, <2>6, <2>7, <2>8, <2>9, <2>10, <2>11, <2>12,
       <2>13, <2>14, <2>15, <2>16, <2>17, <2>18, <2>19, <2>20
       DEF ProcessStep, ForkStep, TickStep, SleepStep
<1> QED
  BY <1>1, <1>2 DEF Next

\* Every field of the process table and every lock keeps a value of its type.
THEOREM TypeCorrect == Spec => []TypeOK
<1>1. Init => TypeOK
  BY DEF Init, TypeOK, Slots, CPUs, NoProc, NoCpu, NoChan, TicksChan, Initproc, InitPid,
         States, PCs, Resumes
<1> QED
  BY <1>1, TypeOKStep, PTL DEF Spec

-----------------------------------------------------------------------------
(* One CPU per process, one fork() per slot.                                *)

\* A step keeps processes and CPUs matched: outside the scheduler only the CPU that
\* holds ptable.lock may have a process that is not RUNNING.
LEMMA OneCpuStep ==
  ASSUME TypeOK, OneCpuPerProcess, NpOwned, [Next]_procVars PROVE OneCpuPerProcess'
<1> USE Constants DEF TypeOK, OneCpuPerProcess, NpOwned, ForkPCs
<1>1. CASE UNCHANGED procVars
  BY <1>1 DEF procVars
<1>2. ASSUME NEW c \in CPUs,
             \/ SchedAcquire(c) \/ SchedRelease(c) \/ SwitchBack(c)
             \/ \E p \in Slots : Dispatch(c, p)
             \/ ProcessStep(c)
      PROVE  OneCpuPerProcess'
  <2>1. CASE SchedAcquire(c)
    BY <2>1 DEF SchedAcquire
  <2>2. CASE SchedRelease(c)
    BY <2>2 DEF SchedRelease
  <2>3. CASE SwitchBack(c)
    BY <2>3 DEF SwitchBack
  <2>4. ASSUME NEW q \in Slots, Dispatch(c, q) PROVE OneCpuPerProcess'
    BY <2>4 DEF Dispatch
  <2>5. CASE ReturnFromSwitch(c)
    BY <2>5 DEF ReturnFromSwitch, Resumed, AfterTrap
  <2>6. CASE ForkAlloc(c)
    BY <2>6 DEF ForkAlloc, MaySyscall, InUser, Executing, FirstSlot, UnusedSlots
  <2>7. CASE ForkKalloc(c)
    BY <2>7 DEF ForkKalloc, Executing, AfterTrap
  <2>8. CASE ForkCopyuvm(c)
    BY <2>8 DEF ForkCopyuvm, Executing, AfterTrap
  <2>9. CASE ForkPublish(c)
    BY <2>9 DEF ForkPublish, Executing, AfterTrap
  <2>10. CASE ExitCall(c)
    BY <2>10 DEF ExitCall, InUser, Executing
  <2>11. CASE ExitFinish(c)
    BY <2>11 DEF ExitFinish, Executing, ExitWakes, Woken
  <2>12. CASE Wait(c)
    BY <2>12 DEF Wait, Reap, WaitFail, WaitSleep, MaySyscall, InUser, Executing, Resumed,
           AfterTrap, FirstSlot, ZombieChildren, Children
  <2>13. ASSUME NEW k \in KillPids, Kill(c, k) PROVE OneCpuPerProcess'
    BY <2>13 DEF Kill, MaySyscall, InUser, Executing, AfterTrap, FirstSlot
  <2>14. CASE TimerTrap(c)
    BY <2>14 DEF TimerTrap, TickEffect, Executing, Woken
  <2>15. CASE TrapExit(c)
    BY <2>15 DEF TrapExit, InTrap
  <2>16. CASE TrapYield(c)
    BY <2>16 DEF TrapYield, InTrap
  <2>17. ASSUME NEW n \in 1 .. MaxSleep, SysSleep(c, n) PROVE OneCpuPerProcess'
    BY <2>17 DEF SysSleep, MaySyscall, InUser, Executing
  <2>18. CASE SleepTicks(c)
    BY <2>18 DEF SleepTicks, Executing
  <2>19. CASE SleepReturn(c)
    BY <2>19 DEF SleepReturn, Resumed
  <2>20. CASE SleepRecheck(c)
    BY <2>20 DEF SleepRecheck, Executing, AfterTrap
  <2> QED
    BY <1>2, <2>1, <2>2, <2>3, <2>4, <2>5, <2>6, <2>7, <2>8, <2>9, <2>10, <2>11, <2>12,
       <2>13, <2>14, <2>15, <2>16, <2>17, <2>18, <2>19, <2>20
       DEF ProcessStep, ForkStep, TickStep, SleepStep
<1> QED
  BY <1>1, <1>2 DEF Next

\* A step keeps the slots of forks in progress apart and out of reach of others.
LEMMA NpOwnedStep ==
  ASSUME TypeOK, NpOwned, [Next]_procVars PROVE NpOwned'
<1> USE Constants DEF TypeOK, NpOwned, ForkPCs
<1>1. CASE UNCHANGED procVars
  BY <1>1 DEF procVars
<1>2. ASSUME NEW c \in CPUs,
             \/ SchedAcquire(c) \/ SchedRelease(c) \/ SwitchBack(c)
             \/ \E p \in Slots : Dispatch(c, p)
             \/ ProcessStep(c)
      PROVE  NpOwned'
  <2>1. CASE SchedAcquire(c)
    BY <2>1 DEF SchedAcquire
  <2>2. CASE SchedRelease(c)
    BY <2>2 DEF SchedRelease
  <2>3. CASE SwitchBack(c)
    BY <2>3 DEF SwitchBack
  <2>4. ASSUME NEW q \in Slots, Dispatch(c, q) PROVE NpOwned'
    BY <2>4 DEF Dispatch
  <2>5. CASE ReturnFromSwitch(c)
    BY <2>5 DEF ReturnFromSwitch, Resumed, AfterTrap
  <2>6. CASE ForkAlloc(c)
    BY <2>6 DEF ForkAlloc, MaySyscall, InUser, Executing, FirstSlot, UnusedSlots
  <2>7. CASE ForkKalloc(c)
    <3> DEFINE p == curproc[c]  q == np[p]
    <3>1. /\ p \in Slots /\ q \in Slots /\ p # q
          /\ state[q] = "EMBRYO" /\ pc[p] = "fork_kalloc"
          /\ \A r \in Slots : pc[r] \in ForkPCs /\ r # p => np[r] # q
      BY <2>7 DEF ForkKalloc, Executing
    <3>2. CASE freepages > 0
      <4>1. /\ state' = state /\ np' = np
            /\ pc' = [pc EXCEPT ![p] = "fork_copyuvm", ![q] = "user"]
        BY <2>7, <3>2 DEF ForkKalloc
      <4> HIDE DEF p, q
      <4> QED
        BY <3>1, <4>1
    <3>3. CASE freepages = 0
      <4>1. /\ state' = [state EXCEPT ![q] = "UNUSED"] /\ np' = [np EXCEPT ![p] = NoProc]
            /\ pc' = [pc EXCEPT ![p] = AfterTrap(killed[p])]
        BY <2>7, <3>3 DEF ForkKalloc
      <4>2. AfterTrap(killed[p]) \notin ForkPCs
        BY DEF AfterTrap
      <4> HIDE DEF p, q
      <4> QED
        BY <3>1, <4>1, <4>2
    <3> QED
      BY <2>7, <3>2, <3>3 DEF ForkKalloc
  <2>8. CASE ForkCopyuvm(c)
    BY <2>8 DEF ForkCopyuvm, Executing, AfterTrap
  <2>9. CASE ForkPublish(c)
    BY <2>9 DEF ForkPublish, Executing, AfterTrap
  <2>10. CASE ExitCall(c)
    BY <2>10 DEF ExitCall, InUser, Executing
  <2>11. CASE ExitFinish(c)
    BY <2>11 DEF ExitFinish, Executing, ExitWakes, Woken
  <2>12. CASE Wait(c)
    BY <2>12 DEF Wait, Reap, WaitFail, WaitSleep, MaySyscall, InUser, Executing, Resumed,
           AfterTrap, FirstSlot, ZombieChildren, Children
  <2>13. ASSUME NEW k \in KillPids, Kill(c, k) PROVE NpOwned'
    BY <2>13 DEF Kill, MaySyscall, InUser, Executing, AfterTrap, FirstSlot
  <2>14. CASE TimerTrap(c)
    BY <2>14 DEF TimerTrap, TickEffect, Executing, Woken
  <2>15. CASE TrapExit(c)
    BY <2>15 DEF TrapExit, InTrap
  <2>16. CASE TrapYield(c)
    BY <2>16 DEF TrapYield, InTrap
  <2>17. ASSUME NEW n \in 1 .. MaxSleep, SysSleep(c, n) PROVE NpOwned'
    BY <2>17 DEF SysSleep, MaySyscall, InUser, Executing
  <2>18. CASE SleepTicks(c)
    BY <2>18 DEF SleepTicks, Executing
  <2>19. CASE SleepReturn(c)
    BY <2>19 DEF SleepReturn, Resumed
  <2>20. CASE SleepRecheck(c)
    BY <2>20 DEF SleepRecheck, Executing, AfterTrap
  <2> QED
    BY <1>2, <2>1, <2>2, <2>3, <2>4, <2>5, <2>6, <2>7, <2>8, <2>9, <2>10, <2>11, <2>12,
       <2>13, <2>14, <2>15, <2>16, <2>17, <2>18, <2>19, <2>20
       DEF ProcessStep, ForkStep, TickStep, SleepStep
<1> QED
  BY <1>1, <1>2 DEF Next

\* Two CPUs never execute on the kernel stack of one process.
THEOREM Exclusion == Spec => [](OneCpuPerProcess /\ NpOwned)
<1>1. Init => OneCpuPerProcess /\ NpOwned
  BY Constants DEF Init, OneCpuPerProcess, NpOwned, ForkPCs
<1>2. TypeOK /\ OneCpuPerProcess /\ NpOwned /\ [Next]_procVars
        => (OneCpuPerProcess /\ NpOwned)'
  BY OneCpuStep, NpOwnedStep
<1> QED
  BY <1>1, <1>2, TypeCorrect, PTL DEF Spec

-----------------------------------------------------------------------------
(* Process identifiers.                                                     *)

\* A step hands out a pid no slot has.
LEMMA PidsStep ==
  ASSUME TypeOK, PidsBelowNext, PidsUnique, [Next]_procVars PROVE (PidsBelowNext /\ PidsUnique)'
<1> USE Constants DEF TypeOK, PidsBelowNext, PidsUnique
<1>1. CASE UNCHANGED procVars
  BY <1>1 DEF procVars
<1>2. ASSUME NEW c \in CPUs,
             \/ SchedAcquire(c) \/ SchedRelease(c) \/ SwitchBack(c)
             \/ \E p \in Slots : Dispatch(c, p)
             \/ ProcessStep(c)
      PROVE  (PidsBelowNext /\ PidsUnique)'
  <2>1. CASE SchedAcquire(c)
    BY <2>1 DEF SchedAcquire
  <2>2. CASE SchedRelease(c)
    BY <2>2 DEF SchedRelease
  <2>3. CASE SwitchBack(c)
    BY <2>3 DEF SwitchBack
  <2>4. ASSUME NEW q \in Slots, Dispatch(c, q) PROVE (PidsBelowNext /\ PidsUnique)'
    BY <2>4 DEF Dispatch
  <2>5. CASE ReturnFromSwitch(c)
    BY <2>5 DEF ReturnFromSwitch, Resumed, AfterTrap
  <2>6. CASE ForkAlloc(c)
    BY <2>6 DEF ForkAlloc, MaySyscall, InUser, Executing, FirstSlot, UnusedSlots
  <2>7. CASE ForkKalloc(c)
    BY <2>7 DEF ForkKalloc, Executing, AfterTrap
  <2>8. CASE ForkCopyuvm(c)
    BY <2>8 DEF ForkCopyuvm, Executing, AfterTrap
  <2>9. CASE ForkPublish(c)
    BY <2>9 DEF ForkPublish, Executing, AfterTrap
  <2>10. CASE ExitCall(c)
    BY <2>10 DEF ExitCall, InUser, Executing
  <2>11. CASE ExitFinish(c)
    BY <2>11 DEF ExitFinish, Executing, ExitWakes, Woken
  <2>12. CASE Wait(c)
    BY <2>12 DEF Wait, Reap, WaitFail, WaitSleep, MaySyscall, InUser, Executing, Resumed,
           AfterTrap, FirstSlot, ZombieChildren, Children
  <2>13. ASSUME NEW k \in KillPids, Kill(c, k) PROVE (PidsBelowNext /\ PidsUnique)'
    BY <2>13 DEF Kill, MaySyscall, InUser, Executing, AfterTrap, FirstSlot
  <2>14. CASE TimerTrap(c)
    BY <2>14 DEF TimerTrap, TickEffect, Executing, Woken
  <2>15. CASE TrapExit(c)
    BY <2>15 DEF TrapExit, InTrap
  <2>16. CASE TrapYield(c)
    BY <2>16 DEF TrapYield, InTrap
  <2>17. ASSUME NEW n \in 1 .. MaxSleep, SysSleep(c, n) PROVE (PidsBelowNext /\ PidsUnique)'
    BY <2>17 DEF SysSleep, MaySyscall, InUser, Executing
  <2>18. CASE SleepTicks(c)
    BY <2>18 DEF SleepTicks, Executing
  <2>19. CASE SleepReturn(c)
    BY <2>19 DEF SleepReturn, Resumed
  <2>20. CASE SleepRecheck(c)
    BY <2>20 DEF SleepRecheck, Executing, AfterTrap
  <2> QED
    BY <1>2, <2>1, <2>2, <2>3, <2>4, <2>5, <2>6, <2>7, <2>8, <2>9, <2>10, <2>11, <2>12,
       <2>13, <2>14, <2>15, <2>16, <2>17, <2>18, <2>19, <2>20
       DEF ProcessStep, ForkStep, TickStep, SleepStep
<1> QED
  BY <1>1, <1>2 DEF Next

\* Two slots never carry the same pid, whatever fork() and wait() have done.
THEOREM PidUniqueness == Spec => []PidsUnique
<1>1. Init => PidsBelowNext /\ PidsUnique
  BY DEF Init, PidsBelowNext, PidsUnique, InitPid
<1>2. TypeOK /\ PidsBelowNext /\ PidsUnique /\ [Next]_procVars => (PidsBelowNext /\ PidsUnique)'
  BY PidsStep
<1> QED
  BY <1>1, <1>2, TypeCorrect, PTL DEF Spec

\* A step leaves a slot in use its pid, and takes none away from under a CPU.
LEMMA LivePidsStep ==
  ASSUME TypeOK, OneCpuPerProcess, NpOwned, LivePids, [Next]_procVars PROVE LivePids'
<1> USE Constants DEF TypeOK, LivePids
<1>1. CASE UNCHANGED procVars
  BY <1>1 DEF procVars
<1>2. ASSUME NEW c \in CPUs,
             \/ SchedAcquire(c) \/ SchedRelease(c) \/ SwitchBack(c)
             \/ \E p \in Slots : Dispatch(c, p)
             \/ ProcessStep(c)
      PROVE  LivePids'
  <2>1. CASE SchedAcquire(c)
    BY <2>1 DEF SchedAcquire
  <2>2. CASE SchedRelease(c)
    BY <2>2 DEF SchedRelease
  <2>3. CASE SwitchBack(c)
    BY <2>3 DEF SwitchBack
  <2>4. ASSUME NEW q \in Slots, Dispatch(c, q) PROVE LivePids'
    BY <2>4 DEF Dispatch
  <2>5. CASE ReturnFromSwitch(c)
    BY <2>5 DEF ReturnFromSwitch, Resumed, AfterTrap
  <2>6. CASE ForkAlloc(c)
    BY <2>6 DEF ForkAlloc, MaySyscall, InUser, Executing, FirstSlot, UnusedSlots
  <2>7. CASE ForkKalloc(c)
    BY <2>7 DEF ForkKalloc, Executing, AfterTrap, NpOwned, ForkPCs
  <2>8. CASE ForkCopyuvm(c)
    BY <2>8 DEF ForkCopyuvm, Executing, AfterTrap, NpOwned, ForkPCs
  <2>9. CASE ForkPublish(c)
    BY <2>9 DEF ForkPublish, Executing, AfterTrap, NpOwned, ForkPCs
  <2>10. CASE ExitCall(c)
    BY <2>10 DEF ExitCall, InUser, Executing
  <2>11. CASE ExitFinish(c)
    BY <2>11 DEF ExitFinish, Executing, ExitWakes, Woken
  <2>12. CASE Wait(c)
    <3>1. CASE Reap(c, curproc[c])
      <4>1. PICK q \in Slots : /\ state[q] = "ZOMBIE"
                               /\ pid' = [pid EXCEPT ![q] = 0]
                               /\ state' = [state EXCEPT ![q] = "UNUSED"]
        BY <3>1 DEF Reap, FirstSlot, ZombieChildren
      <4>2. /\ curproc' = curproc /\ nextpid' = nextpid /\ state[curproc[c]] = "RUNNING"
            /\ ptlock \in {c, NoCpu}
        BY <2>12 DEF Wait, MaySyscall, InUser, Executing, Resumed
      <4>3. \A d \in CPUs : curproc[d] # q
        BY <4>1, <4>2 DEF OneCpuPerProcess
      <4> QED
        BY <4>1, <4>2, <4>3
    <3>2. CASE WaitFail(c, curproc[c])
      BY <2>12, <3>2 DEF Wait, WaitFail
    <3>3. CASE WaitSleep(c, curproc[c])
      BY <2>12, <3>3 DEF Wait, WaitSleep, MaySyscall, InUser, Executing, Resumed
    <3> QED
      BY <2>12, <3>1, <3>2, <3>3 DEF Wait
  <2>13. ASSUME NEW k \in KillPids, Kill(c, k) PROVE LivePids'
    BY <2>13 DEF Kill, MaySyscall, InUser, Executing, AfterTrap, FirstSlot
  <2>14. CASE TimerTrap(c)
    BY <2>14 DEF TimerTrap, TickEffect, Executing, Woken
  <2>15. CASE TrapExit(c)
    BY <2>15 DEF TrapExit, InTrap
  <2>16. CASE TrapYield(c)
    BY <2>16 DEF TrapYield, InTrap
  <2>17. ASSUME NEW n \in 1 .. MaxSleep, SysSleep(c, n) PROVE LivePids'
    BY <2>17 DEF SysSleep, MaySyscall, InUser, Executing
  <2>18. CASE SleepTicks(c)
    BY <2>18 DEF SleepTicks, Executing
  <2>19. CASE SleepReturn(c)
    BY <2>19 DEF SleepReturn, Resumed
  <2>20. CASE SleepRecheck(c)
    BY <2>20 DEF SleepRecheck, Executing, AfterTrap
  <2> QED
    BY <1>2, <2>1, <2>2, <2>3, <2>4, <2>5, <2>6, <2>7, <2>8, <2>9, <2>10, <2>11, <2>12,
       <2>13, <2>14, <2>15, <2>16, <2>17, <2>18, <2>19, <2>20
       DEF ProcessStep, ForkStep, TickStep, SleepStep
<1> QED
  BY <1>1, <1>2 DEF Next

\* The process on a CPU has a pid of its own: no slot reaped or being set up has it.
THEOREM PidsOnCpu == Spec => []LivePids
<1>1. Init => LivePids
  BY Constants DEF Init, LivePids, InitPid
<1>2. TypeOK /\ OneCpuPerProcess /\ NpOwned /\ LivePids /\ [Next]_procVars => LivePids'
  BY LivePidsStep
<1> QED
  BY <1>1, <1>2, TypeCorrect, Exclusion, PTL DEF Spec

-----------------------------------------------------------------------------
(* Parents, children and init.                                              *)

\* A step leaves init alive, unkilled and without a parent.
LEMMA InitLivesStep ==
  ASSUME TypeOK, NpOwned, InitLives, [Next]_procVars PROVE InitLives'
<1> USE Constants DEF TypeOK, NpOwned, ForkPCs, InitLives, Live, InitPid
<1>1. CASE UNCHANGED procVars
  BY <1>1 DEF procVars
<1>2. ASSUME NEW c \in CPUs,
             \/ SchedAcquire(c) \/ SchedRelease(c) \/ SwitchBack(c)
             \/ \E p \in Slots : Dispatch(c, p)
             \/ ProcessStep(c)
      PROVE  InitLives'
  <2>1. CASE SchedAcquire(c)
    BY <2>1 DEF SchedAcquire
  <2>2. CASE SchedRelease(c)
    BY <2>2 DEF SchedRelease
  <2>3. CASE SwitchBack(c)
    BY <2>3 DEF SwitchBack
  <2>4. ASSUME NEW q \in Slots, Dispatch(c, q) PROVE InitLives'
    BY <2>4 DEF Dispatch
  <2>5. CASE ReturnFromSwitch(c)
    BY <2>5 DEF ReturnFromSwitch, Resumed, AfterTrap
  <2>6. CASE ForkAlloc(c)
    BY <2>6 DEF ForkAlloc, MaySyscall, InUser, Executing, FirstSlot, UnusedSlots
  <2>7. CASE ForkKalloc(c)
    BY <2>7 DEF ForkKalloc, Executing, AfterTrap
  <2>8. CASE ForkCopyuvm(c)
    BY <2>8 DEF ForkCopyuvm, Executing, AfterTrap
  <2>9. CASE ForkPublish(c)
    BY <2>9 DEF ForkPublish, Executing, AfterTrap
  <2>10. CASE ExitCall(c)
    BY <2>10 DEF ExitCall, InUser, Executing
  <2>11. CASE ExitFinish(c)
    BY <2>11 DEF ExitFinish, Executing, ExitWakes, Woken
  <2>12. CASE Wait(c)
    BY <2>12 DEF Wait, Reap, WaitFail, WaitSleep, MaySyscall, InUser, Executing, Resumed,
           AfterTrap, FirstSlot, ZombieChildren, Children
  <2>13. ASSUME NEW k \in KillPids, Kill(c, k) PROVE InitLives'
    BY <2>13 DEF Kill, MaySyscall, InUser, Executing, AfterTrap, FirstSlot
  <2>14. CASE TimerTrap(c)
    BY <2>14 DEF TimerTrap, TickEffect, Executing, Woken
  <2>15. CASE TrapExit(c)
    BY <2>15 DEF TrapExit, InTrap
  <2>16. CASE TrapYield(c)
    BY <2>16 DEF TrapYield, InTrap
  <2>17. ASSUME NEW n \in 1 .. MaxSleep, SysSleep(c, n) PROVE InitLives'
    BY <2>17 DEF SysSleep, MaySyscall, InUser, Executing
  <2>18. CASE SleepTicks(c)
    BY <2>18 DEF SleepTicks, Executing
  <2>19. CASE SleepReturn(c)
    BY <2>19 DEF SleepReturn, Resumed
  <2>20. CASE SleepRecheck(c)
    BY <2>20 DEF SleepRecheck, Executing, AfterTrap
  <2> QED
    BY <1>2, <2>1, <2>2, <2>3, <2>4, <2>5, <2>6, <2>7, <2>8, <2>9, <2>10, <2>11, <2>12,
       <2>13, <2>14, <2>15, <2>16, <2>17, <2>18, <2>19, <2>20
       DEF ProcessStep, ForkStep, TickStep, SleepStep
<1> QED
  BY <1>1, <1>2 DEF Next

\* A step links a new child to the process that forks it, never to itself.
LEMMA ParentLinksStep ==
  ASSUME TypeOK, NpOwned, InitLives, ParentLinks, [Next]_procVars PROVE ParentLinks'
<1> USE Constants DEF TypeOK, NpOwned, ForkPCs, InitLives, Live, ParentLinks
<1>1. CASE UNCHANGED procVars
  BY <1>1 DEF procVars
<1>2. ASSUME NEW c \in CPUs,
             \/ SchedAcquire(c) \/ SchedRelease(c) \/ SwitchBack(c)
             \/ \E p \in Slots : Dispatch(c, p)
             \/ ProcessStep(c)
      PROVE  ParentLinks'
  <2>1. CASE SchedAcquire(c)
    BY <2>1 DEF SchedAcquire
  <2>2. CASE SchedRelease(c)
    BY <2>2 DEF SchedRelease
  <2>3. CASE SwitchBack(c)
    BY <2>3 DEF SwitchBack
  <2>4. ASSUME NEW q \in Slots, Dispatch(c, q) PROVE ParentLinks'
    BY <2>4 DEF Dispatch
  <2>5. CASE ReturnFromSwitch(c)
    BY <2>5 DEF ReturnFromSwitch, Resumed, AfterTrap
  <2>6. CASE ForkAlloc(c)
    BY <2>6 DEF ForkAlloc, MaySyscall, InUser, Executing, FirstSlot, UnusedSlots
  <2>7. CASE ForkKalloc(c)
    BY <2>7 DEF ForkKalloc, Executing, AfterTrap
  <2>8. CASE ForkCopyuvm(c)
    BY <2>8 DEF ForkCopyuvm, Executing, AfterTrap
  <2>9. CASE ForkPublish(c)
    BY <2>9 DEF ForkPublish, Executing, AfterTrap
  <2>10. CASE ExitCall(c)
    BY <2>10 DEF ExitCall, InUser, Executing
  <2>11. CASE ExitFinish(c)
    BY <2>11 DEF ExitFinish, Executing, ExitWakes, Woken
  <2>12. CASE Wait(c)
    BY <2>12 DEF Wait, Reap, WaitFail, WaitSleep, MaySyscall, InUser, Executing, Resumed,
           AfterTrap, FirstSlot, ZombieChildren, Children
  <2>13. ASSUME NEW k \in KillPids, Kill(c, k) PROVE ParentLinks'
    BY <2>13 DEF Kill, MaySyscall, InUser, Executing, AfterTrap, FirstSlot
  <2>14. CASE TimerTrap(c)
    BY <2>14 DEF TimerTrap, TickEffect, Executing, Woken
  <2>15. CASE TrapExit(c)
    BY <2>15 DEF TrapExit, InTrap
  <2>16. CASE TrapYield(c)
    BY <2>16 DEF TrapYield, InTrap
  <2>17. ASSUME NEW n \in 1 .. MaxSleep, SysSleep(c, n) PROVE ParentLinks'
    BY <2>17 DEF SysSleep, MaySyscall, InUser, Executing
  <2>18. CASE SleepTicks(c)
    BY <2>18 DEF SleepTicks, Executing
  <2>19. CASE SleepReturn(c)
    BY <2>19 DEF SleepReturn, Resumed
  <2>20. CASE SleepRecheck(c)
    BY <2>20 DEF SleepRecheck, Executing, AfterTrap
  <2> QED
    BY <1>2, <2>1, <2>2, <2>3, <2>4, <2>5, <2>6, <2>7, <2>8, <2>9, <2>10, <2>11, <2>12,
       <2>13, <2>14, <2>15, <2>16, <2>17, <2>18, <2>19, <2>20
       DEF ProcessStep, ForkStep, TickStep, SleepStep
<1> QED
  BY <1>1, <1>2 DEF Next

\* A step leaves nobody without a living parent.
LEMMA LiveParentStep ==
  ASSUME TypeOK, NpOwned, InitLives, InitLives', ParentLinks, LiveParent, [Next]_procVars PROVE LiveParent'
<1> USE Constants DEF TypeOK, NpOwned, ForkPCs, InitLives, Live, ParentLinks, LiveParent
<1>1. CASE UNCHANGED procVars
  BY <1>1 DEF procVars
<1>2. ASSUME NEW c \in CPUs,
             \/ SchedAcquire(c) \/ SchedRelease(c) \/ SwitchBack(c)
             \/ \E p \in Slots : Dispatch(c, p)
             \/ ProcessStep(c)
      PROVE  LiveParent'
  <2>1. CASE SchedAcquire(c)
    BY <2>1 DEF SchedAcquire
  <2>2. CASE SchedRelease(c)
    BY <2>2 DEF SchedRelease
  <2>3. CASE SwitchBack(c)
    BY <2>3 DEF SwitchBack
  <2>4. ASSUME NEW q \in Slots, Dispatch(c, q) PROVE LiveParent'
    BY <2>4 DEF Dispatch
  <2>5. CASE ReturnFromSwitch(c)
    BY <2>5 DEF ReturnFromSwitch, Resumed, AfterTrap
  <2>6. CASE ForkAlloc(c)
    BY <2>6 DEF ForkAlloc, MaySyscall, InUser, Executing, FirstSlot, UnusedSlots
  <2>7. CASE ForkKalloc(c)
    BY <2>7 DEF ForkKalloc, Executing, AfterTrap
  <2>8. CASE ForkCopyuvm(c)
    BY <2>8 DEF ForkCopyuvm, Executing, AfterTrap
  <2>9. CASE ForkPublish(c)
    BY <2>9 DEF ForkPublish, Executing, AfterTrap
  <2>10. CASE ExitCall(c)
    BY <2>10 DEF ExitCall, InUser, Executing
  <2>11. CASE ExitFinish(c)
    BY <2>11 DEF ExitFinish, Executing, ExitWakes, Woken
  <2>12. CASE Wait(c)
    BY <2>12 DEF Wait, Reap, WaitFail, WaitSleep, MaySyscall, InUser, Executing, Resumed,
           AfterTrap, FirstSlot, ZombieChildren, Children
  <2>13. ASSUME NEW k \in KillPids, Kill(c, k) PROVE LiveParent'
    BY <2>13 DEF Kill, MaySyscall, InUser, Executing, AfterTrap, FirstSlot
  <2>14. CASE TimerTrap(c)
    BY <2>14 DEF TimerTrap, TickEffect, Executing, Woken
  <2>15. CASE TrapExit(c)
    BY <2>15 DEF TrapExit, InTrap
  <2>16. CASE TrapYield(c)
    BY <2>16 DEF TrapYield, InTrap
  <2>17. ASSUME NEW n \in 1 .. MaxSleep, SysSleep(c, n) PROVE LiveParent'
    BY <2>17 DEF SysSleep, MaySyscall, InUser, Executing
  <2>18. CASE SleepTicks(c)
    BY <2>18 DEF SleepTicks, Executing
  <2>19. CASE SleepReturn(c)
    BY <2>19 DEF SleepReturn, Resumed
  <2>20. CASE SleepRecheck(c)
    BY <2>20 DEF SleepRecheck, Executing, AfterTrap
  <2> QED
    BY <1>2, <2>1, <2>2, <2>3, <2>4, <2>5, <2>6, <2>7, <2>8, <2>9, <2>10, <2>11, <2>12,
       <2>13, <2>14, <2>15, <2>16, <2>17, <2>18, <2>19, <2>20
       DEF ProcessStep, ForkStep, TickStep, SleepStep
<1> QED
  BY <1>1, <1>2 DEF Next

\* A step that creates a zombie, or gives one to init, wakes the parent.
LEMMA NoLostChildExitStep ==
  ASSUME TypeOK, NpOwned, InitLives, ParentLinks, NoLostChildExit, [Next]_procVars PROVE NoLostChildExit'
<1> USE Constants DEF TypeOK, NpOwned, ForkPCs, InitLives, Live, ParentLinks, NoLostChildExit,
       ZombieChildren,
          Children
<1>1. CASE UNCHANGED procVars
  BY <1>1 DEF procVars
<1>2. ASSUME NEW c \in CPUs,
             \/ SchedAcquire(c) \/ SchedRelease(c) \/ SwitchBack(c)
             \/ \E p \in Slots : Dispatch(c, p)
             \/ ProcessStep(c)
      PROVE  NoLostChildExit'
  <2>1. CASE SchedAcquire(c)
    BY <2>1 DEF SchedAcquire
  <2>2. CASE SchedRelease(c)
    BY <2>2 DEF SchedRelease
  <2>3. CASE SwitchBack(c)
    BY <2>3 DEF SwitchBack
  <2>4. ASSUME NEW q \in Slots, Dispatch(c, q) PROVE NoLostChildExit'
    BY <2>4 DEF Dispatch
  <2>5. CASE ReturnFromSwitch(c)
    BY <2>5 DEF ReturnFromSwitch, Resumed, AfterTrap
  <2>6. CASE ForkAlloc(c)
    BY <2>6 DEF ForkAlloc, MaySyscall, InUser, Executing, FirstSlot, UnusedSlots
  <2>7. CASE ForkKalloc(c)
    BY <2>7 DEF ForkKalloc, Executing, AfterTrap
  <2>8. CASE ForkCopyuvm(c)
    BY <2>8 DEF ForkCopyuvm, Executing, AfterTrap
  <2>9. CASE ForkPublish(c)
    BY <2>9 DEF ForkPublish, Executing, AfterTrap
  <2>10. CASE ExitCall(c)
    BY <2>10 DEF ExitCall, InUser, Executing
  <2>11. CASE ExitFinish(c)
    BY <2>11 DEF ExitFinish, Executing, ExitWakes, Woken
  <2>12. CASE Wait(c)
    BY <2>12 DEF Wait, Reap, WaitFail, WaitSleep, MaySyscall, InUser, Executing, Resumed,
           AfterTrap, FirstSlot, ZombieChildren, Children
  <2>13. ASSUME NEW k \in KillPids, Kill(c, k) PROVE NoLostChildExit'
    BY <2>13 DEF Kill, MaySyscall, InUser, Executing, AfterTrap, FirstSlot
  <2>14. CASE TimerTrap(c)
    BY <2>14 DEF TimerTrap, TickEffect, Executing, Woken
  <2>15. CASE TrapExit(c)
    BY <2>15 DEF TrapExit, InTrap
  <2>16. CASE TrapYield(c)
    BY <2>16 DEF TrapYield, InTrap
  <2>17. ASSUME NEW n \in 1 .. MaxSleep, SysSleep(c, n) PROVE NoLostChildExit'
    BY <2>17 DEF SysSleep, MaySyscall, InUser, Executing
  <2>18. CASE SleepTicks(c)
    BY <2>18 DEF SleepTicks, Executing
  <2>19. CASE SleepReturn(c)
    BY <2>19 DEF SleepReturn, Resumed
  <2>20. CASE SleepRecheck(c)
    BY <2>20 DEF SleepRecheck, Executing, AfterTrap
  <2> QED
    BY <1>2, <2>1, <2>2, <2>3, <2>4, <2>5, <2>6, <2>7, <2>8, <2>9, <2>10, <2>11, <2>12,
       <2>13, <2>14, <2>15, <2>16, <2>17, <2>18, <2>19, <2>20
       DEF ProcessStep, ForkStep, TickStep, SleepStep
<1> QED
  BY <1>1, <1>2 DEF Next

\* Init is never killed and never exits.
THEOREM InitImmortal == Spec => [](NpOwned /\ InitLives)
<1>1. Init => InitLives
  BY DEF Init, InitLives, Live, InitPid, Initproc, Slots
<1>2. TypeOK /\ NpOwned /\ InitLives /\ [Next]_procVars => InitLives'
  BY InitLivesStep
<1> QED
  BY <1>1, <1>2, TypeCorrect, Exclusion, PTL DEF Spec

\* Every process but init always has a living parent, and no parent sleeps in
\* wait() while it has a zombie child: exit() loses no child and no wakeup.
THEOREM FamilySafety == Spec => [](LiveParent /\ NoLostChildExit)
<1>1. Init => ParentLinks /\ LiveParent /\ NoLostChildExit
  BY Constants DEF Init, ParentLinks, LiveParent, NoLostChildExit, ZombieChildren, Children
<1>2. TypeOK /\ NpOwned /\ InitLives /\ InitLives' /\ ParentLinks /\ LiveParent
        /\ NoLostChildExit /\ [Next]_procVars
        => (ParentLinks /\ LiveParent /\ NoLostChildExit)'
  BY ParentLinksStep, LiveParentStep, NoLostChildExitStep
<1> QED
  BY <1>1, <1>2, TypeCorrect, InitImmortal, PTL DEF Spec

-----------------------------------------------------------------------------
(* kill() and the clock.                                                    *)

\* A step that kills a process takes it out of wait(), and none puts it back in.
LEMMA KilledNotInWaitStep ==
  ASSUME TypeOK, KilledNotInWait, [Next]_procVars PROVE KilledNotInWait'
<1> USE Constants DEF TypeOK, KilledNotInWait
<1>1. CASE UNCHANGED procVars
  BY <1>1 DEF procVars
<1>2. ASSUME NEW c \in CPUs,
             \/ SchedAcquire(c) \/ SchedRelease(c) \/ SwitchBack(c)
             \/ \E p \in Slots : Dispatch(c, p)
             \/ ProcessStep(c)
      PROVE  KilledNotInWait'
  <2>1. CASE SchedAcquire(c)
    BY <2>1 DEF SchedAcquire
  <2>2. CASE SchedRelease(c)
    BY <2>2 DEF SchedRelease
  <2>3. CASE SwitchBack(c)
    BY <2>3 DEF SwitchBack
  <2>4. ASSUME NEW q \in Slots, Dispatch(c, q) PROVE KilledNotInWait'
    BY <2>4 DEF Dispatch
  <2>5. CASE ReturnFromSwitch(c)
    BY <2>5 DEF ReturnFromSwitch, Resumed, AfterTrap
  <2>6. CASE ForkAlloc(c)
    BY <2>6 DEF ForkAlloc, MaySyscall, InUser, Executing, FirstSlot, UnusedSlots
  <2>7. CASE ForkKalloc(c)
    BY <2>7 DEF ForkKalloc, Executing, AfterTrap
  <2>8. CASE ForkCopyuvm(c)
    BY <2>8 DEF ForkCopyuvm, Executing, AfterTrap
  <2>9. CASE ForkPublish(c)
    BY <2>9 DEF ForkPublish, Executing, AfterTrap
  <2>10. CASE ExitCall(c)
    BY <2>10 DEF ExitCall, InUser, Executing
  <2>11. CASE ExitFinish(c)
    BY <2>11 DEF ExitFinish, Executing, ExitWakes, Woken
  <2>12. CASE Wait(c)
    BY <2>12 DEF Wait, Reap, WaitFail, WaitSleep, MaySyscall, InUser, Executing, Resumed,
           AfterTrap, FirstSlot, ZombieChildren, Children
  <2>13. ASSUME NEW k \in KillPids, Kill(c, k) PROVE KilledNotInWait'
    BY <2>13 DEF Kill, MaySyscall, InUser, Executing, AfterTrap, FirstSlot
  <2>14. CASE TimerTrap(c)
    BY <2>14 DEF TimerTrap, TickEffect, Executing, Woken
  <2>15. CASE TrapExit(c)
    BY <2>15 DEF TrapExit, InTrap
  <2>16. CASE TrapYield(c)
    BY <2>16 DEF TrapYield, InTrap
  <2>17. ASSUME NEW n \in 1 .. MaxSleep, SysSleep(c, n) PROVE KilledNotInWait'
    BY <2>17 DEF SysSleep, MaySyscall, InUser, Executing
  <2>18. CASE SleepTicks(c)
    BY <2>18 DEF SleepTicks, Executing
  <2>19. CASE SleepReturn(c)
    BY <2>19 DEF SleepReturn, Resumed
  <2>20. CASE SleepRecheck(c)
    BY <2>20 DEF SleepRecheck, Executing, AfterTrap
  <2> QED
    BY <1>2, <2>1, <2>2, <2>3, <2>4, <2>5, <2>6, <2>7, <2>8, <2>9, <2>10, <2>11, <2>12,
       <2>13, <2>14, <2>15, <2>16, <2>17, <2>18, <2>19, <2>20
       DEF ProcessStep, ForkStep, TickStep, SleepStep
<1> QED
  BY <1>1, <1>2 DEF Next

\* A killed process is never blocked in wait().
THEOREM KillReachesWait == Spec => []KilledNotInWait
<1>1. Init => KilledNotInWait
  BY DEF Init, KilledNotInWait
<1>2. TypeOK /\ KilledNotInWait /\ [Next]_procVars => KilledNotInWait'
  BY KilledNotInWaitStep
<1> QED
  BY <1>1, <1>2, TypeCorrect, PTL DEF Spec

\* A step keeps tickslock with the process that is about to sleep under it.
LEMMA TickslockOwnedStep ==
  ASSUME TypeOK, OneCpuPerProcess, NpOwned, TickslockOwned, [Next]_procVars PROVE TickslockOwned'
<1> USE Constants DEF TypeOK, OneCpuPerProcess, NpOwned, ForkPCs, TickslockOwned
<1>1. CASE UNCHANGED procVars
  BY <1>1 DEF procVars
<1>2. ASSUME NEW c \in CPUs,
             \/ SchedAcquire(c) \/ SchedRelease(c) \/ SwitchBack(c)
             \/ \E p \in Slots : Dispatch(c, p)
             \/ ProcessStep(c)
      PROVE  TickslockOwned'
  <2>1. CASE SchedAcquire(c)
    BY <2>1 DEF SchedAcquire
  <2>2. CASE SchedRelease(c)
    BY <2>2 DEF SchedRelease
  <2>3. CASE SwitchBack(c)
    BY <2>3 DEF SwitchBack
  <2>4. ASSUME NEW q \in Slots, Dispatch(c, q) PROVE TickslockOwned'
    BY <2>4 DEF Dispatch
  <2>5. CASE ReturnFromSwitch(c)
    BY <2>5 DEF ReturnFromSwitch, Resumed, AfterTrap
  <2>6. CASE ForkAlloc(c)
    BY <2>6 DEF ForkAlloc, MaySyscall, InUser, Executing, FirstSlot, UnusedSlots
  <2>7. CASE ForkKalloc(c)
    BY <2>7 DEF ForkKalloc, Executing, AfterTrap
  <2>8. CASE ForkCopyuvm(c)
    BY <2>8 DEF ForkCopyuvm, Executing, AfterTrap
  <2>9. CASE ForkPublish(c)
    BY <2>9 DEF ForkPublish, Executing, AfterTrap
  <2>10. CASE ExitCall(c)
    BY <2>10 DEF ExitCall, InUser, Executing
  <2>11. CASE ExitFinish(c)
    BY <2>11 DEF ExitFinish, Executing, ExitWakes, Woken
  <2>12. CASE Wait(c)
    BY <2>12 DEF Wait, Reap, WaitFail, WaitSleep, MaySyscall, InUser, Executing, Resumed,
           AfterTrap, FirstSlot, ZombieChildren, Children
  <2>13. ASSUME NEW k \in KillPids, Kill(c, k) PROVE TickslockOwned'
    BY <2>13 DEF Kill, MaySyscall, InUser, Executing, AfterTrap, FirstSlot
  <2>14. CASE TimerTrap(c)
    BY <2>14 DEF TimerTrap, TickEffect, Executing, Woken
  <2>15. CASE TrapExit(c)
    BY <2>15 DEF TrapExit, InTrap
  <2>16. CASE TrapYield(c)
    BY <2>16 DEF TrapYield, InTrap
  <2>17. ASSUME NEW n \in 1 .. MaxSleep, SysSleep(c, n) PROVE TickslockOwned'
    BY <2>17 DEF SysSleep, MaySyscall, InUser, Executing
  <2>18. CASE SleepTicks(c)
    BY <2>18 DEF SleepTicks, Executing
  <2>19. CASE SleepReturn(c)
    BY <2>19 DEF SleepReturn, Resumed
  <2>20. CASE SleepRecheck(c)
    BY <2>20 DEF SleepRecheck, Executing, AfterTrap
  <2> QED
    BY <1>2, <2>1, <2>2, <2>3, <2>4, <2>5, <2>6, <2>7, <2>8, <2>9, <2>10, <2>11, <2>12,
       <2>13, <2>14, <2>15, <2>16, <2>17, <2>18, <2>19, <2>20
       DEF ProcessStep, ForkStep, TickStep, SleepStep
<1> QED
  BY <1>1, <1>2 DEF Next

\* A step puts nobody to sleep for a tick that has passed.
LEMMA NoMissedTickStep ==
  ASSUME TypeOK, NpOwned, TickslockOwned, NoMissedTick, [Next]_procVars PROVE NoMissedTick'
<1> USE Constants DEF TypeOK, NpOwned, ForkPCs, TickslockOwned, NoMissedTick
<1>1. CASE UNCHANGED procVars
  BY <1>1 DEF procVars
<1>2. ASSUME NEW c \in CPUs,
             \/ SchedAcquire(c) \/ SchedRelease(c) \/ SwitchBack(c)
             \/ \E p \in Slots : Dispatch(c, p)
             \/ ProcessStep(c)
      PROVE  NoMissedTick'
  <2>1. CASE SchedAcquire(c)
    BY <2>1 DEF SchedAcquire
  <2>2. CASE SchedRelease(c)
    BY <2>2 DEF SchedRelease
  <2>3. CASE SwitchBack(c)
    BY <2>3 DEF SwitchBack
  <2>4. ASSUME NEW q \in Slots, Dispatch(c, q) PROVE NoMissedTick'
    BY <2>4 DEF Dispatch
  <2>5. CASE ReturnFromSwitch(c)
    BY <2>5 DEF ReturnFromSwitch, Resumed, AfterTrap
  <2>6. CASE ForkAlloc(c)
    BY <2>6 DEF ForkAlloc, MaySyscall, InUser, Executing, FirstSlot, UnusedSlots
  <2>7. CASE ForkKalloc(c)
    BY <2>7 DEF ForkKalloc, Executing, AfterTrap
  <2>8. CASE ForkCopyuvm(c)
    BY <2>8 DEF ForkCopyuvm, Executing, AfterTrap
  <2>9. CASE ForkPublish(c)
    BY <2>9 DEF ForkPublish, Executing, AfterTrap
  <2>10. CASE ExitCall(c)
    BY <2>10 DEF ExitCall, InUser, Executing
  <2>11. CASE ExitFinish(c)
    BY <2>11 DEF ExitFinish, Executing, ExitWakes, Woken
  <2>12. CASE Wait(c)
    BY <2>12 DEF Wait, Reap, WaitFail, WaitSleep, MaySyscall, InUser, Executing, Resumed,
           AfterTrap, FirstSlot, ZombieChildren, Children
  <2>13. ASSUME NEW k \in KillPids, Kill(c, k) PROVE NoMissedTick'
    BY <2>13 DEF Kill, MaySyscall, InUser, Executing, AfterTrap, FirstSlot
  <2>14. CASE TimerTrap(c)
    BY <2>14 DEF TimerTrap, TickEffect, Executing, Woken
  <2>15. CASE TrapExit(c)
    BY <2>15 DEF TrapExit, InTrap
  <2>16. CASE TrapYield(c)
    BY <2>16 DEF TrapYield, InTrap
  <2>17. ASSUME NEW n \in 1 .. MaxSleep, SysSleep(c, n) PROVE NoMissedTick'
    BY <2>17 DEF SysSleep, MaySyscall, InUser, Executing
  <2>18. CASE SleepTicks(c)
    BY <2>18 DEF SleepTicks, Executing
  <2>19. CASE SleepReturn(c)
    BY <2>19 DEF SleepReturn, Resumed
  <2>20. CASE SleepRecheck(c)
    BY <2>20 DEF SleepRecheck, Executing, AfterTrap
  <2> QED
    BY <1>2, <2>1, <2>2, <2>3, <2>4, <2>5, <2>6, <2>7, <2>8, <2>9, <2>10, <2>11, <2>12,
       <2>13, <2>14, <2>15, <2>16, <2>17, <2>18, <2>19, <2>20
       DEF ProcessStep, ForkStep, TickStep, SleepStep
<1> QED
  BY <1>1, <1>2 DEF Next

\* A process asleep in sys_sleep() always has a tick to wait for.
THEOREM TickSafety == Spec => []NoMissedTick
<1>1. Init => TickslockOwned /\ NoMissedTick
  BY Constants DEF Init, TickslockOwned, NoMissedTick
<1>2. TypeOK /\ OneCpuPerProcess /\ NpOwned /\ TickslockOwned /\ NoMissedTick
        /\ [Next]_procVars => (TickslockOwned /\ NoMissedTick)'
  BY TickslockOwnedStep, NoMissedTickStep
<1> QED
  BY <1>1, <1>2, TypeCorrect, Exclusion, PTL DEF Spec

\* Whoever sleeps in wait() or sys_sleep() has something to wait for, for any
\* number of CPUs and processes: the locks of sleep(), exit(), kill() and the
\* timer leave no gap in which a wakeup could be lost.
THEOREM SleepSafety == Spec => []SleepersBlocked
<1>1. NoLostChildExit /\ KilledNotInWait /\ NoMissedTick => SleepersBlocked
  BY DEF SleepersBlocked
<1> QED
  BY <1>1, FamilySafety, KillReachesWait, TickSafety, PTL

-----------------------------------------------------------------------------
(* Pages: fork() and wait() account for every one.                          *)

Owners(f) == {p \in Slots : f[p]}

\* What a slot owns follows from its state, and for an EMBRYO from the place its
\* parent has reached in fork().
PagesOwned ==
  /\ \A p \in Slots : state[p] = "UNUSED" => ~kstack[p] /\ ~pgdir[p]
  /\ \A p \in Slots : state[p] \in Live \cup {"ZOMBIE"} => kstack[p] /\ pgdir[p]
  /\ \A p \in Slots : pc[p] = "fork_kalloc" => ~kstack[np[p]] /\ ~pgdir[np[p]]
  /\ \A p \in Slots : pc[p] = "fork_copyuvm" => kstack[np[p]] /\ ~pgdir[np[p]]
  /\ \A p \in Slots : pc[p] = "fork_publish" => kstack[np[p]] /\ pgdir[np[p]]

\* A step moves pages and states together.
LEMMA PagesOwnedStep ==
  ASSUME TypeOK, NpOwned, PagesOwned, [Next]_procVars PROVE PagesOwned'
<1> USE Constants DEF TypeOK, NpOwned, ForkPCs, PagesOwned, Live
<1>1. CASE UNCHANGED procVars
  BY <1>1 DEF procVars
<1>2. ASSUME NEW c \in CPUs,
             \/ SchedAcquire(c) \/ SchedRelease(c) \/ SwitchBack(c)
             \/ \E p \in Slots : Dispatch(c, p)
             \/ ProcessStep(c)
      PROVE  PagesOwned'
  <2>1. CASE SchedAcquire(c)
    BY <2>1 DEF SchedAcquire
  <2>2. CASE SchedRelease(c)
    BY <2>2 DEF SchedRelease
  <2>3. CASE SwitchBack(c)
    BY <2>3 DEF SwitchBack
  <2>4. ASSUME NEW q \in Slots, Dispatch(c, q) PROVE PagesOwned'
    BY <2>4 DEF Dispatch
  <2>5. CASE ReturnFromSwitch(c)
    BY <2>5 DEF ReturnFromSwitch, Resumed, AfterTrap
  <2>6. CASE ForkAlloc(c)
    BY <2>6 DEF ForkAlloc, MaySyscall, InUser, Executing, FirstSlot, UnusedSlots
  <2>7. CASE ForkKalloc(c)
    <3> DEFINE p == curproc[c]  q == np[p]
    <3>1. /\ p \in Slots /\ q \in Slots /\ q = np[p] /\ state[q] = "EMBRYO"
          /\ pc[p] = "fork_kalloc"
          /\ \A r \in Slots : pc[r] \in ForkPCs /\ r # p => np[r] # q
      BY <2>7 DEF ForkKalloc, Executing
    <3>2. CASE freepages > 0
      <4>1. /\ state' = state /\ np' = np /\ pgdir' = pgdir
            /\ kstack' = [kstack EXCEPT ![q] = TRUE]
            /\ pc' = [pc EXCEPT ![p] = "fork_copyuvm", ![q] = "user"]
        BY <2>7, <3>2 DEF ForkKalloc
      <4> HIDE DEF p, q
      <4> QED
        BY <3>1, <4>1
    <3>3. CASE freepages = 0
      <4>1. /\ state' = [state EXCEPT ![q] = "UNUSED"] /\ np' = [np EXCEPT ![p] = NoProc]
            /\ kstack' = kstack /\ pgdir' = pgdir
            /\ pc' = [pc EXCEPT ![p] = AfterTrap(killed[p])]
        BY <2>7, <3>3 DEF ForkKalloc
      <4>2. AfterTrap(killed[p]) \notin ForkPCs
        BY DEF AfterTrap
      <4> HIDE DEF p, q
      <4> QED
        BY <3>1, <4>1, <4>2
    <3> QED
      BY <2>7, <3>2, <3>3 DEF ForkKalloc
  <2>8. CASE ForkCopyuvm(c)
    <3> DEFINE p == curproc[c]  q == np[p]
    <3>1. /\ p \in Slots /\ q \in Slots /\ q = np[p] /\ state[q] = "EMBRYO"
          /\ pc[p] = "fork_copyuvm"
          /\ \A r \in Slots : pc[r] \in ForkPCs /\ r # p => np[r] # q
      BY <2>8 DEF ForkCopyuvm, Executing
    <3>2. CASE freepages > 0
      <4>1. /\ state' = state /\ np' = np /\ kstack' = kstack
            /\ pgdir' = [pgdir EXCEPT ![q] = TRUE]
            /\ pc' = [pc EXCEPT ![p] = "fork_publish"]
        BY <2>8, <3>2 DEF ForkCopyuvm
      <4> HIDE DEF p, q
      <4> QED
        BY <3>1, <4>1
    <3>3. CASE freepages = 0
      <4>1. /\ state' = [state EXCEPT ![q] = "UNUSED"] /\ np' = [np EXCEPT ![p] = NoProc]
            /\ kstack' = [kstack EXCEPT ![q] = FALSE] /\ pgdir' = pgdir
            /\ pc' = [pc EXCEPT ![p] = AfterTrap(killed[p])]
        BY <2>8, <3>3 DEF ForkCopyuvm
      <4>2. AfterTrap(killed[p]) \notin ForkPCs
        BY DEF AfterTrap
      <4> HIDE DEF p, q
      <4> QED
        BY <3>1, <4>1, <4>2
    <3> QED
      BY <2>8, <3>2, <3>3 DEF ForkCopyuvm
  <2>9. CASE ForkPublish(c)
    BY <2>9 DEF ForkPublish, Executing, AfterTrap
  <2>10. CASE ExitCall(c)
    BY <2>10 DEF ExitCall, InUser, Executing
  <2>11. CASE ExitFinish(c)
    BY <2>11 DEF ExitFinish, Executing, ExitWakes, Woken
  <2>12. CASE Wait(c)
    <3>1. CASE Reap(c, curproc[c])
      <4>1. PICK q \in Slots :
              /\ state[q] = "ZOMBIE"
              /\ kstack' = [kstack EXCEPT ![q] = FALSE]
              /\ pgdir' = [pgdir EXCEPT ![q] = FALSE]
              /\ state' = [state EXCEPT ![q] = "UNUSED"]
        BY <3>1 DEF Reap, FirstSlot, ZombieChildren
      <4>2. np' = np /\ \A p \in Slots : pc'[p] \in ForkPCs => pc'[p] = pc[p]
        BY <2>12, <3>1 DEF Wait, Reap, AfterTrap
      <4> QED
        BY <4>1, <4>2
    <3>2. CASE WaitFail(c, curproc[c])
      BY <2>12, <3>2 DEF Wait, WaitFail, AfterTrap
    <3>3. CASE WaitSleep(c, curproc[c])
      BY <2>12, <3>3 DEF Wait, WaitSleep, MaySyscall, InUser, Executing, Resumed
    <3> QED
      BY <2>12, <3>1, <3>2, <3>3 DEF Wait
  <2>13. ASSUME NEW k \in KillPids, Kill(c, k) PROVE PagesOwned'
    BY <2>13 DEF Kill, MaySyscall, InUser, Executing, AfterTrap, FirstSlot
  <2>14. CASE TimerTrap(c)
    BY <2>14 DEF TimerTrap, TickEffect, Executing, Woken
  <2>15. CASE TrapExit(c)
    BY <2>15 DEF TrapExit, InTrap
  <2>16. CASE TrapYield(c)
    BY <2>16 DEF TrapYield, InTrap
  <2>17. ASSUME NEW n \in 1 .. MaxSleep, SysSleep(c, n) PROVE PagesOwned'
    BY <2>17 DEF SysSleep, MaySyscall, InUser, Executing
  <2>18. CASE SleepTicks(c)
    BY <2>18 DEF SleepTicks, Executing
  <2>19. CASE SleepReturn(c)
    BY <2>19 DEF SleepReturn, Resumed
  <2>20. CASE SleepRecheck(c)
    BY <2>20 DEF SleepRecheck, Executing, AfterTrap
  <2> QED
    BY <1>2, <2>1, <2>2, <2>3, <2>4, <2>5, <2>6, <2>7, <2>8, <2>9, <2>10, <2>11, <2>12,
       <2>13, <2>14, <2>15, <2>16, <2>17, <2>18, <2>19, <2>20
       DEF ProcessStep, ForkStep, TickStep, SleepStep
<1> QED
  BY <1>1, <1>2 DEF Next

\* Giving slot q a page adds one owner, taking it away removes one.
LEMMA OwnersChange ==
  ASSUME NEW f \in [Slots -> BOOLEAN], NEW q \in Slots
  PROVE  /\ Cardinality(Owners(f)) \in Nat
         /\ ~f[q] => Cardinality(Owners([f EXCEPT ![q] = TRUE])) = Cardinality(Owners(f)) + 1
         /\ f[q] => Cardinality(Owners([f EXCEPT ![q] = FALSE])) = Cardinality(Owners(f)) - 1
<1>1. IsFiniteSet(Owners(f))
  <2>1. IsFiniteSet(Slots)
    BY FS_Interval DEF Slots
  <2> QED
    BY <2>1, FS_Subset DEF Owners
<1>2. Owners([f EXCEPT ![q] = TRUE]) = Owners(f) \cup {q}
  BY DEF Owners
<1>3. Owners([f EXCEPT ![q] = FALSE]) = Owners(f) \ {q}
  BY DEF Owners
<1>4. q \in Owners(f) <=> f[q]
  BY DEF Owners
<1>5. Cardinality(Owners(f)) \in Nat
  BY <1>1, FS_CardinalityType
<1>6. Cardinality(Owners(f) \cup {q}) =
        IF q \in Owners(f) THEN Cardinality(Owners(f)) ELSE Cardinality(Owners(f)) + 1
  BY <1>1, FS_AddElement, ZenonT(60)
<1>7. Cardinality(Owners(f) \ {q}) =
        IF q \in Owners(f) THEN Cardinality(Owners(f)) - 1 ELSE Cardinality(Owners(f))
  BY <1>1, FS_RemoveElement, ZenonT(60)
<1> QED
  BY <1>2, <1>3, <1>4, <1>5, <1>6, <1>7, ZenonT(60)

\* A step takes from the free list what it gives to a slot, and back.
LEMMA PagesConservedStep ==
  ASSUME TypeOK, NpOwned, PagesOwned, PagesConserved, [Next]_procVars PROVE PagesConserved'
<1> USE Constants
<1>a. PagesConserved <=>
        freepages + Cardinality(Owners(kstack)) + Cardinality(Owners(pgdir)) = NPAGES + 2
  BY DEF PagesConserved, Owners
<1>b. PagesConserved' <=>
        freepages' + Cardinality(Owners(kstack')) + Cardinality(Owners(pgdir')) = NPAGES + 2
  BY DEF PagesConserved, Owners
<1>c. kstack \in [Slots -> BOOLEAN] /\ pgdir \in [Slots -> BOOLEAN] /\ freepages \in Nat
  BY DEF TypeOK
<1>d. /\ Cardinality(Owners(kstack)) \in Nat
      /\ Cardinality(Owners(pgdir)) \in Nat
  BY <1>c, OwnersChange
<1>1. CASE UNCHANGED <<kstack, pgdir, freepages>>
  BY <1>1, <1>a, <1>b
<1>2. ASSUME NEW c \in CPUs, ForkKalloc(c) PROVE PagesConserved'
  <2> DEFINE q == np[curproc[c]]
  <2>1. curproc[c] \in Slots /\ pc[curproc[c]] = "fork_kalloc"
    BY <1>2 DEF ForkKalloc, Executing, TypeOK
  <2>2. q \in Slots /\ ~kstack[q]
    BY <2>1 DEF NpOwned, ForkPCs, PagesOwned
  <2>3. CASE freepages > 0
    <3>1. freepages' = freepages - 1 /\ kstack' = [kstack EXCEPT ![q] = TRUE] /\ pgdir' = pgdir
      BY <1>2, <2>3 DEF ForkKalloc
    <3>2. Cardinality(Owners(kstack')) = Cardinality(Owners(kstack)) + 1
      BY <1>c, <2>2, <3>1, OwnersChange
    <3> QED
      BY <1>a, <1>b, <1>c, <1>d, <3>1, <3>2
  <2>4. CASE freepages = 0
    BY <1>1, <1>2, <2>4 DEF ForkKalloc
  <2> QED
    BY <1>c, <2>3, <2>4
<1>3. ASSUME NEW c \in CPUs, ForkCopyuvm(c) PROVE PagesConserved'
  <2> DEFINE q == np[curproc[c]]
  <2>1. curproc[c] \in Slots /\ pc[curproc[c]] = "fork_copyuvm"
    BY <1>3 DEF ForkCopyuvm, Executing, TypeOK
  <2>2. q \in Slots /\ kstack[q] /\ ~pgdir[q]
    BY <2>1 DEF NpOwned, ForkPCs, PagesOwned
  <2>3. CASE freepages > 0
    <3>1. freepages' = freepages - 1 /\ pgdir' = [pgdir EXCEPT ![q] = TRUE] /\ kstack' = kstack
      BY <1>3, <2>3 DEF ForkCopyuvm
    <3>2. Cardinality(Owners(pgdir')) = Cardinality(Owners(pgdir)) + 1
      BY <1>c, <2>2, <3>1, OwnersChange
    <3> QED
      BY <1>a, <1>b, <1>c, <1>d, <3>1, <3>2
  <2>4. CASE freepages = 0
    <3>1. freepages' = freepages + 1 /\ kstack' = [kstack EXCEPT ![q] = FALSE] /\ pgdir' = pgdir
      BY <1>3, <2>4 DEF ForkCopyuvm
    <3>2. Cardinality(Owners(kstack')) = Cardinality(Owners(kstack)) - 1
      BY <1>c, <2>2, <3>1, OwnersChange
    <3> QED
      BY <1>a, <1>b, <1>c, <1>d, <3>1, <3>2
  <2> QED
    BY <1>c, <2>3, <2>4
<1>4. ASSUME NEW c \in CPUs, Wait(c), Reap(c, curproc[c]) PROVE PagesConserved'
  <2>1. PICK q \in Slots :
          /\ state[q] = "ZOMBIE"
          /\ freepages' = freepages + 2
          /\ kstack' = [kstack EXCEPT ![q] = FALSE]
          /\ pgdir' = [pgdir EXCEPT ![q] = FALSE]
    BY <1>4 DEF Reap, FirstSlot, ZombieChildren
  <2>2. kstack[q] /\ pgdir[q]
    BY <2>1 DEF PagesOwned
  <2>3. /\ Cardinality(Owners(kstack')) = Cardinality(Owners(kstack)) - 1
        /\ Cardinality(Owners(pgdir')) = Cardinality(Owners(pgdir)) - 1
    BY <1>c, <2>1, <2>2, OwnersChange
  <2> QED
    BY <1>a, <1>b, <1>c, <1>d, <2>1, <2>3
<1>5. ASSUME NEW c \in CPUs, Wait(c), ~Reap(c, curproc[c]) PROVE UNCHANGED <<kstack, pgdir, freepages>>
  BY <1>5 DEF Wait, WaitFail, WaitSleep
<1>6. ASSUME NEW c \in CPUs,
             \/ SchedAcquire(c) \/ SchedRelease(c) \/ SwitchBack(c)
             \/ \E p \in Slots : Dispatch(c, p)
             \/ ReturnFromSwitch(c) \/ ForkAlloc(c) \/ ForkPublish(c)
             \/ ExitCall(c) \/ ExitFinish(c) \/ \E k \in KillPids : Kill(c, k)
             \/ TickStep(c) \/ SleepStep(c)
      PROVE  UNCHANGED <<kstack, pgdir, freepages>>
  BY <1>6 DEF SchedAcquire, SchedRelease, SwitchBack, Dispatch, ReturnFromSwitch, ForkAlloc,
       ForkPublish, ExitCall, ExitFinish, Kill, TickStep, TimerTrap, TrapExit, TrapYield,
       SleepStep, SysSleep, SleepTicks, SleepReturn, SleepRecheck
<1> QED
  BY <1>1, <1>2, <1>3, <1>4, <1>5, <1>6 DEF Next, ProcessStep, ForkStep, procVars

\* No page is lost and none is freed twice: the free list, the kernel stacks and
\* the address spaces always add up to the memory the system started with.
THEOREM PageSafety == Spec => []PagesConserved
<1>1. Init => PagesOwned /\ PagesConserved
  <2> SUFFICES ASSUME Init PROVE PagesOwned /\ PagesConserved
    OBVIOUS
  <2>1. {p \in Slots : kstack[p]} = {Initproc} /\ {p \in Slots : pgdir[p]} = {Initproc}
    BY Constants DEF Init
  <2>2. PagesConserved
    <3>1. Cardinality({p \in Slots : kstack[p]}) = 1 /\ Cardinality({p \in Slots : pgdir[p]}) = 1
      BY <2>1, FS_Singleton, ZenonT(60)
    <3>2. freepages = NPAGES
      BY DEF Init
    <3> QED
      BY <3>1, <3>2 DEF PagesConserved
  <2>3. PagesOwned
    BY Constants DEF Init, PagesOwned, Live
  <2> QED
    BY <2>2, <2>3
<1>2. TypeOK /\ NpOwned /\ PagesOwned /\ PagesConserved /\ [Next]_procVars
        => (PagesOwned /\ PagesConserved)'
  BY PagesOwnedStep, PagesConservedStep
<1> QED
  BY <1>1, <1>2, TypeCorrect, Exclusion, PTL DEF Spec

-----------------------------------------------------------------------------
(* Induction on slot numbers, for the loops over the process table.         *)

\* A nonempty set of natural numbers has a least element.
LEMMA Least ==
  ASSUME NEW T \in SUBSET Nat, T # {}
  PROVE  \E x \in T : \A y \in T : x <= y
<1>1. IsWellFoundedOn(OpToRel(<, Nat), Nat)
  BY NatLessThanWellFounded
<1>2. \E x \in T : \A y \in T : ~ (<<y, x>> \in OpToRel(<, Nat))
  BY <1>1, WFMin
<1>3. \A x \in T, y \in T : ~ (<<y, x>> \in OpToRel(<, Nat)) => x <= y
  BY DEF OpToRel
<1> QED
  BY <1>2, <1>3

\* What holds of 0 and of every next number holds up to N.
LEMMA Upwards ==
  ASSUME NEW N \in Nat, NEW T, 0 \in T, \A n \in 1 .. N : n - 1 \in T => n \in T
  PROVE  \A n \in 0 .. N : n \in T
<1> DEFINE F == {n \in 0 .. N : n \notin T}
<1> SUFFICES ASSUME F # {} PROVE FALSE
  OBVIOUS
<1>1. F \in SUBSET Nat
  OBVIOUS
<1>2. PICK n \in F : \A m \in F : n <= m
  BY <1>1, Least
<1>3. n # 0 /\ n \in 1 .. N /\ n - 1 \in 0 .. N /\ n - 1 < n
  BY <1>2
<1>4. n - 1 \in T
  BY <1>2, <1>3
<1> QED
  BY <1>2, <1>3, <1>4

\* f holds the values of a loop body g after 0, 1 .. N turns.
Turns(f, N, D, d, g) ==
  /\ f \in [0 .. N -> D] /\ f[0] = d
  /\ \A i \in 1 .. N : f[i] = g[<<f[i - 1], i>>]

\* A loop can be run any number of turns.
LEMMA LoopRuns ==
  ASSUME NEW N \in Nat, NEW D, NEW d \in D, NEW g \in [D \X (1 .. N) -> D]
  PROVE  \E f : Turns(f, N, D, d, g)
<1> DEFINE T == {n \in 0 .. N : \E f : Turns(f, n, D, d, g)}
<1>1. 0 \in T
  <2>1. Turns([i \in 0 .. 0 |-> d], 0, D, d, g)
    BY DEF Turns
  <2> QED
    BY <2>1
<1>2. ASSUME NEW n \in 1 .. N, n - 1 \in T PROVE n \in T
  <2>1. PICK f : Turns(f, n - 1, D, d, g)
    BY <1>2
  <2> DEFINE h == [i \in 0 .. n |-> IF i = n THEN g[<<f[n - 1], n>>] ELSE f[i]]
  <2>2. f[n - 1] \in D /\ g[<<f[n - 1], n>>] \in D
    BY <2>1 DEF Turns
  <2>3. h \in [0 .. n -> D] /\ h[0] = d
    BY <2>1, <2>2 DEF Turns
  <2>4. ASSUME NEW i \in 1 .. n PROVE h[i] = g[<<h[i - 1], i>>]
    <3>1. i - 1 \in 0 .. n - 1 /\ i - 1 # n /\ i - 1 \in 0 .. n
      OBVIOUS
    <3>2. h[i - 1] = f[i - 1]
      BY <3>1
    <3>3. CASE i = n
      <4>1. h[n] = g[<<f[n - 1], n>>]
        OBVIOUS
      <4> HIDE DEF h
      <4> QED
        BY <3>2, <3>3, <4>1
    <3>4. CASE i # n
      <4>1. i \in 1 .. n - 1 /\ i \in 0 .. n
        BY <3>4
      <4>2. h[i] = f[i] /\ f[i] = g[<<f[i - 1], i>>]
        BY <2>1, <3>4, <4>1 DEF Turns
      <4> QED
        BY <3>2, <4>2
    <3> QED
      BY <3>3, <3>4
  <2>5. Turns(h, n, D, d, g)
    BY <2>3, <2>4 DEF Turns
  <2> QED
    BY <2>5
<1>3. N \in T
  <2>1. \A n \in 1 .. N : n - 1 \in T => n \in T
    BY <1>2
  <2> HIDE DEF T
  <2>2. \A n \in 0 .. N : n \in T
    BY <1>1, <2>1, Upwards
  <2> QED
    BY <2>2
<1> QED
  BY <1>3
=============================================================================
