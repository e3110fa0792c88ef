---------------------------- MODULE SchedulerProofs ----------------------------
(* Round robin and the lottery are policies the process table allows, so they *)
(* have all the safety properties proved in ProcTableProofs; round robin      *)
(* bounds the runs a process waits for; and the lottery is fair.              *)
EXTENDS RoundRobinHistory, Lottery, ProcTableProofs

USE ProcTableAssumption

-----------------------------------------------------------------------------
(* Round robin.                                                             *)

\* Every step of the round-robin kernel is a step of the process table.
LEMMA RRStep == [RRNext]_rrVars => [Next]_procVars
<1>1. ASSUME NEW c \in CPUs, RRSchedulerStep(c) PROVE Next
  BY <1>1 DEF RRSchedulerStep, RRAcquire, RRRelease, RRSwitchBack, RRDispatch, Next
<1>2. ASSUME NEW c \in CPUs, RRProcess(c) PROVE Next
  BY <1>2 DEF RRProcess, Next
<1> QED
  BY <1>1, <1>2 DEF RRNext, rrVars

\* scheduler() of proc_original.c implements the process table with an arbitrary
\* scheduling policy: it only ever runs RUNNABLE processes, under the lock.
THEOREM RoundRobinImplements == RRSpec => Spec
<1>1. RRInit => Init
  BY DEF RRInit
<1> QED
  BY <1>1, RRStep, PTL DEF RRSpec, Spec

\* No exit of a child is lost and no process shared by two CPUs under round robin.
THEOREM RoundRobinSafety == RRSpec => [](OneCpuPerProcess /\ LiveParent /\ NoLostChildExit)
BY RoundRobinImplements, Exclusion, FamilySafety, PTL

-----------------------------------------------------------------------------
(* Bounded waiting under round robin.                                       *)

\* The scheduler of c is on its way over the table: only at its end does it let
\* ptable.lock go with no process on the CPU.
Walking(c) == curproc[c] # NoProc \/ ptlock = c

\* Where the walk of c is, if c has run q while p was RUNNABLE: between the two, or
\* past both, or, on its next walk, before both.
Past(c, q, p) ==
  \/ q < p /\ Walking(c) /\ q < scan[c] /\ scan[c] <= p
  \/ p < q /\ q < scan[c]
  \/ p < q /\ Walking(c) /\ scan[c] <= p

Overtaking ==
  /\ scan \in [CPUs -> Int] /\ overtaken \in [Slots -> SUBSET (CPUs \X Slots)]
  /\ \A p \in Slots, c \in CPUs, q \in Slots :
       <<c, q>> \in overtaken[p] => state[p] = "RUNNABLE" /\ Past(c, q, p)

\* The process on a CPU, its kernel code included, ends no walk.
LEMMA ProcessWalks ==
  ASSUME TypeOK, NEW c \in CPUs, ProcessStep(c)
  PROVE  curproc' = curproc /\ \A d \in CPUs : Walking(d) => Walking(d)'
<1>1. /\ curproc' = curproc
      /\ ptlock' = ptlock \/ (curproc[c] # NoProc /\ ptlock \in {c, NoCpu})
  <2>1. CASE ReturnFromSwitch(c)
    BY <2>1 DEF ReturnFromSwitch, Resumed
  <2>2. CASE ForkStep(c)
    BY <2>2 DEF ForkStep, ForkAlloc, ForkKalloc, ForkCopyuvm, ForkPublish
  <2>3. CASE ExitCall(c)
    BY <2>3 DEF ExitCall
  <2>4. CASE ExitFinish(c)
    BY <2>4 DEF ExitFinish, Executing
  <2>5. CASE Wait(c)
    BY <2>5 DEF Wait, MaySyscall, InUser, Executing, Resumed
  <2>6. CASE \E k \in KillPids : Kill(c, k)
    BY <2>6 DEF Kill
  <2>7. CASE TickStep(c)
    BY <2>7 DEF TickStep, TimerTrap, TrapExit, TrapYield, InTrap
  <2>8. CASE SleepStep(c)
    BY <2>8 DEF SleepStep, SysSleep, SleepTicks, SleepReturn, SleepRecheck, Executing, Resumed
  <2> QED
    BY <2>1, <2>2, <2>3, <2>4, <2>5, <2>6, <2>7, <2>8 DEF ProcessStep
<1> QED
  BY <1>1, Constants DEF Walking, TypeOK

\* A step that starts no run and ends no walk.
LEMMA NoRunStep ==
  ASSUME TypeOK, Overtaking, Record, UNCHANGED scan,
         \A c \in CPUs : curproc[c] = NoProc => curproc'[c] = NoProc,
         \A c \in CPUs : Walking(c) => Walking(c)'
  PROVE  Overtaking' /\ Started = {}
<1>1. Started = {}
  BY Constants DEF Started
<1>2. \A p \in Slots : overtaken'[p] = IF state[p] = "RUNNABLE" /\ state'[p] = "RUNNABLE"
                                       THEN overtaken[p] ELSE {}
  BY <1>1 DEF Record, Overtaking
<1>3. overtaken' \in [Slots -> SUBSET (CPUs \X Slots)]
  BY <1>1 DEF Record, Overtaking
<1>4. ASSUME NEW p \in Slots, NEW c \in CPUs, NEW q \in Slots, <<c, q>> \in overtaken'[p]
      PROVE  state'[p] = "RUNNABLE" /\ Past(c, q, p)'
  <2>1. state'[p] = "RUNNABLE" /\ <<c, q>> \in overtaken[p]
    BY <1>2, <1>4
  <2>2. Past(c, q, p)
    BY <2>1 DEF Overtaking
  <2> QED
    BY <2>1, <2>2 DEF Past
<1> QED
  BY <1>1, <1>3, <1>4 DEF Overtaking

\* A new walk: whoever was run with p RUNNABLE is now ahead again, behind p.
LEMMA AcquireOvertaking ==
  ASSUME TypeOK, Overtaking, Record, NEW d \in CPUs, RRAcquire(d)
  PROVE  Overtaking' /\ Started = {}
<1>0. /\ curproc' = curproc /\ state' = state /\ ptlock = NoCpu /\ ptlock' = d
      /\ curproc[d] = NoProc /\ scan' = [scan EXCEPT ![d] = 0]
  BY DEF RRAcquire, SchedAcquire
<1>1. Started = {}
  BY <1>0, Constants DEF Started
<1>2. \A p \in Slots : overtaken'[p] = IF state[p] = "RUNNABLE" /\ state'[p] = "RUNNABLE"
                                       THEN overtaken[p] ELSE {}
  BY <1>1 DEF Record, Overtaking
<1>3. overtaken' \in [Slots -> SUBSET (CPUs \X Slots)] /\ scan' \in [CPUs -> Int]
  BY <1>0, <1>1 DEF Record, Overtaking
<1>4. ASSUME NEW p \in Slots, NEW c \in CPUs, NEW q \in Slots, <<c, q>> \in overtaken'[p]
      PROVE  state'[p] = "RUNNABLE" /\ Past(c, q, p)'
  <2>1. state'[p] = "RUNNABLE" /\ <<c, q>> \in overtaken[p]
    BY <1>2, <1>4
  <2>2. Past(c, q, p)
    BY <2>1 DEF Overtaking
  <2>3. CASE c = d
    <3>1. ~Walking(c) /\ Walking(c)'
      BY <1>0, <2>3, Constants DEF Walking
    <3>2. p < q
      BY <2>2, <3>1 DEF Past
    <3>3. scan'[c] = 0 /\ 0 <= p
      BY <1>0, <2>3 DEF Overtaking, Slots
    <3> QED
      BY <2>1, <3>1, <3>2, <3>3 DEF Past
  <2>4. CASE c # d
    <3>1. scan'[c] = scan[c]
      BY <1>0, <2>4 DEF Overtaking
    <3>2. Walking(c) => Walking(c)'
      BY <1>0, Constants DEF Walking
    <3> QED
      BY <2>1, <2>2, <3>1, <3>2 DEF Past
  <2> QED
    BY <2>3, <2>4
<1> QED
  BY <1>1, <1>3, <1>4 DEF Overtaking

\* The end of a walk: it is past everybody RUNNABLE.
LEMMA ReleaseOvertaking ==
  ASSUME TypeOK, Overtaking, Record, NEW d \in CPUs, RRRelease(d)
  PROVE  Overtaking' /\ Started = {}
<1>0. /\ curproc' = curproc /\ state' = state /\ ptlock = d /\ scan' = scan
      /\ RunnableFrom(scan[d]) = {}
  BY DEF RRRelease, SchedRelease
<1>1. Started = {}
  BY <1>0, Constants DEF Started
<1>2. \A p \in Slots : overtaken'[p] = IF state[p] = "RUNNABLE" /\ state'[p] = "RUNNABLE"
                                       THEN overtaken[p] ELSE {}
  BY <1>1 DEF Record, Overtaking
<1>3. overtaken' \in [Slots -> SUBSET (CPUs \X Slots)]
  BY <1>1 DEF Record, Overtaking
<1>4. ASSUME NEW p \in Slots, NEW c \in CPUs, NEW q \in Slots, <<c, q>> \in overtaken'[p]
      PROVE  state'[p] = "RUNNABLE" /\ Past(c, q, p)'
  <2>1. state'[p] = "RUNNABLE" /\ state[p] = "RUNNABLE" /\ <<c, q>> \in overtaken[p]
    BY <1>2, <1>4
  <2>2. Past(c, q, p)
    BY <2>1 DEF Overtaking
  <2>3. CASE c = d
    <3>1. ~(scan[c] <= p)
      BY <1>0, <2>1, <2>3, Constants DEF RunnableFrom, Overtaking
    <3>2. p < q /\ q < scan[c]
      BY <2>2, <3>1 DEF Past
    <3> QED
      BY <1>0, <2>1, <3>2 DEF Past
  <2>4. CASE c # d
    <3>1. Walking(c) => Walking(c)'
      BY <1>0, <2>4 DEF Walking
    <3> QED
      BY <1>0, <2>1, <2>2, <3>1 DEF Past
  <2> QED
    BY <2>3, <2>4
<1> QED
  BY <1>0, <1>1, <1>3, <1>4 DEF Overtaking

\* A run of s: it is the first RUNNABLE process on the way, so c has not run it
\* since any RUNNABLE p is, and the walk has not come past p.
LEMMA DispatchOvertaking ==
  ASSUME TypeOK, Overtaking, Record, NEW d \in CPUs, NEW s \in Slots, RRDispatch(d, s)
  PROVE  /\ Overtaking'
         /\ \A p \in Slots : state[p] = "RUNNABLE" /\ state'[p] = "RUNNABLE" =>
              Started \cap overtaken[p] = {}
<1>0. /\ curproc' = [curproc EXCEPT ![d] = s] /\ state' = [state EXCEPT ![s] = "RUNNING"]
      /\ curproc[d] = NoProc /\ ptlock = d /\ ptlock' = d /\ scan' = [scan EXCEPT ![d] = s + 1]
      /\ FirstSlot(s, RunnableFrom(scan[d]))
  BY DEF RRDispatch, Dispatch
<1>1. /\ scan[d] <= s /\ scan[d] \in Int
      /\ \A p \in Slots : state[p] = "RUNNABLE" /\ scan[d] <= p => s <= p
  BY <1>0, Constants DEF FirstSlot, RunnableFrom, Overtaking
<1>2. Started = {<<d, s>>}
  <2>1. \A c \in CPUs, q \in Slots : curproc[c] = NoProc /\ curproc'[c] = q <=> c = d /\ q = s
    BY <1>0, Constants DEF TypeOK
  <2> QED
    BY <2>1 DEF Started
<1>3. \A p \in Slots : overtaken'[p] = IF state[p] = "RUNNABLE" /\ state'[p] = "RUNNABLE"
                                       THEN overtaken[p] \cup {<<d, s>>} ELSE {}
  BY <1>2 DEF Record
<1>4. overtaken' \in [Slots -> SUBSET (CPUs \X Slots)] /\ scan' \in [CPUs -> Int]
  <2>1. overtaken' \in [Slots -> SUBSET (CPUs \X Slots)]
    BY <1>2 DEF Record, Overtaking
  <2>2. scan' \in [CPUs -> Int]
    BY <1>0, Constants DEF Overtaking
  <2> QED
    BY <2>1, <2>2
<1>5. \A p \in Slots : state'[p] = "RUNNABLE" => p # s
  BY <1>0 DEF TypeOK
<1>6. Walking(d) /\ Walking(d)' /\ \A c \in CPUs : Walking(c) => Walking(c)'
  BY <1>0, Constants DEF Walking, TypeOK
<1>7. scan'[d] = s + 1 /\ \A c \in CPUs : c # d => scan'[c] = scan[c]
  BY <1>0 DEF Overtaking
<1>8. ASSUME NEW p \in Slots, NEW c \in CPUs, NEW q \in Slots, <<c, q>> \in overtaken'[p]
      PROVE  state'[p] = "RUNNABLE" /\ Past(c, q, p)'
  <2>1. /\ state'[p] = "RUNNABLE" /\ state[p] = "RUNNABLE"
        /\ <<c, q>> \in overtaken[p] \/ (c = d /\ q = s)
    <3>1. state[p] = "RUNNABLE" /\ state'[p] = "RUNNABLE"
      BY <1>3, <1>8
    <3>2. <<c, q>> \in overtaken[p] \/ <<c, q>> = <<d, s>>
      BY <1>3, <1>8, <3>1
    <3> QED
      BY <3>1, <3>2
  <2>2. p # s /\ p \in Int /\ q \in Int /\ s \in Int
    BY <1>5, <2>1, Constants
  <2>3. CASE c = d /\ q = s
    BY <1>1, <1>6, <1>7, <2>1, <2>2, <2>3 DEF Past
  <2>4. CASE c = d /\ <<c, q>> \in overtaken[p]
    <3>1. Past(c, q, p)
      BY <2>4 DEF Overtaking
    <3> QED
      BY <1>1, <1>6, <1>7, <2>1, <2>2, <2>4, <3>1 DEF Past
  <2>5. CASE c # d
    <3>1. Past(c, q, p)
      BY <2>1, <2>5 DEF Overtaking
    <3> QED
      BY <1>6, <1>7, <2>1, <2>5, <3>1 DEF Past
  <2> QED
    BY <2>1, <2>3, <2>4, <2>5
<1>9. ASSUME NEW p \in Slots, state[p] = "RUNNABLE", state'[p] = "RUNNABLE"
      PROVE  Started \cap overtaken[p] = {}
  <2> SUFFICES ASSUME <<d, s>> \in overtaken[p] PROVE FALSE
    BY <1>2
  <2>1. Past(d, s, p)
    BY DEF Overtaking
  <2>2. p # s /\ p \in Int /\ s \in Int
    BY <1>5, <1>9, Constants
  <2> QED
    BY <1>1, <1>9, <2>1, <2>2 DEF Past
<1> QED
  BY <1>4, <1>8, <1>9 DEF Overtaking

LEMMA OvertakingStep ==
  ASSUME TypeOK, Overtaking, [HNext]_hVars
  PROVE  /\ Overtaking'
         /\ [\A p \in Slots : state[p] = "RUNNABLE" /\ state'[p] = "RUNNABLE" =>
               Started \cap overtaken[p] = {}]_hVars
<1>1. CASE UNCHANGED hVars
  BY <1>1 DEF hVars, rrVars, procVars, Overtaking, Past, Walking
<1>2. ASSUME NEW c \in CPUs, RRProcess(c), Record PROVE Overtaking' /\ Started = {}
  BY <1>2, ProcessWalks, NoRunStep DEF RRProcess
<1>3. ASSUME NEW c \in CPUs, RRSwitchBack(c), Record PROVE Overtaking' /\ Started = {}
  <2>1. /\ curproc' = [curproc EXCEPT ![c] = NoProc] /\ ptlock = c /\ ptlock' = ptlock
        /\ UNCHANGED scan
    BY <1>3 DEF RRSwitchBack, SwitchBack
  <2>2. \A d \in CPUs : (curproc[d] = NoProc => curproc'[d] = NoProc) /\ (Walking(d) => Walking(d)')
    BY <2>1 DEF TypeOK, Walking
  <2> QED
    BY <1>3, <2>1, <2>2, NoRunStep
<1>4. CASE HNext
  <2>1. PICK c \in CPUs : RRSchedulerStep(c) \/ RRProcess(c)
    BY <1>4 DEF HNext, RRNext
  <2>2. Record
    BY <1>4 DEF HNext
  <2>3. CASE \E s \in Slots : RRDispatch(c, s)
    BY <2>2, <2>3, DispatchOvertaking
  <2>4. CASE RRAcquire(c) \/ RRRelease(c) \/ RRSwitchBack(c) \/ RRProcess(c)
    BY <1>2, <1>3, <2>2, <2>4, AcquireOvertaking, ReleaseOvertaking
  <2> QED
    BY <2>1, <2>3, <2>4 DEF RRSchedulerStep
<1> QED
  BY <1>1, <1>4

\* Round robin is fair by count, however the walks of the CPUs interleave: a
\* process that waits sees each CPU run each other process at most once.
THEOREM WaitingIsBounded == HSpec => BoundedOvertaking
<1>1. HInit => RRInit /\ Overtaking
  BY Constants DEF HInit, RRInit, Overtaking
<1>2. [HNext]_hVars => [RRNext]_rrVars
  BY DEF HNext, hVars
<1>3. HSpec => RRSpec
  BY <1>1, <1>2, PTL DEF HSpec, RRSpec
<1> QED
  BY <1>1, <1>3, OvertakingStep, RoundRobinImplements, TypeCorrect, PTL DEF HSpec, BoundedOvertaking

-----------------------------------------------------------------------------
(* The lottery.                                                             *)

USE LotteryAssumption

\* Every step of the lottery kernel is a step of the process table, or leaves it
\* as it is (a settickets() call).
LEMMA LotteryStep == [LotteryNext]_lotteryVars => [Next]_procVars
<1>1. ASSUME NEW c \in CPUs, SchedulerStep(c) PROVE [Next]_procVars
  BY <1>1 DEF SchedulerStep, LotteryAcquire, LotteryRelease, LotterySwitchBack,
       LotteryDispatch, Next
<1>2. ASSUME NEW c \in CPUs, LotteryProcess(c) PROVE [Next]_procVars
  <2>1. CASE LotteryForkAlloc(c)
    BY <2>1 DEF LotteryForkAlloc, ForkStep, ProcessStep, Next
  <2>2. CASE LotteryForkCopyuvm(c)
    BY <2>2 DEF LotteryForkCopyuvm, ForkStep, ProcessStep, Next
  <2>3. CASE LotteryUnchanged(c)
    BY <2>3 DEF LotteryUnchanged, ForkStep, ProcessStep, Next
  <2>4. ASSUME NEW n \in 0 .. MAXTICKET, SetTickets(c, n) PROVE [Next]_procVars
    BY <2>4 DEF SetTickets
  <2> QED
    BY <1>2, <2>1, <2>2, <2>3, <2>4 DEF LotteryProcess
<1>3. CASE UNCHANGED lotteryVars
  BY <1>3 DEF lotteryVars
<1> QED
  BY <1>1, <1>2, <1>3 DEF LotteryNext

\* scheduler(), fork() and settickets() of proc_lottery_v02.c implement the
\* process table with an arbitrary scheduling policy.
THEOREM LotteryImplements == LotterySpec => Spec
<1>1. LotteryInit => Init
  BY DEF LotteryInit
<1> QED
  BY <1>1, LotteryStep, PTL DEF LotterySpec, Spec

\* No process runs on two CPUs and no exit of a child is lost under the lottery.
THEOREM LotterySafety == LotterySpec => [](OneCpuPerProcess /\ LiveParent /\ NoLostChildExit)
BY LotteryImplements, Exclusion, FamilySafety, PTL

-----------------------------------------------------------------------------
(* Sums of tickets.                                                         *)

Weights == [Slots -> 0 .. MAXTICKET]

\* u holds the partial sums of w.
Sums(u, w) ==
  /\ u \in [0 .. NPROC -> Nat] /\ u[0] = 0
  /\ \A i \in 1 .. NPROC : u[i] = u[i - 1] + w[i - 1]
  /\ \A p \in Slots : SumUpTo(w, p) = u[p + 1]

LEMMA SumsExist ==
  ASSUME NEW w \in Weights
  PROVE  \E u : Sums(u, w)
<1> DEFINE g == [x \in Nat \X (1 .. NPROC) |-> x[1] + w[x[2] - 1]]
<1>1. \A i \in 1 .. NPROC : i - 1 \in Slots /\ w[i - 1] \in Nat
  BY DEF Slots, Weights
<1>2. g \in [Nat \X (1 .. NPROC) -> Nat]
  BY <1>1
<1>3. PICK f : Turns(f, NPROC, Nat, 0, g)
  <2> HIDE DEF g
  <2> QED
    BY <1>2, LoopRuns
<1>4. f = [i \in 0 .. NPROC |-> IF i = 0 THEN 0 ELSE f[i - 1] + w[i - 1]]
  <2>1. f \in [0 .. NPROC -> Nat] /\ f[0] = 0
    BY <1>3 DEF Turns
  <2>2. ASSUME NEW i \in 1 .. NPROC PROVE f[i] = f[i - 1] + w[i - 1]
    <3>1. f[i] = g[<<f[i - 1], i>>] /\ f[i - 1] \in Nat
      <4> HIDE DEF g
      <4>1. i - 1 \in 0 .. NPROC
        OBVIOUS
      <4> QED
        BY <1>3, <4>1 DEF Turns
    <3> QED
      BY <3>1
  <2> QED
    BY <2>1, <2>2
<1>5. PICK a : /\ a = [i \in 0 .. NPROC |-> IF i = 0 THEN 0 ELSE a[i - 1] + w[i - 1]]
               /\ \A p : SumUpTo(w, p) = a[p + 1]
  BY <1>4 DEF SumUpTo
<1>6. a[0] = 0 /\ \A i \in 1 .. NPROC : a[i] = a[i - 1] + w[i - 1]
  BY <1>5
<1> DEFINE T == {i \in 0 .. NPROC : a[i] \in Nat}
<1>7. NPROC \in T /\ \A i \in 0 .. NPROC : i \in T
  <2>1. 0 \in T
    BY <1>6
  <2>2. \A i \in 1 .. NPROC : i - 1 \in T => i \in T
    BY <1>1, <1>6
  <2> HIDE DEF T
  <2> QED
    BY <2>1, <2>2, Upwards
<1>8. a \in [0 .. NPROC -> Nat]
  BY <1>5, <1>7
<1> QED
  BY <1>5, <1>6, <1>8 DEF Sums

\* Partial sums grow, and all tickets together are no more than RAND_MAX.
LEMMA SumsGrow ==
  ASSUME NEW w \in Weights, NEW u, Sums(u, w), NEW i \in 0 .. NPROC, NEW j \in i .. NPROC
  PROVE  u[i] <= u[j]
<1> DEFINE T == {k \in 0 .. NPROC : k >= i => u[i] <= u[k]}
<1>1. 0 \in T
  BY DEF Sums
<1>2. ASSUME NEW k \in 1 .. NPROC, k - 1 \in T PROVE k \in T
  <2>1. k - 1 \in Slots /\ w[k - 1] \in Nat /\ u[k] = u[k - 1] + w[k - 1]
    BY DEF Slots, Weights, Sums
  <2>2. u[k - 1] \in Nat /\ u[k] \in Nat /\ u[i] \in Nat
    BY DEF Sums
  <2>3. CASE k = i
    BY <2>2, <2>3
  <2>4. CASE k # i
    BY <1>2, <2>1, <2>2, <2>4
  <2> QED
    BY <2>3, <2>4
<1>3. \A k \in 0 .. NPROC : k \in T
  <2>1. \A k \in 1 .. NPROC : k - 1 \in T => k \in T
    BY <1>2
  <2> HIDE DEF T
  <2> QED
    BY <1>1, <2>1, Upwards
<1> QED
  BY <1>3

LEMMA SumsBounded ==
  ASSUME NEW w \in Weights, NEW u, Sums(u, w)
  PROVE  u[NPROC] \in 0 .. RAND_MAX
<1> DEFINE T == {k \in 0 .. NPROC : u[k] <= k * MAXTICKET}
<1>1. 0 \in T
  BY DEF Sums
<1>2. ASSUME NEW k \in 1 .. NPROC, k - 1 \in T PROVE k \in T
  <2>1. k - 1 \in Slots /\ w[k - 1] \in 0 .. MAXTICKET /\ u[k] = u[k - 1] + w[k - 1]
    BY DEF Slots, Weights, Sums
  <2>2. u[k - 1] \in Nat /\ u[k] \in Nat /\ u[k - 1] <= (k - 1) * MAXTICKET
    BY <1>2 DEF Sums
  <2>3. (k - 1) * MAXTICKET + MAXTICKET = k * MAXTICKET /\ (k - 1) * MAXTICKET \in Int
    OBVIOUS
  <2> QED
    BY <2>1, <2>2, <2>3
<1>3. \A k \in 0 .. NPROC : k \in T
  <2>1. \A k \in 1 .. NPROC : k - 1 \in T => k \in T
    BY <1>2
  <2> HIDE DEF T
  <2> QED
    BY <1>1, <2>1, Upwards
<1>4. u[NPROC] <= NPROC * MAXTICKET /\ u[NPROC] \in Nat
  BY <1>3 DEF Sums
<1> QED
  BY <1>4

\* The partial sum before slot m stays below n if it does after every slot of S
\* before m, and the slots outside S have no weight.
LEMMA SumsBelow ==
  ASSUME NEW w \in Weights, NEW u, Sums(u, w), NEW S \in SUBSET Slots, NEW m \in 0 .. NPROC,
         NEW n \in Nat, n > 0, \A p \in Slots \ S : w[p] = 0,
         \A p \in S : p < m => u[p + 1] < n
  PROVE  u[m] < n
<1> DEFINE T == {k \in 0 .. NPROC : k <= m => u[k] < n}
<1>1. 0 \in T
  BY DEF Sums
<1>2. ASSUME NEW k \in 1 .. NPROC, k - 1 \in T PROVE k \in T
  <2>1. k - 1 \in Slots /\ u[k] = u[k - 1] + w[k - 1] /\ k - 1 + 1 = k
    BY DEF Slots, Sums
  <2>2. u[k - 1] \in Nat /\ u[k] \in Nat
    BY DEF Sums
  <2>3. CASE k - 1 \in S
    BY <2>1, <2>2, <2>3
  <2>4. CASE k - 1 \notin S
    <3>1. u[k] = u[k - 1]
      BY <2>1, <2>2, <2>4
    <3> QED
      BY <1>2, <3>1
  <2> QED
    BY <2>3, <2>4
<1>3. \A k \in 0 .. NPROC : k \in T
  <2>1. \A k \in 1 .. NPROC : k - 1 \in T => k \in T
    BY <1>2
  <2> HIDE DEF T
  <2> QED
    BY <1>1, <2>1, Upwards
<1> QED
  BY <1>3

-----------------------------------------------------------------------------
(* Bins of random_at_most().                                                *)

LEMMA Division ==
  ASSUME NEW x \in Int, NEW n \in Int, n > 0
  PROVE  x = n * (x \div n) + (x % n) /\ x \div n \in Int /\ x % n \in 0 .. n - 1
OBVIOUS

\* The quotient is determined by its bounds.
LEMMA Quotient ==
  ASSUME NEW x \in Int, NEW n \in Int, n > 0, NEW d \in Int
  PROVE  x \div n = d <=> (d * n <= x /\ x < (d + 1) * n)
<1> DEFINE e == x \div n
           r == x % n
<1>1. x = n * e + r /\ e \in Int /\ r \in Int /\ 0 <= r /\ r < n
  BY Division
<1> HIDE DEF e, r
<1>2. ASSUME e = d PROVE d * n <= x /\ x < (d + 1) * n
  <2>1. n * d = d * n /\ (d + 1) * n = d * n + n /\ d * n \in Int
    OBVIOUS
  <2> QED
    BY <1>1, <1>2, <2>1
<1>3. ASSUME d * n <= x, x < (d + 1) * n PROVE e = d
  <2>1. CASE e < d
    <3>1. (e + 1) * n <= d * n
      BY <1>1, <2>1
    <3>2. (e + 1) * n = n * e + n /\ n * e \in Int /\ d * n \in Int
      BY <1>1
    <3> QED
      BY <1>1, <1>3, <3>1, <3>2
  <2>2. CASE e > d
    <3>1. (d + 1) * n <= e * n
      BY <1>1, <2>2
    <3>2. e * n = n * e /\ n * e \in Int /\ (d + 1) * n \in Int
      BY <1>1
    <3> QED
      BY <1>1, <1>3, <3>1, <3>2
  <2> QED
    BY <1>1, <2>1, <2>2
<1> QED
  BY <1>2, <1>3 DEF e

\* The numbers that count are those of the first max + 1 full bins.
LEMMA Bins ==
  ASSUME NEW max \in 0 .. RAND_MAX
  PROVE  /\ BinSize(max) \in Nat \ {0}
         /\ Accepted(max) = 0 .. (max + 1) * BinSize(max) - 1
<1> DEFINE R == RAND_MAX + 1
           n == max + 1
           bin == R \div n
           r == R % n
<1>1. R \in Int /\ n \in Int /\ n > 0 /\ n <= R
  OBVIOUS
<1>2. R = n * bin + r /\ bin \in Int /\ r \in 0 .. n - 1
  BY <1>1, Division
<1>3. BinSize(max) = bin /\ Accepted(max) = {x \in 0 .. RAND_MAX : x < R - r}
  BY DEF BinSize, Accepted
<1>4. bin > 0
  <2>1. 1 * n <= R
    BY <1>1
  <2> HIDE DEF R, n, bin, r
  <2>2. CASE bin <= 0
    <3>1. n * bin <= 0
      BY <1>1, <1>2, <2>2
    <3>2. n * bin \in Int
      BY <1>1, <1>2
    <3> QED
      BY <1>1, <1>2, <3>1, <3>2
  <2> QED
    BY <1>2, <2>2
<1> HIDE DEF bin, r
<1>5. n * bin \in Int /\ R - r = n * bin
  BY <1>1, <1>2
<1>6. {x \in 0 .. RAND_MAX : x < R - r} = 0 .. n * bin - 1
  <2>1. n * bin <= R
    BY <1>2, <1>5
  <2> QED
    BY <1>5, <2>1
<1> QED
  BY <1>2, <1>3, <1>4, <1>6

LEMMA Multiples ==
  ASSUME NEW a \in Int, NEW b \in Int, NEW n \in Int, n > 0
  PROVE  /\ a * n \in Int /\ b * n \in Int /\ (a + 1) * n = a * n + n
         /\ a <= b => a * n <= b * n
         /\ a * n < b * n => a < b
OBVIOUS

-----------------------------------------------------------------------------
(* Tickets are worth something.                                             *)

TicketsType == tickets \in [Slots -> 0 .. MAXTICKET]

LEMMA WeightType ==
  ASSUME TicketsType
  PROVE  /\ Weight \in Weights
         /\ \A p \in Slots : state[p] = "RUNNABLE" => Weight[p] = tickets[p]
         /\ \A p \in Slots : state[p] # "RUNNABLE" => Weight[p] = 0
<1>1. \A p \in Slots : (IF state[p] = "RUNNABLE" THEN tickets[p] ELSE 0) \in 0 .. MAXTICKET
  BY DEF TicketsType
<1> QED
  BY <1>1 DEF Weight, Weights

\* The sums of the state, the ticket sum and the bins.
LEMMA DrawFacts ==
  ASSUME TicketsType
  PROVE  \E u : /\ Sums(u, Weight) /\ TicketSum = u[NPROC] /\ TicketSum \in 0 .. RAND_MAX
                /\ \A p \in Slots : Count(p) = u[p + 1]
<1>1. PICK u : Sums(u, Weight)
  BY WeightType, SumsExist
<1>2. NPROC - 1 \in Slots /\ NPROC - 1 + 1 = NPROC
  BY DEF Slots
<1>3. TicketSum = u[NPROC] /\ \A p \in Slots : Count(p) = u[p + 1]
  BY <1>1, <1>2 DEF Sums, TicketSum, Count
<1>4. TicketSum \in 0 .. RAND_MAX
  BY <1>1, <1>3, WeightType, SumsBounded
<1> QED
  BY <1>1, <1>3, <1>4

\* The first slot whose count reaches n, for n > 0, is the one whose tickets
\* contain n.
LEMMA WinnerOf ==
  ASSUME TicketsType, NEW u, Sums(u, Weight), \A p \in Slots : Count(p) = u[p + 1],
         NEW p \in Slots, state[p] = "RUNNABLE", NEW n \in Nat
  PROVE  /\ u[p] \in Nat /\ u[p + 1] = u[p] + tickets[p]
         /\ FirstSlot(p, Winners(n)) /\ n > 0 => u[p] < n /\ n <= u[p + 1]
         /\ u[p] < n /\ n <= u[p + 1] => FirstSlot(p, Winners(n))
<1>1. p \in 0 .. NPROC /\ p + 1 \in 1 .. NPROC /\ p + 1 - 1 = p
  BY DEF Slots
<1>2. u[p] \in Nat /\ u[p + 1] = u[p] + tickets[p]
  BY <1>1, WeightType DEF Sums
<1>3. ASSUME FirstSlot(p, Winners(n)), n > 0 PROVE u[p] < n /\ n <= u[p + 1]
  <2>1. n <= u[p + 1]
    BY <1>2, <1>3 DEF FirstSlot, Winners, TicketsType
  <2> DEFINE S == {q \in Slots : state[q] = "RUNNABLE"}
  <2>2. \A q \in S : q < p => u[q + 1] < n
    <3> SUFFICES ASSUME NEW q \in S, q < p, ~(u[q + 1] < n) PROVE FALSE
      OBVIOUS
    <3>1. u[q + 1] \in Nat
      BY DEF Sums, Slots
    <3>2. q \in Winners(n)
      BY <3>1 DEF Winners
    <3>3. p <= q /\ p \in Int /\ q \in Int
      BY <1>3, <3>2 DEF FirstSlot, Slots
    <3> QED
      BY <3>3
  <2>3. \A q \in Slots \ S : Weight[q] = 0
    BY WeightType
  <2> HIDE DEF S
  <2>4. S \in SUBSET Slots
    BY DEF S
  <2>5. u[p] < n
    <3>1. PICK w \in Weights : w = Weight
      BY WeightType
    <3>2. Sums(u, w) /\ \A q \in Slots \ S : w[q] = 0
      BY <2>3, <3>1
    <3> QED
      BY <1>1, <1>3, <2>2, <2>4, <3>2, SumsBelow
  <2> QED
    BY <2>1, <2>5
<1>4. ASSUME u[p] < n, n <= u[p + 1] PROVE FirstSlot(p, Winners(n))
  <2>1. p \in Winners(n)
    BY <1>2, <1>4 DEF Winners, TicketsType
  <2>2. ASSUME NEW q \in Winners(n), ~(p <= q) PROVE FALSE
    <3>1. q \in Slots /\ u[q + 1] >= n
      BY <2>2 DEF Winners
    <3>2. q + 1 \in 0 .. NPROC /\ p \in q + 1 .. NPROC
      BY <1>1, <2>2, <3>1 DEF Slots
    <3>3. u[q + 1] <= u[p] /\ u[q + 1] \in Nat
      BY <3>2, WeightType, SumsGrow DEF Sums
    <3> QED
      BY <1>2, <1>4, <3>1, <3>3
  <2> QED
    BY <2>1, <2>2 DEF FirstSlot
<1> QED
  BY <1>2, <1>3, <1>4

\* The random numbers of the bins of the tickets of p.
LEMMA BinsOf ==
  ASSUME NEW b \in Nat \ {0}, NEW lo \in Nat, NEW t \in Nat
  PROVE  /\ IsFiniteSet((lo + 1) * b .. (lo + t + 1) * b - 1)
         /\ Cardinality((lo + 1) * b .. (lo + t + 1) * b - 1) = t * b
<1>1. /\ (lo + 1) * b \in Int /\ t * b \in Int /\ t * b >= 0
      /\ (lo + t + 1) * b = (lo + 1) * b + t * b
  OBVIOUS
<1>2. \A x, y \in Int : y >= 0 => /\ IsFiniteSet(x .. x + y - 1)
                                  /\ Cardinality(x .. x + y - 1) = y
  <2> SUFFICES ASSUME NEW x \in Int, NEW y \in Int, y >= 0
               PROVE  IsFiniteSet(x .. x + y - 1) /\ Cardinality(x .. x + y - 1) = y
    OBVIOUS
  <2>1. x + y - 1 \in Int
    OBVIOUS
  <2>2. /\ IsFiniteSet(x .. x + y - 1)
        /\ Cardinality(x .. x + y - 1) = IF x > x + y - 1 THEN 0 ELSE x + y - 1 - x + 1
    BY <2>1, FS_Interval
  <2> QED
    BY <2>2
<1> QED
  BY <1>1, <1>2

\* Random numbers that make p win.
Wins(p) ==
  {x \in Accepted(TicketSum) : FirstSlot(p, Winners(random_at_most(TicketSum, x)))}

\* A RUNNABLE process wins with the numbers of its tickets, ...
LEMMA ChanceAtLeast ==
  ASSUME TicketsType, NEW p \in Slots, state[p] = "RUNNABLE"
  PROVE  /\ IsFiniteSet(Wins(p)) /\ BinSize(TicketSum) \in Nat \ {0}
         /\ tickets[p] * BinSize(TicketSum) <= Cardinality(Wins(p))
<1>1. PICK u : /\ Sums(u, Weight) /\ TicketSum = u[NPROC] /\ TicketSum \in 0 .. RAND_MAX
               /\ \A q \in Slots : Count(q) = u[q + 1]
  BY DrawFacts
<1>2. PICK b \in Nat \ {0} : b = BinSize(TicketSum)
  BY <1>1, Bins
<1>3. Accepted(TicketSum) = 0 .. (TicketSum + 1) * b - 1
  BY <1>1, <1>2, Bins
<1>4. PICK lo \in Nat : lo = u[p]
  BY <1>1, WinnerOf
<1>5. PICK t \in Nat : t = tickets[p]
  BY DEF TicketsType
<1>6. u[p + 1] = lo + t
  BY <1>1, <1>4, <1>5, WinnerOf
<1>7. lo + t <= TicketSum
  <2>1. p + 1 \in 0 .. NPROC /\ NPROC \in p + 1 .. NPROC
    BY DEF Slots
  <2> QED
    BY <1>1, <1>6, <2>1, WeightType, SumsGrow
<1> DEFINE B == (lo + 1) * b .. (lo + t + 1) * b - 1
<1>8. B \subseteq Wins(p)
  <2> SUFFICES ASSUME NEW x \in B PROVE x \in Wins(p)
    OBVIOUS
  <2>1. (lo + 1) * b \in Int /\ (lo + t + 1) * b \in Int
    OBVIOUS
  <2>2. x \in Int /\ (lo + 1) * b <= x /\ x < (lo + t + 1) * b
    BY <2>1
  <2>3. x \in Accepted(TicketSum)
    <3>1. (lo + t + 1) * b <= (TicketSum + 1) * b /\ (TicketSum + 1) * b \in Int
      BY <1>1, <1>7, Multiples
    <3>2. 0 <= (lo + 1) * b
      OBVIOUS
    <3> HIDE DEF B
    <3> QED
      BY <1>3, <2>1, <2>2, <3>1, <3>2
  <2>4. PICK n \in Int : n = x \div b
    BY <2>2, Division
  <2>5. n * b <= x /\ x < (n + 1) * b /\ n * b \in Int /\ (n + 1) * b \in Int
    BY <2>2, <2>4, Quotient, Multiples
  <2>6. n < lo + t + 1 /\ lo + 1 < n + 1
    <3>1. n * b < (lo + t + 1) * b /\ (lo + 1) * b < (n + 1) * b
      <4> HIDE DEF B
      <4> QED
        BY <2>1, <2>2, <2>5
    <3> QED
      BY <3>1, Multiples
  <2>7. n \in Nat /\ lo < n /\ n <= lo + t
    BY <2>6
  <2>8. FirstSlot(p, Winners(n))
    BY <1>1, <1>4, <1>6, <2>7, WinnerOf
  <2>9. random_at_most(TicketSum, x) = n
    BY <1>2, <2>4 DEF random_at_most
  <2> QED
    BY <2>3, <2>8, <2>9 DEF Wins
<1>9. IsFiniteSet(Wins(p))
  <2>1. (TicketSum + 1) * b - 1 \in Int
    BY <1>1
  <2>2. IsFiniteSet(Accepted(TicketSum))
    BY <1>3, <2>1, FS_Interval
  <2> QED
    BY <2>2, FS_Subset DEF Wins
<1>10. Cardinality(B) = t * b /\ Cardinality(B) <= Cardinality(Wins(p))
  BY <1>8, <1>9, BinsOf, FS_Subset
<1> QED
  BY <1>2, <1>5, <1>9, <1>10

\* ... and with no others but 0.
LEMMA ChanceAtMost ==
  ASSUME TicketsType, NEW p \in Slots, state[p] = "RUNNABLE"
  PROVE  Cardinality(Wins(p)) <= (tickets[p] + 1) * BinSize(TicketSum)
<1>1. PICK u : /\ Sums(u, Weight) /\ TicketSum = u[NPROC] /\ TicketSum \in 0 .. RAND_MAX
               /\ \A q \in Slots : Count(q) = u[q + 1]
  BY DrawFacts
<1>2. PICK b \in Nat \ {0} : b = BinSize(TicketSum)
  BY <1>1, Bins
<1>3. Accepted(TicketSum) = 0 .. (TicketSum + 1) * b - 1
  BY <1>1, <1>2, Bins
<1>4. PICK lo \in Nat : lo = u[p]
  BY <1>1, WinnerOf
<1>5. PICK t \in Nat : t = tickets[p]
  BY DEF TicketsType
<1>6. u[p + 1] = lo + t
  BY <1>1, <1>4, <1>5, WinnerOf
<1> DEFINE A == 0 .. b - 1
           B == (lo + 1) * b .. (lo + t + 1) * b - 1
<1>7. Wins(p) \subseteq A \cup B
  <2> SUFFICES ASSUME NEW x \in Wins(p), x \notin A PROVE x \in B
    OBVIOUS
  <2>1. (lo + 1) * b \in Int /\ (lo + t + 1) * b \in Int /\ (TicketSum + 1) * b \in Int
    BY <1>1
  <2>2. x \in Nat /\ FirstSlot(p, Winners(x \div b))
    BY <1>2, <1>3, <2>1 DEF Wins, random_at_most
  <2>3. PICK n \in Int : n = x \div b
    BY <2>2, Division
  <2>4. n * b <= x /\ x < (n + 1) * b /\ n * b \in Int /\ (n + 1) * b \in Int
    BY <2>2, <2>3, Quotient, Multiples
  <2>5. n > 0
    <3>1. x >= b
      BY <2>2
    <3>2. 1 * b < (n + 1) * b
      BY <2>2, <2>4, <3>1
    <3> QED
      BY <3>2, Multiples
  <2>6. lo < n /\ n <= lo + t
    BY <1>1, <1>4, <1>6, <2>2, <2>3, <2>5, WinnerOf
  <2>7. (lo + 1) * b <= n * b /\ (n + 1) * b <= (lo + t + 1) * b
    BY <2>6, Multiples
  <2> QED
    BY <2>1, <2>2, <2>4, <2>7
<1>8. IsFiniteSet(A) /\ Cardinality(A) = b
  BY FS_Interval
<1>9. IsFiniteSet(B) /\ Cardinality(B) = t * b
  BY BinsOf
<1> HIDE DEF A, B
<1>10. IsFiniteSet(A \cup B) /\ Cardinality(A \cup B) <= b + t * b
  <2>1. /\ IsFiniteSet(A \cup B) /\ IsFiniteSet(A \cap B)
        /\ Cardinality(A \cup B) = Cardinality(A) + Cardinality(B) - Cardinality(A \cap B)
    BY <1>8, <1>9, FS_Union, FS_Intersection
  <2>2. Cardinality(A \cap B) \in Nat /\ t * b \in Int
    BY <2>1, FS_CardinalityType
  <2> QED
    BY <1>8, <1>9, <2>1, <2>2
<1>11. Cardinality(Wins(p)) <= Cardinality(A \cup B)
  BY <1>7, <1>10, FS_Subset
<1>12. /\ Cardinality(Wins(p)) \in Nat /\ Cardinality(A \cup B) \in Nat /\ t * b \in Int
       /\ (t + 1) * b = t * b + b
  <2>1. IsFiniteSet(Wins(p))
    BY <1>7, <1>10, FS_Subset
  <2> QED
    BY <1>10, <2>1, FS_CardinalityType
<1> QED
  BY <1>2, <1>5, <1>10, <1>11, <1>12

LEMMA FewerTickets ==
  ASSUME TicketsType PROVE MostTicketsBestChance
<1> SUFFICES ASSUME NEW p \in Slots, NEW q \in Slots, state[p] = "RUNNABLE",
                    state[q] = "RUNNABLE", tickets[p] < tickets[q]
             PROVE  Chance(p) <= Chance(q)
  BY DEF MostTicketsBestChance
<1>1. PICK b \in Nat \ {0} : b = BinSize(TicketSum)
  BY ChanceAtLeast
<1>2. tickets[p] \in Nat /\ tickets[q] \in Nat
  BY DEF TicketsType
<1>3. (tickets[p] + 1) * b <= tickets[q] * b
  BY <1>2, Multiples
<1>4. IsFiniteSet(Wins(p)) /\ IsFiniteSet(Wins(q))
  BY ChanceAtLeast
<1>5. Cardinality(Wins(p)) \in Nat /\ Cardinality(Wins(q)) \in Nat
  BY <1>4, FS_CardinalityType
<1>6. Cardinality(Wins(p)) <= (tickets[p] + 1) * b /\ tickets[q] * b <= Cardinality(Wins(q))
  BY <1>1, ChanceAtLeast, ChanceAtMost
<1>7. (tickets[p] + 1) * b \in Int /\ tickets[q] * b \in Int
  BY <1>2
<1>8. Cardinality(Wins(p)) <= Cardinality(Wins(q))
  BY <1>3, <1>5, <1>6, <1>7
<1> QED
  BY <1>8 DEF Chance, Wins

-----------------------------------------------------------------------------
(* No draw is void.                                                         *)

\* A number that is still to be used was drawn by the scheduler that holds
\* ptable.lock, from the tickets as they are.
DrawInRange ==
  /\ draw \in [CPUs -> Int]
  /\ \A d \in CPUs : draw[d] # NoDraw =>
       ptlock = d /\ curproc[d] = NoProc /\ draw[d] \in 0 .. TicketSum

\* The second loop finds a winner for every number random_at_most() can return.
LEMMA NumberHasWinner ==
  ASSUME TicketsType, NEW n \in 0 .. TicketSum,
         \E p \in Slots : state[p] = "RUNNABLE"
  PROVE  Winners(n) # {}
<1> SUFFICES ASSUME Winners(n) = {} PROVE FALSE
  OBVIOUS
<1>1. PICK u : /\ Sums(u, Weight) /\ TicketSum = u[NPROC] /\ TicketSum \in 0 .. RAND_MAX
               /\ \A q \in Slots : Count(q) = u[q + 1]
  BY DrawFacts
<1>2. n \in Nat /\ n <= u[NPROC] /\ u[NPROC] \in Nat
  BY <1>1
<1> DEFINE S == {q \in Slots : state[q] = "RUNNABLE"}
<1>3. \A q \in S : u[q + 1] < n /\ u[q + 1] \in Nat
  <2> TAKE q \in S
  <2>1. u[q + 1] \in Nat
    BY <1>1 DEF Sums, Slots
  <2>2. ~(u[q + 1] >= n)
    BY <1>1 DEF Winners
  <2> QED
    BY <1>2, <2>1, <2>2
<1>4. n > 0
  <2>1. PICK q \in S : TRUE
    OBVIOUS
  <2> QED
    BY <1>2, <1>3, <2>1
<1>5. PICK w \in Weights : w = Weight
  BY WeightType
<1>6. Sums(u, w) /\ \A q \in Slots \ S : w[q] = 0
  BY <1>1, <1>5, WeightType
<1>7. S \in SUBSET Slots /\ NPROC \in 0 .. NPROC
  OBVIOUS
<1> HIDE DEF S
<1>8. u[NPROC] < n
  BY <1>2, <1>3, <1>4, <1>6, <1>7, SumsBelow
<1> QED
  BY <1>2, <1>8

LEMMA DrawsWin == TicketsType /\ DrawInRange => DrawHasWinner
BY NumberHasWinner DEF DrawInRange, DrawHasWinner

\* What a step may change without touching the lottery in progress.
LEMMA SameTickets ==
  ASSUME \A p \in Slots : (state'[p] = "RUNNABLE") = (state[p] = "RUNNABLE"),
         \A p \in Slots : state[p] = "RUNNABLE" => tickets'[p] = tickets[p]
  PROVE  TicketSum' = TicketSum
<1>1. Weight' = Weight
  BY DEF Weight
<1> QED
  BY <1>1 DEF TicketSum, SumUpTo

\* Every number counts, so random_at_most(max) is at most max.
LEMMA RandomAtMost ==
  ASSUME NEW max \in 0 .. RAND_MAX, NEW x \in Accepted(max)
  PROVE  random_at_most(max, x) \in 0 .. max
<1>1. PICK b \in Nat \ {0} : b = BinSize(max)
  BY Bins
<1>2. (max + 1) * b \in Int /\ x \in Nat /\ x < (max + 1) * b
  BY <1>1, Bins
<1>3. PICK n \in Int : n = x \div b
  BY <1>2, Division
<1>4. n * b <= x /\ x < (n + 1) * b /\ n * b \in Int /\ (n + 1) * b \in Int
  BY <1>2, <1>3, Quotient, Multiples
<1>5. n * b < (max + 1) * b /\ 0 * b < (n + 1) * b
  BY <1>2, <1>4
<1>6. n < max + 1 /\ 0 < n + 1
  BY <1>5, Multiples
<1> QED
  BY <1>1, <1>3, <1>6 DEF random_at_most

\* settickets() and fork() keep tickets within the limit, and so does the ticket
\* a process earns.
LEMMA TicketsTypeStep == TypeOK /\ TicketsType /\ [LotteryNext]_lotteryVars => TicketsType'
<1> SUFFICES ASSUME TypeOK, TicketsType, [LotteryNext]_lotteryVars PROVE TicketsType'
  OBVIOUS
<1>1. ASSUME NEW c \in CPUs, SchedulerStep(c) PROVE TicketsType'
  <2>1. CASE LotterySwitchBack(c)
    <3>1. \A p \in Slots : tickets[p] \in 0 .. MAXTICKET
      BY DEF TicketsType
    <3>2. \A p \in Slots : (IF state[p] = "RUNNABLE" /\ tickets[p] < MAXTICKET
                            THEN tickets[p] + 1 ELSE tickets[p]) \in 0 .. MAXTICKET
      BY <3>1
    <3> QED
      BY <2>1, <3>2 DEF LotterySwitchBack, TicketsType
  <2>2. CASE ~LotterySwitchBack(c)
    BY <1>1, <2>2 DEF SchedulerStep, LotteryAcquire, LotteryRelease, LotteryDispatch, TicketsType
  <2> QED
    BY <2>1, <2>2
<1>2. ASSUME NEW c \in CPUs, LotteryProcess(c) PROVE TicketsType'
  <2>1. CASE LotteryForkAlloc(c)
    <3>1. \E q : tickets' = [tickets EXCEPT ![q] = 1]
      BY <2>1 DEF LotteryForkAlloc
    <3>2. 1 \in 0 .. MAXTICKET
      OBVIOUS
    <3> QED
      BY <3>1, <3>2 DEF TicketsType
  <2>2. CASE LotteryForkCopyuvm(c)
    <3>1. curproc[c] \in Slots
      BY <2>2 DEF LotteryForkCopyuvm, ForkCopyuvm, Executing, TypeOK
    <3> QED
      BY <2>2, <3>1 DEF LotteryForkCopyuvm, TicketsType
  <2>3. CASE LotteryUnchanged(c)
    BY <2>3 DEF LotteryUnchanged, TicketsType
  <2>4. ASSUME NEW n \in 0 .. MAXTICKET, SetTickets(c, n) PROVE TicketsType'
    BY <2>4 DEF SetTickets, TicketsType
  <2> QED
    BY <1>2, <2>1, <2>2, <2>3, <2>4 DEF LotteryProcess
<1>3. CASE UNCHANGED lotteryVars
  BY <1>3 DEF lotteryVars, TicketsType
<1> QED
  BY <1>1, <1>2, <1>3 DEF LotteryNext

\* While a scheduler is about to use its number, no other step reaches the
\* tickets of a RUNNABLE process: the ones that do need ptable.lock, and fork()
\* works on a slot that takes no part.
LEMMA OthersKeepDraw ==
  ASSUME TypeOK, NpOwned, TicketsType, NEW c \in CPUs, NEW d \in CPUs, ptlock = d, curproc[d] = NoProc,
         LotteryProcess(c)
  PROVE  ptlock' = ptlock /\ curproc' = curproc /\ draw' = draw /\ TicketSum' = TicketSum
<1>1. ptlock # NoCpu /\ state \in [Slots -> States] /\ curproc[c] \in Slots \cup {NoProc}
  BY Constants DEF TypeOK
<1>2. Executing(c) => c # d /\ curproc[c] \in Slots
  BY <1>1 DEF Executing
<1>3. ASSUME Executing(c), pc[curproc[c]] \in ForkPCs
      PROVE  np[curproc[c]] \in Slots /\ state[np[curproc[c]]] = "EMBRYO"
  BY <1>2, <1>3 DEF NpOwned
<1>4. CASE LotteryForkAlloc(c)
  BY <1>1, <1>4 DEF LotteryForkAlloc, ForkAlloc
<1>5. CASE LotteryForkCopyuvm(c)
  <2>1. Executing(c) /\ pc[curproc[c]] \in ForkPCs
    BY <1>5 DEF LotteryForkCopyuvm, ForkCopyuvm, ForkPCs
  <2>2. PICK q \in Slots : q = np[curproc[c]] /\ state[q] = "EMBRYO"
    BY <1>3, <2>1
  <2>3. state' = state \/ state' = [state EXCEPT ![q] = "UNUSED"]
    BY <1>5, <2>2 DEF LotteryForkCopyuvm, ForkCopyuvm
  <2>4. tickets' = tickets \/ tickets' = [tickets EXCEPT ![q] = tickets[curproc[c]]]
    BY <1>5, <2>2 DEF LotteryForkCopyuvm
  <2>5. ptlock' = ptlock /\ curproc' = curproc /\ draw' = draw
    BY <1>5 DEF LotteryForkCopyuvm, ForkCopyuvm
  <2>6. \A p \in Slots : (state'[p] = "RUNNABLE") = (state[p] = "RUNNABLE")
    BY <1>1, <2>2, <2>3
  <2>7. \A p \in Slots : state[p] = "RUNNABLE" => tickets'[p] = tickets[p]
    BY <2>2, <2>4 DEF TicketsType
  <2> QED
    BY <2>5, <2>6, <2>7, SameTickets
<1>6. CASE LotteryUnchanged(c)
  <2>1. tickets' = tickets /\ draw' = draw
    BY <1>6 DEF LotteryUnchanged
  <2>2. CASE ForkKalloc(c)
    <3>1. Executing(c) /\ pc[curproc[c]] \in ForkPCs
      BY <2>2 DEF ForkKalloc, ForkPCs
    <3>2. PICK q \in Slots : q = np[curproc[c]] /\ state[q] = "EMBRYO"
      BY <1>3, <3>1
    <3>3. state' = state \/ state' = [state EXCEPT ![q] = "UNUSED"]
      BY <2>2, <3>2 DEF ForkKalloc
    <3>4. ptlock' = ptlock /\ curproc' = curproc
      BY <2>2 DEF ForkKalloc
    <3>5. \A p \in Slots : (state'[p] = "RUNNABLE") = (state[p] = "RUNNABLE")
      BY <1>1, <3>2, <3>3
    <3> QED
      BY <2>1, <3>4, <3>5, SameTickets
  <2>3. CASE ~ForkKalloc(c)
    <3>1. ~Resumed(c, "yield") /\ ~Resumed(c, "forkret") /\ ~Resumed(c, "wait") /\ ~Resumed(c, "tsleep")
      BY DEF Resumed
    <3>2. state' = state /\ ptlock' = ptlock /\ curproc' = curproc
      <4>1. ~ReturnFromSwitch(c) /\ ~ForkPublish(c) /\ ~ExitFinish(c) /\ ~Wait(c)
            /\ ~SleepTicks(c) /\ ~SleepReturn(c) /\ ~TrapYield(c) /\ \A k \in KillPids : ~Kill(c, k)
        BY <1>1, <3>1 DEF ReturnFromSwitch, ForkPublish, ExitFinish, Wait, SleepTicks,
             SleepReturn, TrapYield, Kill
      <4>2. CASE TimerTrap(c)
        BY <1>1, <4>2 DEF TimerTrap, TickEffect
      <4>3. CASE ~TimerTrap(c)
        BY <1>6, <2>3, <4>1, <4>3 DEF LotteryUnchanged, TickStep, SleepStep, ExitCall, TrapExit,
             SysSleep, SleepRecheck
      <4> QED
        BY <4>2, <4>3
    <3> QED
      BY <2>1, <3>2, SameTickets
  <2> QED
    BY <2>2, <2>3
<1>7. ASSUME NEW n \in 0 .. MAXTICKET, SetTickets(c, n) PROVE FALSE
  BY <1>1, <1>7 DEF SetTickets
<1> QED
  BY <1>4, <1>5, <1>6, <1>7 DEF LotteryProcess

\* A lottery is held, won and closed under one hold of ptable.lock.
LEMMA DrawInRangeStep ==
  TypeOK /\ NpOwned /\ TicketsType /\ DrawInRange /\ [LotteryNext]_lotteryVars => DrawInRange'
<1> SUFFICES ASSUME TypeOK, NpOwned, TicketsType, DrawInRange, [LotteryNext]_lotteryVars
             PROVE  DrawInRange'
  OBVIOUS
<1>1. draw \in [CPUs -> Int]
  BY DEF DrawInRange
<1>2. ASSUME NEW c \in CPUs, LotteryAcquire(c) PROVE DrawInRange'
  <2>1. PICK x \in Accepted(TicketSum) : draw' = [draw EXCEPT ![c] = random_at_most(TicketSum, x)]
    BY <1>2 DEF LotteryAcquire
  <2>2. TicketSum \in 0 .. RAND_MAX
    BY DrawFacts
  <2>3. PICK n \in 0 .. TicketSum : draw' = [draw EXCEPT ![c] = n]
    BY <2>1, <2>2, RandomAtMost
  <2>4. TicketSum' = TicketSum
    BY <1>2, SameTickets DEF LotteryAcquire, SchedAcquire
  <2>5. ptlock = NoCpu /\ ptlock' = c /\ curproc' = curproc /\ curproc[c] = NoProc
    BY <1>2 DEF LotteryAcquire, SchedAcquire
  <2>6. \A d \in CPUs : d # c => draw'[d] = NoDraw
    BY <1>1, <2>3, <2>5, Constants DEF DrawInRange
  <2>7. draw' \in [CPUs -> Int] /\ draw'[c] = n
    BY <1>1, <2>3
  <2> QED
    BY <2>4, <2>5, <2>6, <2>7 DEF DrawInRange
<1>3. ASSUME NEW c \in CPUs, curproc[c] = NoProc, ptlock = c, draw' = [draw EXCEPT ![c] = NoDraw]
      PROVE  DrawInRange'
  <2>1. \A d \in CPUs : draw'[d] = NoDraw
    BY <1>1, <1>3 DEF DrawInRange
  <2>2. draw' \in [CPUs -> Int]
    BY <1>1, <1>3 DEF NoDraw
  <2> QED
    BY <2>1, <2>2 DEF DrawInRange
<1>4. ASSUME NEW c \in CPUs, SchedulerStep(c) PROVE DrawInRange'
  <2>1. CASE LotteryAcquire(c)
    BY <1>2, <2>1
  <2>2. ASSUME NEW p \in Slots, LotteryDispatch(c, p) PROVE DrawInRange'
    BY <1>3, <2>2 DEF LotteryDispatch, Dispatch
  <2>3. CASE LotteryRelease(c)
    BY <1>3, <2>3 DEF LotteryRelease, SchedRelease
  <2>4. CASE LotterySwitchBack(c)
    <3>1. draw' = draw /\ ptlock = c /\ curproc[c] # NoProc
      BY <2>4 DEF LotterySwitchBack, SwitchBack
    <3>2. \A d \in CPUs : draw'[d] = NoDraw
      BY <3>1 DEF DrawInRange
    <3> QED
      BY <1>1, <3>1, <3>2 DEF DrawInRange
  <2> QED
    BY <1>4, <2>1, <2>2, <2>3, <2>4 DEF SchedulerStep
<1>5. ASSUME NEW c \in CPUs, LotteryProcess(c) PROVE DrawInRange'
  <2>1. draw' = draw
    BY <1>5 DEF LotteryProcess, LotteryForkAlloc, LotteryForkCopyuvm, LotteryUnchanged, SetTickets
  <2>2. ASSUME NEW d \in CPUs, draw[d] # NoDraw
        PROVE  ptlock' = d /\ curproc'[d] = NoProc /\ draw[d] \in 0 .. TicketSum'
    <3>1. ptlock = d /\ curproc[d] = NoProc /\ draw[d] \in 0 .. TicketSum
      BY <2>2 DEF DrawInRange
    <3> QED
      BY <1>5, <3>1, OthersKeepDraw
  <2> QED
    BY <1>1, <2>1, <2>2 DEF DrawInRange
<1>6. CASE UNCHANGED lotteryVars
  <2>1. UNCHANGED <<state, tickets, draw, ptlock, curproc>>
    BY <1>6 DEF lotteryVars, procVars
  <2>2. TicketSum' = TicketSum
    BY <2>1, SameTickets
  <2> QED
    BY <2>1, <2>2 DEF DrawInRange
<1> QED
  BY <1>4, <1>5, <1>6 DEF LotteryNext

\* The lottery of scheduler() is right for any number of processes and tickets:
\* every number random_at_most() may return has a winner, and fewer tickets
\* never mean a better chance.
THEOREM LotteryIsFair == LotterySpec => []LotteryFair
<1>1. LotteryInit => TicketsType /\ DrawInRange
  BY Constants DEF LotteryInit, TicketsType, DrawInRange, NoDraw
<1>2. TypeOK /\ NpOwned /\ TicketsType /\ DrawInRange /\ [LotteryNext]_lotteryVars
        => TicketsType' /\ DrawInRange'
  BY TicketsTypeStep, DrawInRangeStep
<1>3. TicketsType /\ DrawInRange => LotteryFair
  BY FewerTickets, DrawsWin DEF LotteryFair
<1> QED
  BY <1>1, <1>2, <1>3, LotteryImplements, TypeCorrect, Exclusion, PTL DEF LotterySpec
=============================================================================
