--------------------------------- MODULE MLFQ ---------------------------------
(***************************************************************************)
(* The multi-level feedback queue of lab-2/proc_mlfq_v02.c on top of the    *)
(* process table.  mlfq_queue[i][0 .. mlfq_queue_size[i]] is the sequence   *)
(* queue[i]; mlfq_queue_size is its last index, so Len(queue[i]) - 1.       *)
(*                                                                          *)
(* ticks appears only in differences: promoteIn is PromoteAtTime - ticks    *)
(* and elapsed[c] the ticks since the scheduler of c noted start_time, both *)
(* cut off where the code stops telling values apart.                       *)
(*                                                                          *)
(* Meant for NCPU = 1: the file's setpriority() takes no lock, so on two    *)
(* CPUs it races with the enqueueing code, which reads p->priority thrice.  *)
(***************************************************************************)
EXTENDS ProcTable, Sequences

CONSTANTS
  MAXPRIORITY, DEFAULT_BUDGET, TICKS_TO_PROMOTE,
  PriorityPids       \* arguments user programs pass to setpriority()

ASSUME MLFQAssumption ==
  /\ MAXPRIORITY \in Nat /\ DEFAULT_BUDGET \in Nat \ {0} /\ TICKS_TO_PROMOTE \in Nat \ {0}
  /\ PriorityPids \subseteq Nat

Levels == 0 .. MAXPRIORITY

VARIABLES
  queue,             \* mlfq_queue and mlfq_queue_size
  priority, budget,  \* fields of struct proc
  promoteIn,
  elapsed,           \* ticks - start_time, of the process on each CPU
  pos                \* i, k and check of each CPU's scheduler(), k from 1

queueVars == <<queue, priority, budget>>
mlfqVars == <<procVars, queue, priority, budget, promoteIn, elapsed, pos>>

\* p->priority and p->budget start as 0, in init too, which userinit() does
\* not put into any queue: the first promotion does.
MLFQInit ==
  /\ Init
  /\ queue = [l \in Levels |-> <<>>]
  /\ priority = [p \in Slots |-> 0]
  /\ budget = [p \in Slots |-> 0]
  /\ promoteIn = TICKS_TO_PROMOTE
  /\ elapsed = [c \in CPUs |-> 0]
  /\ pos = [c \in CPUs |-> [lvl |-> MAXPRIORITY, k |-> 1, check |-> FALSE]]

-----------------------------------------------------------------------------
(* Queues.  qs stands for <queue, priority, budget> on the way through a loop. *)

Without(s, k) == SubSeq(s, 1, k - 1) \o SubSeq(s, k + 1, Len(s))

IndicesOf(p, s) == {k \in 1 .. Len(s) : s[k] = p}

DeleteFirst(p, s) ==
  IF IndicesOf(p, s) = {} THEN s
  ELSE Without(s, CHOOSE k \in IndicesOf(p, s) : \A j \in IndicesOf(p, s) : k <= j)

AppendAt(q, l, p) == [q EXCEPT ![l] = Append(@, p)]

\* setpriority(k, pr): the first slot with that pid, UNUSED slots (pid 0) included.
SetPriority(qs, k, pr) ==
  LET hit(q) == FirstSlot(q, {r \in Slots : pid[r] = k}) IN
  IF pr \notin Levels THEN qs
  ELSE [qs EXCEPT !.priority = [q \in Slots |-> IF hit(q) THEN pr ELSE @[q]],
                  !.budget   = [q \in Slots |-> IF hit(q) THEN DEFAULT_BUDGET ELSE @[q]]]

\* Faulty variant: only processes found in a queue are promoted.
PromoteSlotQueued(qs, p) ==
  IF state[p] = "ZOMBIE" \/ qs.priority[p] >= MAXPRIORITY THEN qs
  ELSE LET l == qs.priority[p]
           up == SetPriority([qs EXCEPT !.queue[l] = DeleteFirst(p, @)], pid[p], l + 1)
       IN IF IndicesOf(p, qs.queue[l]) = {} THEN qs
          ELSE [up EXCEPT !.budget[p] = DEFAULT_BUDGET,
                          !.queue = AppendAt(@, up.priority[p], p)]

\* One turn of the promotion loop, in all states but ZOMBIE.
PromoteSlot(qs, p) ==
  IF state[p] = "ZOMBIE" \/ qs.priority[p] >= MAXPRIORITY THEN qs
  ELSE LET l == qs.priority[p]
           up == SetPriority([qs EXCEPT !.queue[l] = DeleteFirst(p, @)], pid[p], l + 1)
       IN [up EXCEPT !.budget[p] = DEFAULT_BUDGET,
                     !.queue = AppendAt(@, up.priority[p], p)]

Promotion ==
  LET after[i \in 0 .. NPROC] ==
        IF i = 0 THEN [queue |-> queue, priority |-> priority, budget |-> budget]
        ELSE PromoteSlot(after[i - 1], i - 1)
  IN after[NPROC]

\* One turn of the loop of wakeup1(), p being woken if it is in S.  Its search
\* for an entry runs to i < mlfq_queue_size and so skips the last one.
WakeSlot(q, S, p) ==
  LET found == \E k \in IndicesOf(p, q[priority[p]]) : k < Len(q[priority[p]]) IN
  IF p \in S /\ ~found THEN AppendAt(q, priority[p], p) ELSE q

WakeQueues(q0, S) ==
  LET after[i \in 0 .. NPROC] == IF i = 0 THEN q0 ELSE WakeSlot(after[i - 1], S, i - 1)
  IN after[NPROC]

Becomes(qs) == queue' = qs.queue /\ priority' = qs.priority /\ budget' = qs.budget

-----------------------------------------------------------------------------
(* scheduler().                                                             *)

\* acquire(), the promotion when it is due, and the start of the level loop.
MLFQAcquire(c) ==
  /\ SchedAcquire(c)
  /\ IF promoteIn = 0 THEN Becomes(Promotion) /\ promoteIn' = TICKS_TO_PROMOTE
                      ELSE UNCHANGED <<queueVars, promoteIn>>
  /\ pos' = [pos EXCEPT ![c] = [lvl |-> MAXPRIORITY, k |-> 1, check |-> FALSE]]
  /\ UNCHANGED elapsed

\* Entries the inner for loop still has before it.
RunnableEntries(c) ==
  LET q == queue[pos[c].lvl] IN {k \in pos[c].k .. Len(q) : state[q[k]] = "RUNNABLE"}

\* The first of them is taken out of its queue and run.
MLFQDispatch(c) ==
  /\ curproc[c] = NoProc /\ ptlock = c /\ pos[c].lvl \in Levels
  /\ \E k \in RunnableEntries(c), p \in Slots :
       /\ \A j \in RunnableEntries(c) : k <= j
       /\ p = queue[pos[c].lvl][k]
       /\ Dispatch(c, p)
       /\ queue' = [queue EXCEPT ![pos[c].lvl] = Without(@, k)]
       /\ pos' = [pos EXCEPT ![c] = [@ EXCEPT !.k = k + 1, !.check = TRUE]]
  /\ UNCHANGED <<priority, budget, promoteIn, elapsed>>

\* The inner loop has ended: once more if it ran something, else one level down.
MLFQNextLevel(c) ==
  /\ curproc[c] = NoProc /\ ptlock = c /\ pos[c].lvl \in Levels
  /\ RunnableEntries(c) = {}
  /\ pos' = [pos EXCEPT ![c] = [lvl |-> IF @.check THEN @.lvl ELSE @.lvl - 1,
                                k |-> 1, check |-> FALSE]]
  /\ UNCHANGED <<procVars, queueVars, promoteIn, elapsed>>

MLFQRelease(c) ==
  /\ pos[c].lvl = -1
  /\ SchedRelease(c)
  /\ UNCHANGED <<queueVars, promoteIn, elapsed, pos>>

\* Faulty variant: demotion waits until the budget is exceeded.
AfterRunLate(c, p) ==
  LET left == budget[p] - elapsed[c]
      qs == [queue |-> queue, priority |-> priority,
             budget |-> [budget EXCEPT ![p] = IF left > 0 THEN left ELSE 0]]
      down == IF left < 0 /\ priority[p] > 0 THEN SetPriority(qs, pid[p], priority[p] - 1)
              ELSE qs
  IN [down EXCEPT !.queue = AppendAt(@, down.priority[p], p)]

\* Faulty variant: the process is put back only if it has budget left.
AfterRunDropped(c, p) ==
  LET left == budget[p] - elapsed[c]
      qs == [queue |-> queue, priority |-> priority,
             budget |-> [budget EXCEPT ![p] = IF left > 0 THEN left ELSE 0]]
  IN IF left <= 0 /\ priority[p] > 0 THEN SetPriority(qs, pid[p], priority[p] - 1)
     ELSE [qs EXCEPT !.queue = AppendAt(@, priority[p], p)]

\* What scheduler() does with p after swtch(): charge it, demote it when its
\* budget is used up, append it to a queue whatever state it is in.
AfterRun(c, p) ==
  LET left == budget[p] - elapsed[c]
      qs == [queue |-> queue, priority |-> priority,
             budget |-> [budget EXCEPT ![p] = IF left > 0 THEN left ELSE 0]]
      down == IF left <= 0 /\ priority[p] > 0 THEN SetPriority(qs, pid[p], priority[p] - 1)
              ELSE qs
  IN [down EXCEPT !.queue = AppendAt(@, down.priority[p], p)]

MLFQSwitchBack(c) ==
  /\ SwitchBack(c)
  /\ Becomes(AfterRun(c, curproc[c]))
  /\ elapsed' = [elapsed EXCEPT ![c] = 0]
  /\ UNCHANGED <<promoteIn, pos>>

-----------------------------------------------------------------------------
(* The process-table operations this file changes.                          *)

\* The child starts at the tail of the top queue.
MLFQForkPublish(c) ==
  /\ ForkPublish(c)
  /\ LET q == np[curproc[c]] IN
       Becomes([queue |-> AppendAt(queue, MAXPRIORITY, q),
                priority |-> [priority EXCEPT ![q] = MAXPRIORITY],
                budget |-> [budget EXCEPT ![q] = DEFAULT_BUDGET]])
  /\ UNCHANGED <<promoteIn, elapsed, pos>>

\* wakeup1() of the parent comes before those of init.
MLFQExitFinish(c) ==
  /\ ExitFinish(c)
  /\ LET p == curproc[c]  first == Woken(parent[p]) IN
       queue' = WakeQueues(WakeQueues(queue, first), ExitWakes(p) \ first)
  /\ UNCHANGED <<priority, budget, promoteIn, elapsed, pos>>

\* ticks++ and wakeup(&ticks).
MLFQTimerTrap(c) ==
  /\ TimerTrap(c)
  /\ IF c = 0
     THEN /\ queue' = WakeQueues(queue, Woken(TicksChan))
          /\ promoteIn' = IF promoteIn > 0 THEN promoteIn - 1 ELSE 0
          /\ elapsed' = [d \in CPUs |-> IF curproc[d] # NoProc /\ elapsed[d] < DEFAULT_BUDGET
                                        THEN elapsed[d] + 1 ELSE elapsed[d]]
     ELSE UNCHANGED <<queue, promoteIn, elapsed>>
  /\ UNCHANGED <<priority, budget, pos>>

\* setpriority() as a system call: the queues are left as they are.
SysSetPriority(c, k, pr) ==
  /\ MaySyscall(c)
  /\ Becomes(SetPriority([queue |-> queue, priority |-> priority, budget |-> budget], k, pr))
  /\ UNCHANGED <<procVars, promoteIn, elapsed, pos>>

\* The operations it takes over unchanged; kill() does not touch the queues.
MLFQUnchanged(c) ==
  /\ \/ ReturnFromSwitch(c) \/ ForkAlloc(c) \/ ForkKalloc(c) \/ ForkCopyuvm(c)
     \/ ExitCall(c) \/ Wait(c) \/ TrapExit(c) \/ TrapYield(c) \/ SleepStep(c)
     \/ \E k \in KillPids : Kill(c, k)
  /\ UNCHANGED <<queueVars, promoteIn, elapsed, pos>>

SchedulerStep(c) ==
  \/ MLFQAcquire(c) \/ MLFQDispatch(c) \/ MLFQNextLevel(c)
  \/ MLFQRelease(c) \/ MLFQSwitchBack(c)

MLFQProcess(c) ==
  \/ MLFQForkPublish(c) \/ MLFQExitFinish(c) \/ MLFQTimerTrap(c) \/ MLFQUnchanged(c)
  \/ \E k \in PriorityPids, pr \in Levels : SysSetPriority(c, k, pr)

MLFQNext == \E c \in CPUs : SchedulerStep(c) \/ MLFQProcess(c)

MLFQSpec == MLFQInit /\ [][MLFQNext]_mlfqVars

-----------------------------------------------------------------------------
(* Fairness, for one CPU, as in RoundRobin.                                  *)

policyVars == <<queueVars, promoteIn, elapsed, pos>>

MLFQFairness ==
  \A c \in CPUs :
    /\ WF_mlfqVars(SchedulerStep(c))
    /\ WF_mlfqVars(Uninterrupted(c) /\ UNCHANGED policyVars)
    /\ SF_mlfqVars(MLFQTimerTrap(c))
    /\ SF_mlfqVars(InitWaits(c) /\ UNCHANGED policyVars)

MLFQFairSpec == MLFQSpec /\ MLFQFairness

-----------------------------------------------------------------------------
(* Properties.                                                              *)

\* The arrays have 2*NPROC entries; what the code does beyond them is undefined.
WithinArrays == \A l \in Levels : Len(queue[l]) <= 2 * NPROC

\* No process is lost: while ptable.lock is free every RUNNABLE process has an
\* entry in some queue, though dispatch takes it out, kill() makes it RUNNABLE
\* without touching the queues and setpriority() moves it to a level it has no
\* entry in.  Init, until it first runs, waits for a promotion instead.
RunnableQueued ==
  ptlock = NoCpu =>
    \A p \in Slots : state[p] = "RUNNABLE" =>
      \/ \E l \in Levels : IndicesOf(p, queue[l]) # {}
      \/ p = Initproc /\ resume[p] = "forkret"

\* The system boots: init, which no queue holds, gets the CPU.
InitBoots == <>(state[Initproc] = "RUNNING")

\* "Periodic Priority Adjustment" (proc_mlfq_v02.c:393): a promotion that is due
\* takes place.
PeriodicAdjustment == promoteIn = 0 ~> promoteIn > 0
=============================================================================
