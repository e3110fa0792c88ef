------------------------------ MODULE MLFQProofs ------------------------------
(* The multi-level feedback queue is one of the policies the process table    *)
(* allows: whatever its queues hold, stale and duplicate entries included, it *)
(* runs RUNNABLE processes only.  No process drops out of the queues, and no  *)
(* process outstays its budget at a level.                                    *)
EXTENDS MLFQHistory, ProcTableProofs, SequenceTheorems

USE ProcTableAssumption, MLFQAssumption

\* Every step of the MLFQ kernel is a step of the process table, or leaves it
\* as it is (a level change, a setpriority() call).
LEMMA MLFQStep == [MLFQNext]_mlfqVars => [Next]_procVars
<1>1. ASSUME NEW c \in CPUs, SchedulerStep(c) PROVE [Next]_procVars
  <2>1. CASE MLFQAcquire(c)
    BY <2>1 DEF MLFQAcquire, Next
  <2>2. CASE MLFQDispatch(c)
    BY <2>2 DEF MLFQDispatch, Next
  <2>3. CASE MLFQNextLevel(c)
    BY <2>3 DEF MLFQNextLevel
  <2>4. CASE MLFQRelease(c)
    BY <2>4 DEF MLFQRelease, Next
  <2>5. CASE MLFQSwitchBack(c)
    BY <2>5 DEF MLFQSwitchBack, Next
  <2> QED
    BY <1>1, <2>1, <2>2, <2>3, <2>4, <2>5 DEF SchedulerStep
<1>2. ASSUME NEW c \in CPUs, MLFQProcess(c) PROVE [Next]_procVars
  <2>1. CASE MLFQForkPublish(c)
    BY <2>1 DEF MLFQForkPublish, ForkStep, ProcessStep, Next
  <2>2. CASE MLFQExitFinish(c)
    BY <2>2 DEF MLFQExitFinish, ProcessStep, Next
  <2>3. CASE MLFQTimerTrap(c)
    BY <2>3 DEF MLFQTimerTrap, TickStep, ProcessStep, Next
  <2>4. CASE MLFQUnchanged(c)
    BY <2>4 DEF MLFQUnchanged, ForkStep, TickStep, ProcessStep, Next
  <2>5. ASSUME NEW k \in PriorityPids, NEW pr \in Levels, SysSetPriority(c, k, pr)
        PROVE  [Next]_procVars
    BY <2>5 DEF SysSetPriority
  <2> QED
    BY <1>2, <2>1, <2>2, <2>3, <2>4, <2>5 DEF MLFQProcess
<1>3. CASE UNCHANGED mlfqVars
  BY <1>3 DEF mlfqVars
<1> QED
  BY <1>1, <1>2, <1>3 DEF MLFQNext

\* scheduler(), fork(), wakeup1() and setpriority() of proc_mlfq_v02.c implement
\* the process table with an arbitrary scheduling policy.
THEOREM MLFQImplements == MLFQSpec => Spec
<1>1. MLFQInit => Init
  BY DEF MLFQInit
<1> QED
  BY <1>1, MLFQStep, PTL DEF MLFQSpec, Spec

\* The damage the queues suffer stays in the queues: no process runs on two CPUs,
\* no exit of a child is lost.
THEOREM MLFQSafety == MLFQSpec => [](OneCpuPerProcess /\ LiveParent /\ NoLostChildExit)
BY MLFQImplements, Exclusion, FamilySafety, PTL

-----------------------------------------------------------------------------
(* Entries of the queues.                                                   *)

Queues == [Levels -> Seq(Slots)]
QueueStates == [queue : Queues, priority : [Slots -> Levels], budget : [Slots -> Nat]]

\* Process r has an entry in some queue.
Queued(q, r) == \E l \in Levels : \E k \in 1 .. Len(q[l]) : q[l][k] = r

\* No process but those in S loses its last entry.
KeepsAllBut(S, q1, q2) == \A r \in Slots \ S : Queued(q1, r) => Queued(q2, r)

LEMMA IndicesFacts ==
  ASSUME NEW s \in Seq(Slots), NEW p
  PROVE  /\ IndicesOf(p, s) \subseteq 1 .. Len(s)
         /\ \A k \in IndicesOf(p, s) : s[k] = p
BY DEF IndicesOf

\* Taking out entry k leaves the others.
LEMMA WithoutFacts ==
  ASSUME NEW s \in Seq(Slots), NEW k \in 1 .. Len(s)
  PROVE  /\ Without(s, k) \in Seq(Slots)
         /\ \A j \in 1 .. Len(s) : j # k =>
              \E i \in 1 .. Len(Without(s, k)) : Without(s, k)[i] = s[j]
<1> DEFINE a == SubSeq(s, 1, k - 1)
           b == SubSeq(s, k + 1, Len(s))
<1>1. a \in Seq(Slots) /\ Len(a) = k - 1 /\ \A i \in 1 .. k - 1 : a[i] = s[i]
  BY SubSeqProperties
<1>2. b \in Seq(Slots) /\ Len(b) = Len(s) - k /\ \A i \in 1 .. Len(s) - k : b[i] = s[k + i]
  BY SubSeqProperties
<1>3. /\ Without(s, k) \in Seq(Slots) /\ Len(Without(s, k)) = Len(s) - 1
      /\ \A i \in 1 .. Len(s) - 1 : Without(s, k)[i] = IF i < k THEN a[i] ELSE b[i - (k - 1)]
  <2>1. Without(s, k) = a \o b
    BY DEF Without
  <2> HIDE DEF a, b
  <2>2. /\ a \o b \in Seq(Slots) /\ Len(a \o b) = Len(s) - 1
        /\ \A i \in 1 .. Len(s) - 1 : (a \o b)[i] = IF i < k THEN a[i] ELSE b[i - (k - 1)]
    <3>1. Len(a) + Len(b) = Len(s) - 1 /\ \A i \in Int : i <= Len(a) <=> i < k
      BY <1>1, <1>2
    <3>2. a \o b \in Seq(Slots) /\ Len(a \o b) = Len(a) + Len(b)
      BY <1>1, <1>2, ConcatProperties, ZenonT(60)
    <3>3. \A i \in 1 .. Len(a) + Len(b) : (a \o b)[i] = IF i <= Len(a) THEN a[i] ELSE b[i - Len(a)]
      BY <1>1, <1>2, ConcatProperties
    <3> QED
      BY <1>1, <3>1, <3>2, <3>3
  <2> QED
    BY <2>1, <2>2
<1>4. ASSUME NEW j \in 1 .. Len(s), j # k
      PROVE  \E i \in 1 .. Len(Without(s, k)) : Without(s, k)[i] = s[j]
  <2>1. CASE j < k
    <3>1. j \in 1 .. Len(s) - 1 /\ Without(s, k)[j] = s[j]
      BY <1>1, <1>3, <2>1
    <3> QED
      BY <1>3, <3>1
  <2>2. CASE j > k
    <3>1. /\ j - 1 \in 1 .. Len(s) - 1 /\ ~(j - 1 < k) /\ j - 1 - (k - 1) = j - k
          /\ j - k \in 1 .. Len(s) - k /\ k + (j - k) = j
      BY <2>2
    <3>2. Without(s, k)[j - 1] = s[j]
      BY <1>2, <1>3, <3>1
    <3> QED
      BY <1>3, <3>1, <3>2
  <2> QED
    BY <1>4, <2>1, <2>2
<1> QED
  BY <1>3, <1>4

\* Taking an entry of p out of one queue.
LEMMA RemoveEntry ==
  ASSUME NEW q \in Queues, NEW l \in Levels, NEW k \in 1 .. Len(q[l])
  PROVE  /\ [q EXCEPT ![l] = Without(q[l], k)] \in Queues
         /\ KeepsAllBut({q[l][k]}, q, [q EXCEPT ![l] = Without(q[l], k)])
<1> DEFINE h == [q EXCEPT ![l] = Without(q[l], k)]
<1>1. q[l] \in Seq(Slots) /\ Without(q[l], k) \in Seq(Slots)
  BY WithoutFacts DEF Queues
<1>2. h \in Queues
  BY <1>1 DEF Queues
<1>3. ASSUME NEW r \in Slots, r # q[l][k], Queued(q, r) PROVE Queued(h, r)
  <2>0. PICK m \in Levels : \E j \in 1 .. Len(q[m]) : q[m][j] = r
    BY <1>3 DEF Queued
  <2>1. PICK j \in 1 .. Len(q[m]) : q[m][j] = r
    BY <2>0
  <2>2. CASE m # l
    BY <2>1, <2>2 DEF Queued, Queues
  <2>3. CASE m = l
    <3>1. j # k
      BY <1>3, <2>1, <2>3
    <3>2. PICK i \in 1 .. Len(Without(q[l], k)) : Without(q[l], k)[i] = q[l][j]
      BY <1>1, <2>1, <2>3, <3>1, WithoutFacts, SMTT(40)
    <3>3. h[l] = Without(q[l], k)
      BY DEF Queues
    <3> QED
      BY <2>1, <2>3, <3>2, <3>3 DEF Queued
  <2> QED
    BY <2>2, <2>3
<1> QED
  BY <1>2, <1>3 DEF KeepsAllBut

LEMMA DeleteEntry ==
  ASSUME NEW q \in Queues, NEW l \in Levels, NEW p
  PROVE  /\ [q EXCEPT ![l] = DeleteFirst(p, q[l])] \in Queues
         /\ KeepsAllBut({p}, q, [q EXCEPT ![l] = DeleteFirst(p, q[l])])
<1>1. CASE IndicesOf(p, q[l]) = {}
  <2>1. [q EXCEPT ![l] = DeleteFirst(p, q[l])] = q
    BY <1>1 DEF DeleteFirst, Queues
  <2> QED
    BY <2>1 DEF KeepsAllBut
<1>2. CASE IndicesOf(p, q[l]) # {}
  <2>1. IndicesOf(p, q[l]) \in SUBSET Nat
    BY DEF IndicesOf
  <2>2. \E k \in IndicesOf(p, q[l]) : \A j \in IndicesOf(p, q[l]) : k <= j
    BY <1>2, <2>1, Least
  <2>3. PICK k \in IndicesOf(p, q[l]) : DeleteFirst(p, q[l]) = Without(q[l], k)
    BY <1>2, <2>2 DEF DeleteFirst
  <2>4. k \in 1 .. Len(q[l]) /\ q[l][k] = p
    BY <2>3 DEF IndicesOf
  <2> QED
    BY <2>3, <2>4, RemoveEntry
<1> QED
  BY <1>1, <1>2

\* Appending an entry.
LEMMA AppendEntry ==
  ASSUME NEW q \in Queues, NEW l \in Levels, NEW p \in Slots
  PROVE  /\ AppendAt(q, l, p) \in Queues /\ Queued(AppendAt(q, l, p), p)
         /\ KeepsAllBut({}, q, AppendAt(q, l, p))
<1> DEFINE h == AppendAt(q, l, p)
<1>1. q[l] \in Seq(Slots) /\ Len(q[l]) \in Nat
  BY DEF Queues
<1>2. h \in Queues /\ h[l] = Append(q[l], p) /\ \A m \in Levels : m # l => h[m] = q[m]
  BY <1>1 DEF AppendAt, Queues
<1>3. /\ Len(h[l]) = Len(q[l]) + 1 /\ h[l][Len(q[l]) + 1] = p
      /\ \A j \in 1 .. Len(q[l]) : h[l][j] = q[l][j] /\ j \in 1 .. Len(q[l]) + 1
  BY <1>1, <1>2
<1>4. Queued(h, p)
  <2>1. Len(q[l]) + 1 \in 1 .. Len(h[l])
    BY <1>1, <1>3
  <2> QED
    BY <1>3, <2>1 DEF Queued
<1>5. ASSUME NEW r \in Slots, Queued(q, r) PROVE Queued(h, r)
  <2>0. PICK m \in Levels : \E j \in 1 .. Len(q[m]) : q[m][j] = r
    BY <1>5 DEF Queued
  <2>1. PICK j \in 1 .. Len(q[m]) : q[m][j] = r
    BY <2>0
  <2>2. CASE m # l
    BY <1>2, <2>1, <2>2 DEF Queued
  <2>3. CASE m = l
    BY <1>3, <2>1, <2>3 DEF Queued
  <2> QED
    BY <2>2, <2>3
<1> QED
  BY <1>2, <1>4, <1>5 DEF KeepsAllBut

-----------------------------------------------------------------------------
(* What the loops and the scheduler do to the queues.                       *)

\* The three fields together.
QueueState == [queue |-> queue, priority |-> priority, budget |-> budget]

QueueType == QueueState \in QueueStates

\* setpriority() leaves the queues alone.
LEMMA SetPriorityFacts ==
  ASSUME NEW qs \in QueueStates, NEW k, NEW pr
  PROVE  SetPriority(qs, k, pr) \in QueueStates /\ SetPriority(qs, k, pr).queue = qs.queue
<1>1. CASE pr \notin Levels
  BY <1>1 DEF SetPriority
<1>2. CASE pr \in Levels
  <2> DEFINE hit(q) == FirstSlot(q, {r \in Slots : pid[r] = k})
             up == [q \in Slots |-> IF hit(q) THEN pr ELSE qs.priority[q]]
             left == [q \in Slots |-> IF hit(q) THEN DEFAULT_BUDGET ELSE qs.budget[q]]
  <2>1. SetPriority(qs, k, pr) = [qs EXCEPT !.priority = up, !.budget = left]
    BY <1>2 DEF SetPriority
  <2>2. up \in [Slots -> Levels] /\ left \in [Slots -> Nat]
    <3>1. qs.priority \in [Slots -> Levels] /\ qs.budget \in [Slots -> Nat]
      BY DEF QueueStates
    <3> HIDE DEF hit
    <3> QED
      BY <1>2, <3>1
  <2> HIDE DEF up, left
  <2> QED
    BY <2>1, <2>2 DEF QueueStates
<1> QED
  BY <1>1, <1>2

\* One turn of the promotion loop: the process it moves is appended again.
LEMMA PromoteSlotFacts ==
  ASSUME NEW qs \in QueueStates, NEW p \in Slots
  PROVE  /\ PromoteSlot(qs, p) \in QueueStates
         /\ KeepsAllBut({}, qs.queue, PromoteSlot(qs, p).queue)
<1>1. CASE state[p] = "ZOMBIE" \/ qs.priority[p] >= MAXPRIORITY
  BY <1>1 DEF PromoteSlot, KeepsAllBut
<1>2. CASE ~(state[p] = "ZOMBIE" \/ qs.priority[p] >= MAXPRIORITY)
  <2> DEFINE l == qs.priority[p]
             q1 == [qs.queue EXCEPT ![l] = DeleteFirst(p, qs.queue[l])]
             cut == [qs EXCEPT !.queue = q1]
             up == SetPriority(cut, pid[p], l + 1)
             q2 == AppendAt(up.queue, up.priority[p], p)
  <2>1. l \in Levels /\ qs.queue \in Queues
    BY DEF QueueStates
  <2>2. PromoteSlot(qs, p) = [up EXCEPT !.budget[p] = DEFAULT_BUDGET, !.queue = q2]
    <3>1. [qs EXCEPT !.queue[l] = DeleteFirst(p, @)] = cut
      BY DEF QueueStates
    <3> QED
      BY <1>2, <3>1 DEF PromoteSlot
  <2>3. q1 \in Queues /\ KeepsAllBut({p}, qs.queue, q1)
    BY <2>1, DeleteEntry
  <2>4. cut \in QueueStates /\ cut.queue = q1
    <3> HIDE DEF q1
    <3> QED
      BY <2>3 DEF QueueStates
  <2>5. up \in QueueStates /\ up.queue = q1
    <3> HIDE DEF cut, q1
    <3> QED
      BY <2>4, SetPriorityFacts
  <2> HIDE DEF up, q1, cut
  <2>6. up.priority[p] \in Levels /\ up.budget \in [Slots -> Nat]
    BY <2>5 DEF QueueStates
  <2>7. q2 \in Queues /\ Queued(q2, p) /\ KeepsAllBut({}, q1, q2)
    BY <2>3, <2>5, <2>6, AppendEntry
  <2> HIDE DEF q2
  <2>8. PromoteSlot(qs, p) \in QueueStates /\ PromoteSlot(qs, p).queue = q2
    <3>1. [up.budget EXCEPT ![p] = DEFAULT_BUDGET] \in [Slots -> Nat]
      BY <2>6
    <3>2. PromoteSlot(qs, p)
            = [queue |-> q2, priority |-> up.priority,
               budget |-> [up.budget EXCEPT ![p] = DEFAULT_BUDGET]]
      BY <2>2, <2>5 DEF QueueStates
    <3> QED
      BY <2>5, <2>7, <3>1, <3>2 DEF QueueStates
  <2> QED
    BY <2>3, <2>7, <2>8 DEF KeepsAllBut
<1> QED
  BY <1>1, <1>2

\* The promotion loop has a run, and Promotion is where it ends.
LEMMA PromotionLoop ==
  ASSUME QueueType
  PROVE  \E a : /\ a = [i \in 0 .. NPROC |->
                          IF i = 0 THEN QueueState ELSE PromoteSlot(a[i - 1], i - 1)]
                /\ Promotion = a[NPROC]
<1> DEFINE g == [x \in QueueStates \X (1 .. NPROC) |-> PromoteSlot(x[1], x[2] - 1)]
<1>1. \A n \in 1 .. NPROC : n - 1 \in Slots
  BY DEF Slots
<1>2. g \in [QueueStates \X (1 .. NPROC) -> QueueStates]
  BY <1>1, PromoteSlotFacts
<1>3. PICK f : Turns(f, NPROC, QueueStates, QueueState, g)
  <2> HIDE DEF g
  <2> QED
    BY <1>2, LoopRuns DEF QueueType
<1>4. f = [i \in 0 .. NPROC |-> IF i = 0 THEN QueueState ELSE PromoteSlot(f[i - 1], i - 1)]
  <2>1. f \in [0 .. NPROC -> QueueStates] /\ f[0] = QueueState
    BY <1>3 DEF Turns
  <2>2. ASSUME NEW i \in 1 .. NPROC PROVE f[i] = PromoteSlot(f[i - 1], i - 1)
    <3>1. f[i] = g[<<f[i - 1], i>>] /\ f[i - 1] \in QueueStates
      <4> HIDE DEF g
      <4>1. i - 1 \in 0 .. NPROC
        OBVIOUS
      <4> QED
        BY <1>3, <4>1 DEF Turns
    <3> QED
      BY <3>1
  <2> QED
    BY <2>1, <2>2
<1> QED
  BY <1>4 DEF Promotion, QueueState

\* The promotion loop loses no process.
LEMMA PromotionFacts ==
  ASSUME QueueType
  PROVE  Promotion \in QueueStates /\ KeepsAllBut({}, queue, Promotion.queue)
<1>1. \A n \in 1 .. NPROC : n - 1 \in Slots
  BY DEF Slots
<1>2. PICK a : /\ a = [i \in 0 .. NPROC |->
                         IF i = 0 THEN QueueState ELSE PromoteSlot(a[i - 1], i - 1)]
               /\ Promotion = a[NPROC]
  BY PromotionLoop
<1> DEFINE T == {i \in 0 .. NPROC : a[i] \in QueueStates /\ KeepsAllBut({}, queue, a[i].queue)}
<1>3. 0 \in T
  <2>1. a[0] = QueueState
    BY <1>2
  <2> QED
    BY <2>1 DEF QueueType, QueueState, KeepsAllBut
<1>4. ASSUME NEW i \in 1 .. NPROC, i - 1 \in T PROVE i \in T
  <2>1. a[i] = PromoteSlot(a[i - 1], i - 1)
    BY <1>2
  <2>2. a[i - 1] \in QueueStates /\ KeepsAllBut({}, queue, a[i - 1].queue)
    BY <1>4
  <2>3. a[i] \in QueueStates /\ KeepsAllBut({}, a[i - 1].queue, a[i].queue)
    BY <1>1, <2>1, <2>2, PromoteSlotFacts
  <2> QED
    BY <2>2, <2>3 DEF KeepsAllBut
<1>5. NPROC \in T
  <2>1. \A i \in 1 .. NPROC : i - 1 \in T => i \in T
    BY <1>4
  <2> HIDE DEF T
  <2>2. \A i \in 0 .. NPROC : i \in T
    BY <1>3, <2>1, Upwards
  <2> QED
    BY <2>2
<1> QED
  BY <1>2, <1>5

\* Nor does wakeup1().
LEMMA WakeSlotFacts ==
  ASSUME QueueType, NEW q \in Queues, NEW S, NEW p \in Slots
  PROVE  WakeSlot(q, S, p) \in Queues /\ KeepsAllBut({}, q, WakeSlot(q, S, p))
<1>1. priority[p] \in Levels
  BY DEF QueueType, QueueState, QueueStates
<1>2. AppendAt(q, priority[p], p) \in Queues /\ KeepsAllBut({}, q, AppendAt(q, priority[p], p))
  BY <1>1, AppendEntry
<1>3. WakeSlot(q, S, p) \in {q, AppendAt(q, priority[p], p)}
  BY DEF WakeSlot
<1> QED
  BY <1>2, <1>3 DEF KeepsAllBut

LEMMA WakeQueuesFacts ==
  ASSUME QueueType, NEW q0 \in Queues, NEW S
  PROVE  WakeQueues(q0, S) \in Queues /\ KeepsAllBut({}, q0, WakeQueues(q0, S))
<1> DEFINE g == [x \in Queues \X (1 .. NPROC) |-> WakeSlot(x[1], S, x[2] - 1)]
<1>1. \A n \in 1 .. NPROC : n - 1 \in Slots
  BY DEF Slots
<1>2. g \in [Queues \X (1 .. NPROC) -> Queues]
  BY <1>1, WakeSlotFacts
<1>3. PICK f : Turns(f, NPROC, Queues, q0, g)
  <2> HIDE DEF g
  <2> QED
    BY <1>2, LoopRuns
<1>4. f = [i \in 0 .. NPROC |-> IF i = 0 THEN q0 ELSE WakeSlot(f[i - 1], S, i - 1)]
  <2>1. f \in [0 .. NPROC -> Queues] /\ f[0] = q0
    BY <1>3 DEF Turns
  <2>2. ASSUME NEW i \in 1 .. NPROC PROVE f[i] = WakeSlot(f[i - 1], S, i - 1)
    <3>1. f[i] = g[<<f[i - 1], i>>] /\ f[i - 1] \in Queues
      <4> HIDE DEF g
      <4>1. i - 1 \in 0 .. NPROC
        OBVIOUS
      <4> QED
        BY <1>3, <4>1 DEF Turns
    <3> QED
      BY <3>1
  <2> QED
    BY <2>1, <2>2
<1>5. PICK a : /\ a = [i \in 0 .. NPROC |-> IF i = 0 THEN q0 ELSE WakeSlot(a[i - 1], S, i - 1)]
               /\ WakeQueues(q0, S) = a[NPROC]
  BY <1>4 DEF WakeQueues
<1> DEFINE T == {i \in 0 .. NPROC : a[i] \in Queues /\ KeepsAllBut({}, q0, a[i])}
<1>6. 0 \in T
  <2>1. a[0] = q0
    BY <1>5
  <2> QED
    BY <2>1 DEF KeepsAllBut
<1>7. ASSUME NEW i \in 1 .. NPROC, i - 1 \in T PROVE i \in T
  <2>1. a[i] = WakeSlot(a[i - 1], S, i - 1)
    BY <1>5
  <2>2. a[i - 1] \in Queues /\ KeepsAllBut({}, q0, a[i - 1])
    BY <1>7
  <2>3. a[i] \in Queues /\ KeepsAllBut({}, a[i - 1], a[i])
    BY <1>1, <2>1, <2>2, WakeSlotFacts
  <2> QED
    BY <2>2, <2>3 DEF KeepsAllBut
<1>8. NPROC \in T
  <2>1. \A i \in 1 .. NPROC : i - 1 \in T => i \in T
    BY <1>7
  <2> HIDE DEF T
  <2>2. \A i \in 0 .. NPROC : i \in T
    BY <1>6, <2>1, Upwards
  <2> QED
    BY <2>2
<1> QED
  BY <1>5, <1>8

\* After its run the process is in a queue again.
LEMMA AfterRunFacts ==
  ASSUME QueueType, NEW c \in CPUs, NEW p \in Slots, elapsed[c] \in Nat
  PROVE  /\ AfterRun(c, p) \in QueueStates /\ Queued(AfterRun(c, p).queue, p)
         /\ KeepsAllBut({}, queue, AfterRun(c, p).queue)
<1> DEFINE left == budget[p] - elapsed[c]
           qs == [queue |-> queue, priority |-> priority,
                  budget |-> [budget EXCEPT ![p] = IF left > 0 THEN left ELSE 0]]
           down == IF left <= 0 /\ priority[p] > 0 THEN SetPriority(qs, pid[p], priority[p] - 1)
                   ELSE qs
           q2 == AppendAt(down.queue, down.priority[p], p)
<1>1. queue \in Queues /\ priority \in [Slots -> Levels] /\ budget \in [Slots -> Nat]
  BY DEF QueueType, QueueState, QueueStates
<1>2. qs \in QueueStates /\ qs.queue = queue
  BY <1>1 DEF QueueStates
<1>3. down \in QueueStates /\ down.queue = queue
  <2> HIDE DEF qs, left
  <2> QED
    BY <1>2, SetPriorityFacts
<1>4. AfterRun(c, p) = [down EXCEPT !.queue = q2]
  BY DEF AfterRun
<1> HIDE DEF down
<1>5. down.priority[p] \in Levels
  BY <1>3 DEF QueueStates
<1>6. q2 \in Queues /\ Queued(q2, p) /\ KeepsAllBut({}, queue, q2)
  BY <1>1, <1>3, <1>5, AppendEntry
<1> HIDE DEF q2
<1>7. AfterRun(c, p) \in QueueStates /\ AfterRun(c, p).queue = q2
  BY <1>3, <1>4, <1>6 DEF QueueStates
<1> QED
  BY <1>6, <1>7

-----------------------------------------------------------------------------
(* No process is lost.                                                      *)

SchedType ==
  /\ QueueType /\ promoteIn \in Nat /\ elapsed \in [CPUs -> Nat]
  /\ pos \in [CPUs -> [lvl : Int, k : Nat \ {0}, check : BOOLEAN]]

OffCpu(p) == \A c \in CPUs : curproc[c] # p

\* Whoever may be run and is on no CPU has an entry, a sleeper too: kill() makes
\* it RUNNABLE without a look at the queues.
WaitingQueued ==
  \A p \in Slots : state[p] \in {"RUNNABLE", "SLEEPING"} /\ OffCpu(p) =>
    Queued(queue, p) \/ (p = Initproc /\ resume[p] = "forkret")

\* The step does not make p one of them.
Stays(p) ==
  OffCpu(p)' /\ state'[p] \in {"RUNNABLE", "SLEEPING"} =>
    /\ OffCpu(p) /\ state[p] \in {"RUNNABLE", "SLEEPING"}
    /\ resume'[p] = resume[p] \/ resume'[p] = "forkret"

\* Only the end of fork() and the switch to the scheduler do.
LEMMA ProcessStays ==
  ASSUME TypeOK, NEW c \in CPUs,
         \/ ReturnFromSwitch(c) \/ ForkAlloc(c) \/ ForkKalloc(c) \/ ForkCopyuvm(c)
         \/ ExitCall(c) \/ Wait(c) \/ TrapExit(c) \/ TrapYield(c) \/ SleepStep(c)
         \/ (\E k \in KillPids : Kill(c, k)) \/ ExitFinish(c) \/ TimerTrap(c)
  PROVE  \A p \in Slots : Stays(p)
<1> SUFFICES ASSUME NEW p \in Slots PROVE Stays(p)
  OBVIOUS
<1> USE DEF TypeOK, Stays, OffCpu, Executing, Resumed, InUser, MaySyscall, InTrap
<1>1. CASE ReturnFromSwitch(c)
  BY <1>1 DEF ReturnFromSwitch
<1>2. CASE ForkAlloc(c)
  BY <1>2 DEF ForkAlloc
<1>3. CASE ForkKalloc(c)
  BY <1>3 DEF ForkKalloc
<1>4. CASE ForkCopyuvm(c)
  BY <1>4 DEF ForkCopyuvm
<1>5. CASE ExitCall(c)
  BY <1>5 DEF ExitCall
<1>6. CASE Wait(c)
  <2>1. CASE Reap(c, curproc[c])
    BY <1>6, <2>1 DEF Wait, Reap
  <2>2. CASE WaitFail(c, curproc[c])
    BY <1>6, <2>2 DEF Wait, WaitFail
  <2>3. CASE WaitSleep(c, curproc[c])
    BY <1>6, <2>3 DEF Wait, WaitSleep
  <2> QED
    BY <1>6, <2>1, <2>2, <2>3 DEF Wait
<1>7. CASE TrapExit(c)
  BY <1>7 DEF TrapExit
<1>8. CASE TrapYield(c)
  BY <1>8 DEF TrapYield
<1>9. CASE SleepStep(c)
  BY <1>9 DEF SleepStep, SysSleep, SleepTicks, SleepReturn, SleepRecheck
<1>10. CASE \E k \in KillPids : Kill(c, k)
  BY <1>10 DEF Kill
<1>11. CASE ExitFinish(c)
  BY <1>11 DEF ExitFinish, ExitWakes, Woken
<1>12. CASE TimerTrap(c)
  <2>1. CASE c = 0
    BY <1>12, <2>1 DEF TimerTrap, TickEffect, Woken
  <2>2. CASE c # 0
    BY <1>12, <2>2 DEF TimerTrap
  <2> QED
    BY <2>1, <2>2
<1> QED
  BY <1>1, <1>2, <1>3, <1>4, <1>5, <1>6, <1>7, <1>8, <1>9, <1>10, <1>11, <1>12

LEMMA SchedTypeInit == MLFQInit => SchedType
<1> SUFFICES ASSUME MLFQInit PROVE SchedType
  OBVIOUS
<1>1. [l \in Levels |-> <<>>] \in Queues
  BY DEF Queues
<1>2. 0 \in Levels
  BY DEF Levels
<1>3. QueueType
  BY <1>1, <1>2 DEF MLFQInit, QueueType, QueueState, QueueStates
<1> QED
  BY <1>3 DEF MLFQInit, SchedType

LEMMA SchedTypeStep ==
  ASSUME TypeOK, NpOwned, SchedType, [MLFQNext]_mlfqVars PROVE SchedType'
<1>1. CASE UNCHANGED mlfqVars
  BY <1>1 DEF mlfqVars, SchedType, QueueType, QueueState
<1>2. ASSUME UNCHANGED queueVars PROVE QueueType'
  BY <1>2 DEF queueVars, SchedType, QueueType, QueueState
<1>3. ASSUME NEW qs \in QueueStates, Becomes(qs) PROVE QueueType'
  BY <1>3 DEF Becomes, QueueType, QueueState, QueueStates
<1>4. ASSUME queue' \in Queues, UNCHANGED <<priority, budget>> PROVE QueueType'
  BY <1>4 DEF SchedType, QueueType, QueueState, QueueStates
<1>5. queue \in Queues /\ priority \in [Slots -> Levels] /\ budget \in [Slots -> Nat]
  BY DEF SchedType, QueueType, QueueState, QueueStates
<1>6. ASSUME NEW c \in CPUs, SchedulerStep(c) PROVE SchedType'
  <2>1. CASE MLFQAcquire(c)
    <3>1. QueueType'
      BY <1>2, <1>3, <2>1, PromotionFacts DEF MLFQAcquire, SchedType
    <3>2. promoteIn' \in Nat
      BY <2>1 DEF MLFQAcquire, SchedType
    <3>3. elapsed' \in [CPUs -> Nat] /\ pos' \in [CPUs -> [lvl : Int, k : Nat \ {0}, check : BOOLEAN]]
      BY <2>1 DEF MLFQAcquire, SchedType
    <3> QED
      BY <3>1, <3>2, <3>3 DEF SchedType
  <2>2. CASE MLFQDispatch(c)
    <3>1. PICK k \in RunnableEntries(c) :
            /\ queue' = [queue EXCEPT ![pos[c].lvl] = Without(queue[pos[c].lvl], k)]
            /\ pos' = [pos EXCEPT ![c] = [pos[c] EXCEPT !.k = k + 1, !.check = TRUE]]
      BY <2>2, ZenonT(60) DEF MLFQDispatch
    <3>2. pos[c].lvl \in Levels /\ k \in 1 .. Len(queue[pos[c].lvl]) /\ pos[c].k \in Nat \ {0}
      BY <1>5, <2>2, SMTT(40) DEF MLFQDispatch, RunnableEntries, SchedType, Queues
    <3>3. queue' \in Queues
      BY <1>5, <3>1, <3>2, RemoveEntry
    <3>4. pos' \in [CPUs -> [lvl : Int, k : Nat \ {0}, check : BOOLEAN]]
      <4>1. pos[c] \in [lvl : Int, k : Nat \ {0}, check : BOOLEAN] /\ k + 1 \in Nat \ {0}
        BY <3>2 DEF SchedType
      <4>2. [pos[c] EXCEPT !.k = k + 1, !.check = TRUE] \in [lvl : Int, k : Nat \ {0}, check : BOOLEAN]
        BY <4>1
      <4> QED
        BY <3>1, <4>2 DEF SchedType
    <3> QED
      BY <1>4, <2>2, <3>3, <3>4 DEF MLFQDispatch, SchedType
  <2>3. CASE MLFQNextLevel(c)
    <3>1. pos' \in [CPUs -> [lvl : Int, k : Nat \ {0}, check : BOOLEAN]]
      BY <2>3 DEF MLFQNextLevel, SchedType
    <3> QED
      BY <1>2, <2>3, <3>1 DEF MLFQNextLevel, SchedType
  <2>4. CASE MLFQRelease(c)
    BY <1>2, <2>4 DEF MLFQRelease, SchedType
  <2>5. CASE MLFQSwitchBack(c)
    <3>1. curproc[c] \in Slots
      BY <2>5 DEF MLFQSwitchBack, SwitchBack, TypeOK
    <3>2. QueueType'
      BY <1>3, <2>5, <3>1, AfterRunFacts DEF MLFQSwitchBack, SchedType
    <3> QED
      BY <2>5, <3>2 DEF MLFQSwitchBack, SchedType
  <2> QED
    BY <1>6, <2>1, <2>2, <2>3, <2>4, <2>5 DEF SchedulerStep
<1>7. ASSUME NEW c \in CPUs, MLFQProcess(c) PROVE SchedType'
  <2>1. CASE MLFQForkPublish(c)
    <3>1. PICK q \in Slots : q = np[curproc[c]]
      BY <2>1 DEF MLFQForkPublish, ForkPublish, Executing, NpOwned, ForkPCs, TypeOK
    <3>2. AppendAt(queue, MAXPRIORITY, q) \in Queues
      BY <1>5, AppendEntry DEF Levels
    <3>3. /\ queue' = AppendAt(queue, MAXPRIORITY, q)
          /\ priority' = [priority EXCEPT ![q] = MAXPRIORITY]
          /\ budget' = [budget EXCEPT ![q] = DEFAULT_BUDGET]
      BY <2>1, <3>1 DEF MLFQForkPublish, Becomes
    <3>4. priority' \in [Slots -> Levels] /\ budget' \in [Slots -> Nat]
      BY <1>5, <3>3 DEF Levels
    <3> QED
      BY <2>1, <3>2, <3>3, <3>4 DEF MLFQForkPublish, SchedType, QueueType, QueueState, QueueStates
  <2>2. CASE MLFQExitFinish(c)
    <3>1. queue' \in Queues
      BY <1>5, <2>2, WakeQueuesFacts DEF MLFQExitFinish, SchedType
    <3> QED
      BY <1>4, <2>2, <3>1 DEF MLFQExitFinish, SchedType
  <2>3. CASE MLFQTimerTrap(c)
    <3>1. queue' \in Queues
      BY <1>5, <2>3, WakeQueuesFacts DEF MLFQTimerTrap, SchedType
    <3>2. promoteIn' \in Nat /\ elapsed' \in [CPUs -> Nat]
      BY <2>3 DEF MLFQTimerTrap, SchedType
    <3> QED
      BY <1>4, <2>3, <3>1, <3>2 DEF MLFQTimerTrap, SchedType
  <2>4. CASE MLFQUnchanged(c)
    BY <1>2, <2>4 DEF MLFQUnchanged, SchedType
  <2>5. ASSUME NEW k \in PriorityPids, NEW pr \in Levels, SysSetPriority(c, k, pr)
        PROVE  SchedType'
    <3>1. QueueType'
      BY <1>3, <2>5, SetPriorityFacts DEF SysSetPriority, SchedType, QueueType, QueueState
    <3> QED
      BY <2>5, <3>1 DEF SysSetPriority, SchedType
  <2> QED
    BY <1>7, <2>1, <2>2, <2>3, <2>4, <2>5 DEF MLFQProcess
<1> QED
  BY <1>1, <1>6, <1>7 DEF MLFQNext

LEMMA WaitingQueuedStep ==
  ASSUME TypeOK, NpOwned, SchedType, WaitingQueued, [MLFQNext]_mlfqVars PROVE WaitingQueued'
<1>1. CASE UNCHANGED mlfqVars
  BY <1>1 DEF mlfqVars, procVars, WaitingQueued, OffCpu, Queued
<1>2. queue \in Queues /\ QueueType
  BY DEF SchedType, QueueType, QueueState, QueueStates
<1>3. ASSUME KeepsAllBut({}, queue, queue'), \A p \in Slots : Stays(p) \/ Queued(queue', p)
      PROVE  WaitingQueued'
  <2> SUFFICES ASSUME NEW p \in Slots, state'[p] \in {"RUNNABLE", "SLEEPING"}, OffCpu(p)'
               PROVE  Queued(queue', p) \/ (p = Initproc /\ resume'[p] = "forkret")
    BY DEF WaitingQueued, Queued
  <2>1. CASE Stays(p)
    BY <1>3, <2>1 DEF Stays, WaitingQueued, KeepsAllBut
  <2> QED
    BY <1>3, <2>1
<1>4. ASSUME queue' = queue PROVE KeepsAllBut({}, queue, queue')
  BY <1>4 DEF KeepsAllBut
<1>5. ASSUME NEW c \in CPUs, SchedulerStep(c) PROVE WaitingQueued'
  <2>1. CASE MLFQAcquire(c)
    <3>1. KeepsAllBut({}, queue, queue')
      BY <1>2, <1>4, <2>1, PromotionFacts DEF MLFQAcquire, Becomes, queueVars
    <3>2. \A p \in Slots : Stays(p)
      BY <2>1 DEF MLFQAcquire, SchedAcquire, Stays, OffCpu
    <3> QED
      BY <1>3, <3>1, <3>2
  <2>2. CASE MLFQDispatch(c)
    <3>1. PICK k \in RunnableEntries(c), p \in Slots :
            /\ queue' = [queue EXCEPT ![pos[c].lvl] = Without(queue[pos[c].lvl], k)]
            /\ p = queue[pos[c].lvl][k] /\ Dispatch(c, p)
      BY <2>2, ZenonT(60) DEF MLFQDispatch
    <3>2. pos[c].lvl \in Levels /\ k \in 1 .. Len(queue[pos[c].lvl])
      BY <1>2, <2>2 DEF MLFQDispatch, RunnableEntries, SchedType, Queues
    <3>3. KeepsAllBut({p}, queue, queue')
      BY <1>2, <3>1, <3>2, RemoveEntry
    <3>4. ~OffCpu(p)'
      BY <3>1 DEF Dispatch, OffCpu, TypeOK
    <3>5. ASSUME NEW r \in Slots, r # p, OffCpu(r)' PROVE OffCpu(r) /\ state'[r] = state[r] /\ resume' = resume
      BY <3>1, <3>5 DEF Dispatch, OffCpu, TypeOK, NoProc, Slots
    <3> SUFFICES ASSUME NEW r \in Slots, state'[r] \in {"RUNNABLE", "SLEEPING"}, OffCpu(r)'
                 PROVE  Queued(queue', r) \/ (r = Initproc /\ resume'[r] = "forkret")
      BY DEF WaitingQueued, Queued
    <3>6. r # p
      BY <3>4
    <3> QED
      BY <3>3, <3>5, <3>6 DEF WaitingQueued, KeepsAllBut
  <2>3. CASE MLFQNextLevel(c)
    <3>1. \A p \in Slots : Stays(p)
      BY <2>3 DEF MLFQNextLevel, procVars, Stays, OffCpu
    <3> QED
      BY <1>3, <1>4, <2>3, <3>1 DEF MLFQNextLevel, queueVars
  <2>4. CASE MLFQRelease(c)
    <3>1. \A p \in Slots : Stays(p)
      BY <2>4 DEF MLFQRelease, SchedRelease, Stays, OffCpu
    <3> QED
      BY <1>3, <1>4, <2>4, <3>1 DEF MLFQRelease, queueVars
  <2>5. CASE MLFQSwitchBack(c)
    <3>1. PICK p \in Slots : p = curproc[c]
      BY <2>5 DEF MLFQSwitchBack, SwitchBack, TypeOK
    <3>2. KeepsAllBut({}, queue, queue') /\ Queued(queue', p)
      BY <1>2, <2>5, <3>1, AfterRunFacts DEF MLFQSwitchBack, Becomes, SchedType
    <3>3. \A r \in Slots : r # p => Stays(r)
      BY <2>5, <3>1 DEF MLFQSwitchBack, SwitchBack, Stays, OffCpu, TypeOK
    <3> QED
      BY <1>3, <3>2, <3>3
  <2> QED
    BY <1>5, <2>1, <2>2, <2>3, <2>4, <2>5 DEF SchedulerStep
<1>6. ASSUME NEW c \in CPUs, MLFQProcess(c) PROVE WaitingQueued'
  <2>1. CASE MLFQForkPublish(c)
    <3>1. PICK q \in Slots : q = np[curproc[c]]
      BY <2>1 DEF MLFQForkPublish, ForkPublish, Executing, NpOwned, ForkPCs, TypeOK
    <3>2. KeepsAllBut({}, queue, queue') /\ Queued(queue', q)
      BY <1>2, <2>1, <3>1, AppendEntry DEF MLFQForkPublish, Becomes, Levels
    <3>3. \A r \in Slots : r # q => Stays(r)
      BY <2>1, <3>1 DEF MLFQForkPublish, ForkPublish, Stays, OffCpu, TypeOK
    <3> QED
      BY <1>3, <3>2, <3>3
  <2>2. CASE MLFQExitFinish(c)
    <3>1. KeepsAllBut({}, queue, queue')
      <4> DEFINE first == Woken(parent[curproc[c]])
                 q1 == WakeQueues(queue, first)
      <4>1. q1 \in Queues /\ KeepsAllBut({}, queue, q1)
        BY <1>2, WakeQueuesFacts
      <4>2. queue' = WakeQueues(q1, ExitWakes(curproc[c]) \ first)
        BY <2>2 DEF MLFQExitFinish
      <4> HIDE DEF q1, first
      <4>3. KeepsAllBut({}, q1, queue')
        BY <1>2, <4>1, <4>2, WakeQueuesFacts
      <4> QED
        BY <4>1, <4>3 DEF KeepsAllBut
    <3> QED
      BY <1>3, <2>2, <3>1, ProcessStays DEF MLFQExitFinish
  <2>3. CASE MLFQTimerTrap(c)
    <3>1. KeepsAllBut({}, queue, queue')
      BY <1>2, <1>4, <2>3, WakeQueuesFacts DEF MLFQTimerTrap
    <3> QED
      BY <1>3, <2>3, <3>1, ProcessStays DEF MLFQTimerTrap
  <2>4. CASE MLFQUnchanged(c)
    <3>1. \A p \in Slots : Stays(p)
      BY <2>4, ProcessStays DEF MLFQUnchanged
    <3> QED
      BY <1>3, <1>4, <2>4, <3>1 DEF MLFQUnchanged, queueVars
  <2>5. ASSUME NEW k \in PriorityPids, NEW pr \in Levels, SysSetPriority(c, k, pr)
        PROVE  WaitingQueued'
    <3>1. \A p \in Slots : Stays(p)
      BY <2>5 DEF SysSetPriority, procVars, Stays, OffCpu
    <3>2. queue' = queue
      BY <1>2, <2>5, SetPriorityFacts DEF SysSetPriority, Becomes, QueueType, QueueState
    <3> QED
      BY <1>3, <1>4, <3>1, <3>2
  <2> QED
    BY <1>6, <2>1, <2>2, <2>3, <2>4, <2>5 DEF MLFQProcess
<1> QED
  BY <1>1, <1>5, <1>6 DEF MLFQNext

\* No process is lost by the queues, however often setpriority(), kill() and the
\* promotion leave an entry at the wrong level or twice.
THEOREM MLFQLosesNobody == MLFQSpec => []RunnableQueued
<1>1. MLFQInit => SchedType /\ WaitingQueued
  <2>1. MLFQInit => WaitingQueued
    BY DEF MLFQInit, Init, WaitingQueued
  <2> QED
    BY <2>1, SchedTypeInit
<1>2. TypeOK /\ NpOwned /\ SchedType /\ WaitingQueued /\ [MLFQNext]_mlfqVars
        => (SchedType /\ WaitingQueued)'
  BY SchedTypeStep, WaitingQueuedStep
<1>3. TypeOK /\ OneCpuPerProcess /\ SchedType /\ WaitingQueued => RunnableQueued
  <2> SUFFICES ASSUME TypeOK, OneCpuPerProcess, SchedType, WaitingQueued, ptlock = NoCpu,
                      NEW p \in Slots, state[p] = "RUNNABLE"
               PROVE  \/ \E l \in Levels : IndicesOf(p, queue[l]) # {}
                      \/ p = Initproc /\ resume[p] = "forkret"
    BY DEF RunnableQueued
  <2>1. OffCpu(p)
    <3> SUFFICES ASSUME NEW c \in CPUs, curproc[c] = p PROVE FALSE
      BY DEF OffCpu
    <3>1. p # NoProc /\ ptlock # c
      BY Constants
    <3> QED
      BY <3>1 DEF OneCpuPerProcess
  <2>2. Queued(queue, p) \/ (p = Initproc /\ resume[p] = "forkret")
    BY <2>1 DEF WaitingQueued
  <2> QED
    BY <2>2 DEF Queued, IndicesOf
<1> QED
  BY <1>1, <1>2, <1>3, MLFQImplements, TypeCorrect, Exclusion, PTL DEF MLFQSpec

-----------------------------------------------------------------------------
(* What happens to priorities and budgets.                                  *)

\* A slot keeps its priority and budget, or gets a full budget.
Topped(q1, q2) ==
  \A r \in Slots :
    \/ q2.budget[r] = DEFAULT_BUDGET
    \/ q2.priority[r] = q1.priority[r] /\ q2.budget[r] = q1.budget[r]

\* setpriority() in the first slot with that pid, and nowhere else.
LEMMA SetPriorityValues ==
  ASSUME NEW qs \in QueueStates, NEW k, NEW pr \in Levels, NEW r \in Slots
  PROVE  IF FirstSlot(r, {s \in Slots : pid[s] = k})
         THEN SetPriority(qs, k, pr).priority[r] = pr /\ SetPriority(qs, k, pr).budget[r] = DEFAULT_BUDGET
         ELSE /\ SetPriority(qs, k, pr).priority[r] = qs.priority[r]
              /\ SetPriority(qs, k, pr).budget[r] = qs.budget[r]
<1> DEFINE hit(q) == FirstSlot(q, {s \in Slots : pid[s] = k})
           up == [q \in Slots |-> IF hit(q) THEN pr ELSE qs.priority[q]]
           left == [q \in Slots |-> IF hit(q) THEN DEFAULT_BUDGET ELSE qs.budget[q]]
<1>1. SetPriority(qs, k, pr) = [qs EXCEPT !.priority = up, !.budget = left]
  BY DEF SetPriority
<1>2. SetPriority(qs, k, pr).priority = up /\ SetPriority(qs, k, pr).budget = left
  <2> HIDE DEF up, left
  <2> QED
    BY <1>1 DEF QueueStates
<1> HIDE DEF hit
<1>3. IF hit(r) THEN up[r] = pr /\ left[r] = DEFAULT_BUDGET
                ELSE up[r] = qs.priority[r] /\ left[r] = qs.budget[r]
  OBVIOUS
<1> HIDE DEF up, left
<1> QED
  BY <1>2, <1>3 DEF hit

LEMMA SetPriorityTops ==
  ASSUME NEW qs \in QueueStates, NEW k, NEW pr
  PROVE  Topped(qs, SetPriority(qs, k, pr))
<1>1. CASE pr \notin Levels
  BY <1>1 DEF SetPriority, Topped
<1>2. CASE pr \in Levels
  <2> SUFFICES ASSUME NEW r \in Slots
               PROVE  \/ SetPriority(qs, k, pr).budget[r] = DEFAULT_BUDGET
                      \/ /\ SetPriority(qs, k, pr).priority[r] = qs.priority[r]
                         /\ SetPriority(qs, k, pr).budget[r] = qs.budget[r]
    BY DEF Topped
  <2> DEFINE h == FirstSlot(r, {s \in Slots : pid[s] = k})
  <2>1. IF h THEN /\ SetPriority(qs, k, pr).priority[r] = pr
                  /\ SetPriority(qs, k, pr).budget[r] = DEFAULT_BUDGET
             ELSE /\ SetPriority(qs, k, pr).priority[r] = qs.priority[r]
                  /\ SetPriority(qs, k, pr).budget[r] = qs.budget[r]
    BY <1>2, SetPriorityValues
  <2> HIDE DEF h
  <2> QED
    BY <2>1
<1> QED
  BY <1>1, <1>2

\* One turn of the promotion loop, also where the slot has no pid of its own.
LEMMA PromoteSlotTops ==
  ASSUME NEW qs \in QueueStates, NEW p \in Slots
  PROVE  Topped(qs, PromoteSlot(qs, p))
<1>1. CASE state[p] = "ZOMBIE" \/ qs.priority[p] >= MAXPRIORITY
  BY <1>1 DEF PromoteSlot, Topped
<1>2. CASE ~(state[p] = "ZOMBIE" \/ qs.priority[p] >= MAXPRIORITY)
  <2> DEFINE l == qs.priority[p]
             q1 == [qs.queue EXCEPT ![l] = DeleteFirst(p, qs.queue[l])]
             cut == [qs EXCEPT !.queue = q1]
             up == SetPriority(cut, pid[p], l + 1)
             q2 == AppendAt(up.queue, up.priority[p], p)
  <2>1. l \in Levels /\ qs.queue \in Queues
    BY DEF QueueStates
  <2>2. PromoteSlot(qs, p) = [up EXCEPT !.budget[p] = DEFAULT_BUDGET, !.queue = q2]
    <3>1. [qs EXCEPT !.queue[l] = DeleteFirst(p, @)] = cut
      BY DEF QueueStates
    <3> QED
      BY <1>2, <3>1 DEF PromoteSlot
  <2>3. q1 \in Queues
    BY <2>1, DeleteEntry
  <2>4. cut \in QueueStates /\ cut.priority = qs.priority /\ cut.budget = qs.budget
    <3> HIDE DEF q1
    <3> QED
      BY <2>3 DEF QueueStates
  <2>5. up \in QueueStates /\ Topped(cut, up)
    <3> HIDE DEF cut, q1
    <3> QED
      BY <2>4, SetPriorityFacts, SetPriorityTops
  <2> HIDE DEF up, q1, cut, q2
  <2>6. /\ PromoteSlot(qs, p).priority = up.priority
        /\ PromoteSlot(qs, p).budget = [up.budget EXCEPT ![p] = DEFAULT_BUDGET]
    BY <2>2, <2>5 DEF QueueStates
  <2>7. up.budget \in [Slots -> Nat]
    BY <2>5 DEF QueueStates
  <2> QED
    BY <2>4, <2>5, <2>6, <2>7 DEF Topped
<1> QED
  BY <1>1, <1>2

\* The promotion.
LEMMA PromotionTops ==
  ASSUME QueueType PROVE Topped(QueueState, Promotion)
<1>1. \A n \in 1 .. NPROC : n - 1 \in Slots
  BY DEF Slots
<1>2. PICK a : /\ a = [i \in 0 .. NPROC |-> IF i = 0 THEN QueueState ELSE PromoteSlot(a[i - 1], i - 1)]
               /\ Promotion = a[NPROC]
  BY PromotionLoop
<1> DEFINE T == {i \in 0 .. NPROC : a[i] \in QueueStates /\ Topped(QueueState, a[i])}
<1>3. 0 \in T
  <2>1. a[0] = QueueState
    BY <1>2
  <2> QED
    BY <2>1 DEF QueueType, Topped
<1>4. ASSUME NEW i \in 1 .. NPROC, i - 1 \in T PROVE i \in T
  <2>1. a[i] = PromoteSlot(a[i - 1], i - 1)
    BY <1>2
  <2>2. a[i - 1] \in QueueStates /\ Topped(QueueState, a[i - 1])
    BY <1>4
  <2>3. a[i] \in QueueStates /\ Topped(a[i - 1], a[i])
    BY <1>1, <2>1, <2>2, PromoteSlotFacts, PromoteSlotTops
  <2>4. Topped(QueueState, a[i])
    BY <2>2, <2>3 DEF Topped
  <2> QED
    BY <2>3, <2>4
<1>5. \A i \in 1 .. NPROC : i - 1 \in T => i \in T
  BY <1>4
<1>6. NPROC \in T
  <2> HIDE DEF T
  <2>1. \A i \in 0 .. NPROC : i \in T
    BY <1>3, <1>5, Upwards
  <2> QED
    BY <2>1
<1> QED
  BY <1>2, <1>6

\* A slot hit by its own pid is hit alone.
LEMMA OwnPid ==
  ASSUME TypeOK, PidsUnique, NEW p \in Slots, pid[p] # 0, NEW r \in Slots
  PROVE  FirstSlot(r, {s \in Slots : pid[s] = pid[p]}) <=> r = p
<1>1. {s \in Slots : pid[s] = pid[p]} = {p}
  BY DEF PidsUnique
<1>2. p <= p
  BY Constants
<1> QED
  BY <1>1, <1>2 DEF FirstSlot

\* The charge after a run: what is left of the budget, or the level below with a
\* full one.
LEMMA AfterRunValues ==
  ASSUME TypeOK, PidsUnique, QueueType, NEW c \in CPUs, NEW p \in Slots, elapsed[c] \in Nat,
         pid[p] # 0
  PROVE  /\ \A r \in Slots : r # p => /\ AfterRun(c, p).priority[r] = priority[r]
                                      /\ AfterRun(c, p).budget[r] = budget[r]
         /\ IF budget[p] - elapsed[c] <= 0 /\ priority[p] > 0
            THEN /\ AfterRun(c, p).priority[p] = priority[p] - 1
                 /\ AfterRun(c, p).budget[p] = DEFAULT_BUDGET
            ELSE /\ AfterRun(c, p).priority[p] = priority[p]
                 /\ AfterRun(c, p).budget[p] = IF budget[p] - elapsed[c] > 0
                                               THEN budget[p] - elapsed[c] ELSE 0
<1> DEFINE left == budget[p] - elapsed[c]
           rest == IF left > 0 THEN left ELSE 0
           qs == [queue |-> queue, priority |-> priority, budget |-> [budget EXCEPT ![p] = rest]]
           down == IF left <= 0 /\ priority[p] > 0 THEN SetPriority(qs, pid[p], priority[p] - 1)
                   ELSE qs
           q2 == AppendAt(down.queue, down.priority[p], p)
<1>1. queue \in Queues /\ priority \in [Slots -> Levels] /\ budget \in [Slots -> Nat]
  BY DEF QueueType, QueueState, QueueStates
<1>2. rest \in Nat /\ left \in Int
  BY <1>1
<1>3. AfterRun(c, p) = [down EXCEPT !.queue = q2]
  BY DEF AfterRun
<1> HIDE DEF rest, left
<1>4. /\ qs \in QueueStates /\ qs.priority = priority /\ qs.budget[p] = rest
      /\ \A r \in Slots : r # p => qs.budget[r] = budget[r]
  BY <1>1, <1>2 DEF QueueStates
<1> HIDE DEF qs
<1>5. down \in QueueStates
  BY <1>4, SetPriorityFacts
<1>6. AfterRun(c, p).priority = down.priority /\ AfterRun(c, p).budget = down.budget
  <2> HIDE DEF down, q2
  <2> QED
    BY <1>3, <1>5 DEF QueueStates
<1>7. CASE left <= 0 /\ priority[p] > 0
  <2>1. priority[p] - 1 \in Levels
    BY <1>1, <1>7 DEF Levels
  <2>2. down = SetPriority(qs, pid[p], priority[p] - 1)
    BY <1>7
  <2> HIDE DEF down
  <2>3. down.priority[p] = priority[p] - 1 /\ down.budget[p] = DEFAULT_BUDGET
    <3>1. FirstSlot(p, {s \in Slots : pid[s] = pid[p]})
      BY OwnPid
    <3> QED
      BY <1>4, <2>1, <2>2, <3>1, SetPriorityValues
  <2>4. ASSUME NEW r \in Slots, r # p
        PROVE  down.priority[r] = priority[r] /\ down.budget[r] = budget[r]
    <3>1. ~FirstSlot(r, {s \in Slots : pid[s] = pid[p]})
      BY <2>4, OwnPid
    <3> QED
      BY <1>4, <2>1, <2>2, <2>4, <3>1, SetPriorityValues
  <2> QED
    BY <1>6, <1>7, <2>3, <2>4 DEF left
<1>8. CASE ~(left <= 0 /\ priority[p] > 0)
  <2>1. down = qs
    BY <1>8
  <2> HIDE DEF down
  <2> QED
    BY <1>4, <1>6, <1>8, <2>1 DEF left, rest
<1> QED
  BY <1>7, <1>8

-----------------------------------------------------------------------------
(* The feedback cannot be dodged.                                           *)

\* What a process has used at its level and what it has left make up one budget,
\* but for the ticks of its present run, charged when it leaves the CPU.
Charged ==
  /\ used \in [Slots -> Nat] /\ \A p \in Slots : used[p] <= DEFAULT_BUDGET /\ budget[p] <= DEFAULT_BUDGET
  /\ \A p \in Slots : priority[p] > 0 => budget[p] > 0
  /\ \A c \in CPUs : curproc[c] = NoProc => elapsed[c] = 0
  /\ \A p \in Slots : OffCpu(p) => used[p] + budget[p] <= DEFAULT_BUDGET
  /\ \A c \in CPUs : curproc[c] # NoProc =>
       used[curproc[c]] + budget[curproc[c]] <= DEFAULT_BUDGET + elapsed[c]

\* The step gives p a full budget, or leaves it its level, budget and use.
Kept(p) ==
  \/ used'[p] = 0 /\ budget'[p] = DEFAULT_BUDGET
  \/ priority'[p] = priority[p] /\ budget'[p] = budget[p] /\ used'[p] = used[p]

\* A step during which no tick passes.
LEMMA RecordKept ==
  ASSUME SchedType, Charged, Record, ~Ticked, NEW p \in Slots,
         \/ budget'[p] = DEFAULT_BUDGET
         \/ priority'[p] = priority[p] /\ budget'[p] = budget[p]
  PROVE  Kept(p)
<1>1. budget[p] \in Nat
  BY DEF SchedType, QueueType, QueueState, QueueStates
<1>2. used'[p] = IF priority'[p] # priority[p] \/ budget'[p] > budget[p] THEN 0 ELSE used[p]
  BY DEF Record
<1>3. budget[p] <= DEFAULT_BUDGET
  BY DEF Charged
<1>4. CASE priority'[p] = priority[p] /\ budget'[p] = budget[p]
  BY <1>1, <1>2, <1>4 DEF Kept
<1>5. CASE budget'[p] = DEFAULT_BUDGET /\ ~(priority'[p] = priority[p] /\ budget'[p] = budget[p])
  BY <1>1, <1>2, <1>3, <1>5 DEF Kept
<1> QED
  BY <1>4, <1>5

LEMMA UsedType ==
  ASSUME Charged, Record
  PROVE  used' \in [Slots -> Nat] /\ \A p \in Slots : used'[p] <= DEFAULT_BUDGET
<1>1. \A p \in Slots : used[p] \in Nat /\ used[p] <= DEFAULT_BUDGET
  BY DEF Charged
<1> QED
  BY <1>1 DEF Record

\* A step that moves no process on or off a CPU.
LEMMA QuietStep ==
  ASSUME TypeOK, SchedType, Charged, Record, UNCHANGED <<curproc, elapsed>>,
         \A p \in Slots : \/ budget'[p] = DEFAULT_BUDGET
                          \/ priority'[p] = priority[p] /\ budget'[p] = budget[p]
  PROVE  Charged'
<1>1. ~Ticked
  BY DEF Ticked
<1>2. \A p \in Slots : Kept(p)
  BY <1>1, RecordKept
<1>3. \A p \in Slots : budget[p] \in Nat /\ used[p] \in Nat
  BY DEF SchedType, QueueType, QueueState, QueueStates, Charged
<1>4. \A c \in CPUs : elapsed[c] \in Nat
  BY DEF SchedType
<1>5. /\ \A p \in Slots : budget'[p] <= DEFAULT_BUDGET
      /\ \A p \in Slots : priority'[p] > 0 => budget'[p] > 0
      /\ \A p \in Slots : OffCpu(p) => used'[p] + budget'[p] <= DEFAULT_BUDGET
  BY <1>2, <1>3 DEF Kept, Charged
<1>6. ASSUME NEW c \in CPUs, curproc[c] # NoProc
      PROVE  used'[curproc[c]] + budget'[curproc[c]] <= DEFAULT_BUDGET + elapsed[c]
  <2>1. PICK p \in Slots : p = curproc[c]
    BY <1>6 DEF TypeOK
  <2>2. used[p] + budget[p] <= DEFAULT_BUDGET + elapsed[c]
    BY <1>6, <2>1 DEF Charged
  <2>3. used'[p] + budget'[p] <= DEFAULT_BUDGET + elapsed[c]
    BY <1>2, <1>3, <1>4, <2>2 DEF Kept
  <2> QED
    BY <2>1, <2>3
<1>7. \A p \in Slots : OffCpu(p)' <=> OffCpu(p)
  BY DEF OffCpu
<1> QED
  BY <1>5, <1>6, <1>7, UsedType DEF Charged

\* A tick: it counts for whoever is on a CPU, in its use and in its run.
LEMMA TickStepCharged ==
  ASSUME TypeOK, OneCpuPerProcess, SchedType, Charged, Record, NEW c \in CPUs, MLFQTimerTrap(c)
  PROVE  Charged'
<1>1. curproc' = curproc /\ priority' = priority /\ budget' = budget
  BY DEF MLFQTimerTrap, TimerTrap
<1>2. CASE elapsed' = elapsed
  BY <1>1, <1>2, QuietStep
<1>3. CASE elapsed' # elapsed
  <2>1. elapsed' = [d \in CPUs |-> IF curproc[d] # NoProc /\ elapsed[d] < DEFAULT_BUDGET
                                   THEN elapsed[d] + 1 ELSE elapsed[d]]
    BY <1>3 DEF MLFQTimerTrap
  <2>2. \A p \in Slots : budget[p] \in Nat /\ used[p] \in Nat
    BY DEF SchedType, QueueType, QueueState, QueueStates, Charged
  <2>3. \A d \in CPUs : elapsed[d] \in Nat
    BY DEF SchedType
  <2>4. \A p \in Slots : used'[p] = IF OnCpu(p) /\ used[p] < DEFAULT_BUDGET THEN used[p] + 1 ELSE used[p]
    BY <1>1, <1>3, <2>2 DEF Record, Ticked
  <2>5. /\ \A p \in Slots : budget'[p] <= DEFAULT_BUDGET
        /\ \A p \in Slots : priority'[p] > 0 => budget'[p] > 0
    BY <1>1 DEF Charged
  <2>6. \A d \in CPUs : curproc'[d] = NoProc => elapsed'[d] = 0
    BY <1>1, <2>1 DEF Charged
  <2>7. ASSUME NEW p \in Slots, OffCpu(p)' PROVE used'[p] + budget'[p] <= DEFAULT_BUDGET
    <3>1. OffCpu(p) /\ ~OnCpu(p)
      BY <1>1, <2>7 DEF OffCpu, OnCpu
    <3> QED
      BY <1>1, <2>4, <3>1 DEF Charged
  <2>8. ASSUME NEW d \in CPUs, curproc'[d] # NoProc
        PROVE  used'[curproc'[d]] + budget'[curproc'[d]] <= DEFAULT_BUDGET + elapsed'[d]
    <3>1. PICK p \in Slots : p = curproc[d]
      BY <1>1, <2>8 DEF TypeOK
    <3>2. used[p] + budget[p] <= DEFAULT_BUDGET + elapsed[d]
      BY <1>1, <2>8, <3>1 DEF Charged
    <3>3. used'[p] \in Nat /\ used'[p] <= DEFAULT_BUDGET /\ budget[p] <= DEFAULT_BUDGET
      BY UsedType DEF Charged
    <3>4. used'[p] <= used[p] + 1
      BY <2>2, <2>4
    <3>5. elapsed'[d] = IF elapsed[d] < DEFAULT_BUDGET THEN elapsed[d] + 1 ELSE elapsed[d]
      BY <1>1, <2>1, <2>8
    <3>6. used'[p] + budget[p] <= DEFAULT_BUDGET + elapsed'[d]
      BY <2>2, <2>3, <3>2, <3>3, <3>4, <3>5
    <3> QED
      BY <1>1, <3>1, <3>6
  <2> QED
    BY <2>5, <2>6, <2>7, <2>8, UsedType DEF Charged
<1> QED
  BY <1>2, <1>3

\* A process that goes on a CPU starts a run of no ticks.
LEMMA DispatchCharged ==
  ASSUME TypeOK, OneCpuPerProcess, SchedType, Charged, Record, NEW c \in CPUs, NEW p \in Slots,
         Dispatch(c, p), UNCHANGED <<priority, budget, elapsed>>
  PROVE  Charged'
<1>1. curproc' = [curproc EXCEPT ![c] = p] /\ curproc[c] = NoProc /\ ptlock = c /\ state[p] = "RUNNABLE"
  BY DEF Dispatch
<1>2. OffCpu(p)
  BY <1>1, Constants DEF OffCpu, OneCpuPerProcess, TypeOK
<1>3. ~Ticked
  BY DEF Ticked
<1>4. \A r \in Slots : used'[r] = used[r]
  <2>1. \A r \in Slots : budget[r] \in Nat /\ used[r] \in Nat
    BY DEF SchedType, QueueType, QueueState, QueueStates, Charged
  <2> QED
    BY <1>3, <2>1 DEF Record
<1>5. elapsed[c] = 0 /\ used[p] + budget[p] <= DEFAULT_BUDGET
  BY <1>1, <1>2 DEF Charged
<1>6. \A d \in CPUs : curproc'[d] = NoProc => elapsed'[d] = 0
  BY <1>1, Constants DEF Charged, TypeOK
<1>7. ASSUME NEW r \in Slots, OffCpu(r)' PROVE used'[r] + budget'[r] <= DEFAULT_BUDGET
  <2>1. OffCpu(r)
    BY <1>1, <1>7, Constants DEF OffCpu, TypeOK
  <2> QED
    BY <1>4, <2>1 DEF Charged
<1>8. ASSUME NEW d \in CPUs, curproc'[d] # NoProc
      PROVE  used'[curproc'[d]] + budget'[curproc'[d]] <= DEFAULT_BUDGET + elapsed'[d]
  <2>1. CASE d = c
    <3>1. curproc'[d] = p
      BY <1>1, <2>1 DEF TypeOK
    <3>2. used[p] + budget[p] <= DEFAULT_BUDGET + elapsed[d]
      BY <1>5, <2>1
    <3> QED
      BY <1>4, <3>1, <3>2
  <2>2. CASE d # c
    <3>1. curproc'[d] = curproc[d]
      BY <1>1, <2>2 DEF TypeOK
    <3>2. curproc[d] \in Slots
      BY <1>8, <3>1 DEF TypeOK
    <3> QED
      BY <1>4, <1>8, <3>1, <3>2 DEF Charged
  <2> QED
    BY <2>1, <2>2
<1>9. \A r \in Slots : budget'[r] <= DEFAULT_BUDGET /\ (priority'[r] > 0 => budget'[r] > 0)
  BY DEF Charged
<1> QED
  BY <1>6, <1>7, <1>8, <1>9, UsedType DEF Charged

\* A process that leaves its CPU pays for the run, or is demoted.
LEMMA SwitchCharged ==
  ASSUME TypeOK, OneCpuPerProcess, PidsUnique, LivePids, SchedType, Charged, Record,
         NEW c \in CPUs, MLFQSwitchBack(c)
  PROVE  Charged'
<1>1. PICK p \in Slots : p = curproc[c]
  BY DEF MLFQSwitchBack, SwitchBack, TypeOK
<1>2. /\ curproc' = [curproc EXCEPT ![c] = NoProc] /\ elapsed' = [elapsed EXCEPT ![c] = 0]
      /\ priority' = AfterRun(c, p).priority /\ budget' = AfterRun(c, p).budget
  BY <1>1 DEF MLFQSwitchBack, SwitchBack, Becomes
<1>3. pid[p] # 0 /\ p # NoProc
  BY <1>1, Constants DEF LivePids
<1>4. \A r \in Slots : budget[r] \in Nat /\ used[r] \in Nat /\ priority[r] \in Nat
  BY DEF SchedType, QueueType, QueueState, QueueStates, Charged, Levels
<1>5. \A d \in CPUs : elapsed[d] \in Nat
  BY DEF SchedType
<1>6. ~Ticked
  <2>1. curproc'[c] # curproc[c]
    BY <1>1, <1>2, <1>3 DEF TypeOK
  <2> QED
    BY <2>1 DEF Ticked
<1>7. /\ \A r \in Slots : r # p => priority'[r] = priority[r] /\ budget'[r] = budget[r]
      /\ IF budget[p] - elapsed[c] <= 0 /\ priority[p] > 0
         THEN priority'[p] = priority[p] - 1 /\ budget'[p] = DEFAULT_BUDGET
         ELSE /\ priority'[p] = priority[p]
              /\ budget'[p] = IF budget[p] - elapsed[c] > 0 THEN budget[p] - elapsed[c] ELSE 0
  BY <1>2, <1>3, <1>5, AfterRunValues DEF SchedType
<1>8. \A r \in Slots : used'[r] = IF priority'[r] # priority[r] \/ budget'[r] > budget[r] THEN 0 ELSE used[r]
  BY <1>6 DEF Record
<1>9. \A r \in Slots : r # p => used'[r] = used[r]
  BY <1>4, <1>7, <1>8
<1>10. used[p] + budget[p] <= DEFAULT_BUDGET + elapsed[c] /\ used[p] <= DEFAULT_BUDGET
       /\ budget[p] <= DEFAULT_BUDGET /\ (priority[p] > 0 => budget[p] > 0)
  BY <1>1, <1>3 DEF Charged
<1>11. /\ budget'[p] <= DEFAULT_BUDGET /\ (priority'[p] > 0 => budget'[p] > 0)
       /\ used'[p] + budget'[p] <= DEFAULT_BUDGET
  <2>1. CASE budget[p] - elapsed[c] <= 0 /\ priority[p] > 0
    <3>1. priority'[p] = priority[p] - 1 /\ budget'[p] = DEFAULT_BUDGET
      BY <1>7, <2>1
    <3>2. used'[p] = 0
      BY <1>4, <1>8, <3>1
    <3> QED
      BY <3>1, <3>2
  <2>2. CASE ~(budget[p] - elapsed[c] <= 0 /\ priority[p] > 0)
    <3>1. /\ priority'[p] = priority[p]
          /\ budget'[p] = IF budget[p] - elapsed[c] > 0 THEN budget[p] - elapsed[c] ELSE 0
      BY <1>7, <2>2
    <3>2. ~(budget'[p] > budget[p])
      BY <1>4, <1>5, <3>1
    <3>3. used'[p] = used[p]
      BY <1>8, <3>1, <3>2
    <3> QED
      BY <1>4, <1>5, <1>10, <2>2, <3>1, <3>3
  <2> QED
    BY <2>1, <2>2
<1>12. \A d \in CPUs : d # c => curproc[d] # p
  BY <1>1, <1>3 DEF OneCpuPerProcess
<1>13. \A r \in Slots : budget'[r] <= DEFAULT_BUDGET /\ (priority'[r] > 0 => budget'[r] > 0)
  <2> SUFFICES ASSUME NEW r \in Slots
               PROVE  budget'[r] <= DEFAULT_BUDGET /\ (priority'[r] > 0 => budget'[r] > 0)
    OBVIOUS
  <2>1. CASE r = p
    BY <1>11, <2>1
  <2>2. CASE r # p
    BY <1>7, <2>2 DEF Charged
  <2> QED
    BY <2>1, <2>2
<1>14. \A d \in CPUs : curproc'[d] = NoProc => elapsed'[d] = 0
  BY <1>2 DEF Charged, TypeOK, SchedType
<1>15. ASSUME NEW r \in Slots, OffCpu(r)' PROVE used'[r] + budget'[r] <= DEFAULT_BUDGET
  <2>1. CASE r = p
    BY <1>11, <2>1
  <2>2. CASE r # p
    <3>1. OffCpu(r)
      BY <1>1, <1>2, <1>15, <2>2 DEF OffCpu, TypeOK
    <3> QED
      BY <1>7, <1>9, <2>2, <3>1 DEF Charged
  <2> QED
    BY <2>1, <2>2
<1>16. ASSUME NEW d \in CPUs, curproc'[d] # NoProc
       PROVE  used'[curproc'[d]] + budget'[curproc'[d]] <= DEFAULT_BUDGET + elapsed'[d]
  <2>1. d # c /\ curproc'[d] = curproc[d] /\ elapsed'[d] = elapsed[d]
    BY <1>2, <1>16 DEF TypeOK, SchedType
  <2>2. curproc[d] \in Slots /\ curproc[d] # p /\ curproc[d] # NoProc
    BY <1>12, <1>16, <2>1 DEF TypeOK
  <2> QED
    BY <1>7, <1>9, <2>1, <2>2 DEF Charged
<1> QED
  BY <1>13, <1>14, <1>15, <1>16, UsedType DEF Charged

LEMMA ChargedStep ==
  ASSUME TypeOK, OneCpuPerProcess, NpOwned, PidsUnique, LivePids, SchedType, Charged,
         [HNext]_hVars
  PROVE  Charged'
<1>1. CASE UNCHANGED hVars
  BY <1>1 DEF hVars, mlfqVars, procVars, Charged, OffCpu
<1>2. ASSUME Record, UNCHANGED <<curproc, elapsed, priority, budget>> PROVE Charged'
  BY <1>2, QuietStep
<1>3. ASSUME Record, UNCHANGED <<curproc, elapsed>>, NEW qs, Becomes(qs), Topped(QueueState, qs)
      PROVE  Charged'
  BY <1>3, QuietStep DEF Becomes, Topped, QueueState
<1>4. QueueType
  BY DEF SchedType
<1>5. ASSUME NEW c \in CPUs, SchedulerStep(c), Record PROVE Charged'
  <2>1. CASE MLFQAcquire(c)
    <3>1. UNCHANGED <<curproc, elapsed>>
      BY <2>1 DEF MLFQAcquire, SchedAcquire
    <3>2. CASE promoteIn = 0
      BY <1>3, <1>4, <1>5, <2>1, <3>1, <3>2, PromotionTops DEF MLFQAcquire
    <3>3. CASE promoteIn # 0
      BY <1>2, <1>5, <2>1, <3>1, <3>3 DEF MLFQAcquire, queueVars
    <3> QED
      BY <3>2, <3>3
  <2>2. CASE MLFQDispatch(c)
    <3>1. PICK p \in Slots : Dispatch(c, p)
      BY <2>2 DEF MLFQDispatch
    <3>2. UNCHANGED <<priority, budget, elapsed>>
      BY <2>2 DEF MLFQDispatch
    <3> QED
      BY <1>5, <3>1, <3>2, DispatchCharged
  <2>3. CASE MLFQNextLevel(c)
    BY <1>2, <1>5, <2>3 DEF MLFQNextLevel, procVars, queueVars
  <2>4. CASE MLFQRelease(c)
    BY <1>2, <1>5, <2>4 DEF MLFQRelease, SchedRelease, queueVars
  <2>5. CASE MLFQSwitchBack(c)
    BY <1>5, <2>5, SwitchCharged
  <2> QED
    BY <1>5, <2>1, <2>2, <2>3, <2>4, <2>5 DEF SchedulerStep
<1>6. ASSUME NEW c \in CPUs, MLFQProcess(c), Record PROVE Charged'
  <2>1. CASE MLFQForkPublish(c)
    <3>1. PICK q \in Slots : q = np[curproc[c]]
      BY <2>1 DEF MLFQForkPublish, ForkPublish, Executing, NpOwned, ForkPCs, TypeOK
    <3>2. /\ priority' = [priority EXCEPT ![q] = MAXPRIORITY]
          /\ budget' = [budget EXCEPT ![q] = DEFAULT_BUDGET]
          /\ UNCHANGED <<curproc, elapsed>>
      BY <2>1, <3>1 DEF MLFQForkPublish, ForkPublish, Becomes
    <3>3. priority \in [Slots -> Levels] /\ budget \in [Slots -> Nat]
      BY <1>4 DEF QueueType, QueueState, QueueStates
    <3>4. \A p \in Slots : \/ budget'[p] = DEFAULT_BUDGET
                           \/ priority'[p] = priority[p] /\ budget'[p] = budget[p]
      BY <3>2, <3>3
    <3> QED
      BY <1>6, <3>2, <3>4, QuietStep
  <2>2. CASE MLFQExitFinish(c)
    BY <1>2, <1>6, <2>2 DEF MLFQExitFinish, ExitFinish
  <2>3. CASE MLFQTimerTrap(c)
    BY <1>6, <2>3, TickStepCharged
  <2>4. CASE MLFQUnchanged(c)
    <3>1. UNCHANGED curproc
      BY <2>4 DEF MLFQUnchanged, ReturnFromSwitch, ForkAlloc, ForkKalloc, ForkCopyuvm, ExitCall,
             Wait, TrapExit, TrapYield, SleepStep, SysSleep, SleepTicks, SleepReturn,
             SleepRecheck, Kill
    <3> QED
      BY <1>2, <1>6, <2>4, <3>1 DEF MLFQUnchanged, queueVars
  <2>5. ASSUME NEW k \in PriorityPids, NEW pr \in Levels, SysSetPriority(c, k, pr)
        PROVE  Charged'
    <3>1. Becomes(SetPriority(QueueState, k, pr)) /\ UNCHANGED <<curproc, elapsed>>
      BY <2>5 DEF SysSetPriority, QueueState, procVars
    <3>2. Topped(QueueState, SetPriority(QueueState, k, pr))
      BY <1>4, SetPriorityTops DEF QueueType
    <3> QED
      BY <1>3, <1>6, <3>1, <3>2
  <2> QED
    BY <1>6, <2>1, <2>2, <2>3, <2>4, <2>5 DEF MLFQProcess
<1> QED
  BY <1>1, <1>5, <1>6 DEF HNext, MLFQNext

\* The charge in scheduler() works for every number of levels, budget and length of
\* run: no process off the CPU above the lowest level has used up its budget there.
THEOREM FeedbackHolds == HSpec => []BudgetLimitsLevel
<1>1. HInit => MLFQInit /\ SchedType /\ Charged
  <2> SUFFICES ASSUME HInit PROVE SchedType /\ Charged
    BY DEF HInit
  <2>1. SchedType
    BY SchedTypeInit DEF HInit
  <2>2. Charged
    BY Constants DEF HInit, MLFQInit, Init, Charged
  <2> QED
    BY <2>1, <2>2
<1>2. [HNext]_hVars => [MLFQNext]_mlfqVars
  BY DEF HNext, hVars
<1>3. HSpec => MLFQSpec
  BY <1>1, <1>2, PTL DEF HSpec, MLFQSpec
<1>4. TypeOK /\ OneCpuPerProcess /\ NpOwned /\ PidsUnique /\ LivePids
        /\ SchedType /\ Charged /\ [HNext]_hVars => (SchedType /\ Charged)'
  BY <1>2, SchedTypeStep, ChargedStep
<1>5. SchedType /\ Charged => BudgetLimitsLevel
  <2> SUFFICES ASSUME SchedType, Charged, NEW p \in Slots, ~OnCpu(p), priority[p] > 0
               PROVE  used[p] < DEFAULT_BUDGET
    BY DEF BudgetLimitsLevel
  <2>1. budget[p] \in Nat /\ used[p] \in Nat
    BY DEF SchedType, QueueType, QueueState, QueueStates, Charged
  <2>2. used[p] + budget[p] <= DEFAULT_BUDGET /\ budget[p] > 0
    BY DEF Charged, OnCpu, OffCpu
  <2> QED
    BY <2>1, <2>2
<1> QED
  BY <1>1, <1>3, <1>4, <1>5, MLFQImplements, TypeCorrect, Exclusion, PidUniqueness, PidsOnCpu,
     PTL DEF HSpec
=============================================================================
