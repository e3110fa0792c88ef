----------------------------- MODULE MLFQHistory -----------------------------
(* MLFQ with a history of the time each process spent at its level.          *)
EXTENDS MLFQ

VARIABLE used     \* ticks on a CPU since the last new level or larger budget

hVars == <<mlfqVars, used>>

HInit == MLFQInit /\ used = [p \in Slots |-> 0]

OnCpu(p) == \E c \in CPUs : curproc[c] = p
Ticked == elapsed' # elapsed /\ curproc' = curproc

Record ==
  used' = [p \in Slots |->
            IF priority'[p] # priority[p] \/ budget'[p] > budget[p] THEN 0
            ELSE IF OnCpu(p) /\ Ticked /\ used[p] < DEFAULT_BUDGET THEN used[p] + 1 ELSE used[p]]

HNext == MLFQNext /\ Record

HSpec == HInit /\ [][HNext]_hVars
HFairSpec == HSpec /\ MLFQFairness

\* The feedback cannot be dodged: above the lowest level nobody who is off the
\* CPU has been charged DEFAULT_BUDGET ticks there, in one run or in many with
\* sleeps, waits, kills and promotions of others between them.
BudgetLimitsLevel ==
  \A p \in Slots :
    state[p] \in {"RUNNABLE", "SLEEPING"} /\ ~OnCpu(p) /\ priority[p] > 0 =>
      used[p] < DEFAULT_BUDGET
=============================================================================
