--------------------------- MODULE RoundRobinHistory ---------------------------
(* RoundRobin with a history of who was run while others waited.               *)
EXTENDS RoundRobin

VARIABLE overtaken   \* for each RUNNABLE slot, the runs <<cpu, slot>> since it is

hVars == <<rrVars, overtaken>>

HInit == RRInit /\ overtaken = [p \in Slots |-> {}]

\* The runs a step starts.
Started == {r \in CPUs \X Slots : curproc[r[1]] = NoProc /\ curproc'[r[1]] = r[2]}

Record ==
  overtaken' = [p \in Slots |-> IF state[p] = "RUNNABLE" /\ state'[p] = "RUNNABLE"
                                THEN overtaken[p] \cup Started ELSE {}]

HNext == RRNext /\ Record

HSpec == HInit /\ [][HNext]_hVars

\* Bounded waiting: while a process is RUNNABLE, no CPU runs another process
\* twice, so with NPROC slots it waits for at most NCPU * (NPROC - 1) runs; the
\* walks of the CPUs interleave freely.
BoundedOvertaking ==
  [][\A p \in Slots : state[p] = "RUNNABLE" /\ state'[p] = "RUNNABLE" =>
       Started \cap overtaken[p] = {}]_hVars
=============================================================================
