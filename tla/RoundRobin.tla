------------------------------ MODULE RoundRobin ------------------------------
(***************************************************************************)
(* The scheduling policy of lab-2/proc_original.c on top of the process    *)
(* table: each CPU walks over ptable.proc, runs every RUNNABLE entry it    *)
(* meets, goes on with the next entry when that process comes back, and    *)
(* lets ptable.lock go at the end of the table.                            *)
(***************************************************************************)
EXTENDS ProcTable

VARIABLE scan          \* scheduler()'s local variable p: next slot to look at

rrVars == <<procVars, scan>>

RRInit == Init /\ scan = [c \in CPUs |-> 0]

RRAcquire(c) == SchedAcquire(c) /\ scan' = [scan EXCEPT ![c] = 0]

RunnableFrom(i) == {q \in Slots : q >= i /\ state[q] = "RUNNABLE"}

\* Faulty variant: the walk restarts at the top of the table after each run.
RRDispatchFromTop(c, p) ==
  /\ FirstSlot(p, RunnableFrom(0))
  /\ Dispatch(c, p)
  /\ scan' = [scan EXCEPT ![c] = 0]

\* Nothing RUNNABLE is passed over; the loop's p++ follows the return of swtch().
RRDispatch(c, p) ==
  /\ FirstSlot(p, RunnableFrom(scan[c]))
  /\ Dispatch(c, p)
  /\ scan' = [scan EXCEPT ![c] = p + 1]

RRRelease(c) == RunnableFrom(scan[c]) = {} /\ SchedRelease(c) /\ UNCHANGED scan

RRSwitchBack(c) == SwitchBack(c) /\ UNCHANGED scan

RRProcess(c) == ProcessStep(c) /\ UNCHANGED scan

RRSchedulerStep(c) ==
  \/ RRAcquire(c) \/ RRRelease(c) \/ RRSwitchBack(c)
  \/ \E p \in Slots : RRDispatch(c, p)

RRNext == \E c \in CPUs : RRSchedulerStep(c) \/ RRProcess(c)

-----------------------------------------------------------------------------
(* Fairness, for one CPU: acquire() spins on xchg without any queueing, so   *)
(* nothing in the code makes the lock fair between CPUs.                     *)

RRFairness ==
  \A c \in CPUs :
    /\ WF_rrVars(RRSchedulerStep(c))
    /\ WF_rrVars(Uninterrupted(c) /\ UNCHANGED scan)
    /\ SF_rrVars(TimerTrap(c) /\ UNCHANGED scan)    \* the LAPIC keeps it pending
    /\ SF_rrVars(InitWaits(c) /\ UNCHANGED scan)
    /\ \A p \in Slots : SF_rrVars(KernelStep(c, p) /\ UNCHANGED scan)

RRSpec == RRInit /\ [][RRNext]_rrVars
RRFairSpec == RRSpec /\ RRFairness

-----------------------------------------------------------------------------
(* Properties.                                                              *)

Alive(p) == state[p] \in {"SLEEPING", "RUNNABLE", "RUNNING"}

\* No starvation: every RUNNABLE process gets the CPU, because the walk of
\* scheduler() goes on behind the process that ran last.
RunnableRuns ==
  \A p \in Slots : state[p] = "RUNNABLE" ~> state[p] = "RUNNING"

\* A killed process ends, wherever kill() finds it: in user space, in fork(),
\* asleep in wait() or sys_sleep(), or on its way into either.
KilledEnds ==
  \A p \in Slots : killed[p] /\ Alive(p) ~> state[p] = "ZOMBIE"

\* No zombie is forgotten: one whose parent is gone, or is init, is reaped,
\* because exit() hands it to init and init never stops calling wait().
OrphansReaped ==
  \A p \in Slots :
    (state[p] = "ZOMBIE" /\ (\A q \in Slots \ {Initproc} : parent[p] = q => ~Alive(q)))
      ~> state[p] = "UNUSED"

\* sys_sleep(n) comes back: the ticks it waits for are neither missed nor lost.
SleepReturns ==
  \A p \in Slots : pc[p] = "tsleep" ~> pc[p] \in {"user", "exit"}
=============================================================================
