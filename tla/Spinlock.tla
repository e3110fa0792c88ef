------------------------------- MODULE Spinlock -------------------------------
(***************************************************************************)
(* Spin locks and interrupts of lab-2: acquire(), release(), pushcli() and *)
(* popcli() of spinlock.c with the IF flag, ncli and intena of each CPU,   *)
(* used by process code, by interrupt handlers on top of it, and by the    *)
(* switch between processes and schedulers (proc_original.c), which takes  *)
(* ptable.lock from one thread to the other.                               *)
(***************************************************************************)
EXTENDS Integers, Sequences, FiniteSets, SequencesExt

CONSTANTS
  CPUs, NoCpu,
  KProcs,         \* processes, in the kernel or in user space
  Locks,          \* the locks, numbers in the order in which they are nested
  Ptable,         \* ptable.lock; kmem.lock comes after it, for wait() frees memory
  MaxHeld         \* bound: locks a piece of code holds at once

ASSUME SpinlockAssumption ==
  /\ Locks \subseteq Nat /\ IsFiniteSet(Locks) /\ Ptable \in Locks /\ MaxHeld \in Nat
  /\ NoCpu \notin CPUs /\ KProcs \cap CPUs = {}

VARIABLES
  locked,         \* the CPU that holds a lock, or NoCpu
  eflags,         \* each CPU: its IF flag
  ncli, intena,   \* each CPU
  running,        \* each CPU: its thread, a process or the CPU's own scheduler
  stack           \* each thread: its code and the handlers that interrupted it

spinVars == <<locked, eflags, ncli, intena, running, stack>>

\* A piece of code (of a thread, of an interrupt handler, or forkret() before its
\* return to user space): running, spinning for the lock want, about to popcli(), not yet
\* run (new) or switched out (off) with the intena sched() keeps for it.
Frame(kind) ==
  [kind |-> kind, pc |-> "run", held |-> {}, want |-> Ptable, intena |-> FALSE]

Threads == KProcs \cup CPUs
Top(t) == Last(stack[t])
SetTop(t, f) == stack' = [stack EXCEPT ![t] = Append(Front(@), f)]

\* The schedulers start with interrupts off; a new process will begin in forkret()
\* with ptable.lock held.
SpinInit ==
  /\ locked = [l \in Locks |-> NoCpu]
  /\ eflags = [c \in CPUs |-> FALSE] /\ ncli = [c \in CPUs |-> 0]
  /\ intena = [c \in CPUs |-> FALSE] /\ running = [c \in CPUs |-> c]
  /\ stack = [t \in Threads |->
                IF t \in CPUs THEN <<Frame("code")>>
                ELSE <<Frame("code"), [Frame("forkret") EXCEPT !.pc = "new", !.held = {Ptable}]>>]

-----------------------------------------------------------------------------
(* spinlock.c.                                                              *)

\* Faulty variant: intena is taken from the latest pushcli().
PushcliLatest(c) ==
  /\ intena' = [intena EXCEPT ![c] = eflags[c]]
  /\ eflags' = [eflags EXCEPT ![c] = FALSE]
  /\ ncli' = [ncli EXCEPT ![c] = @ + 1]

Pushcli(c) ==
  /\ intena' = [intena EXCEPT ![c] = IF ncli[c] = 0 THEN eflags[c] ELSE @]
  /\ eflags' = [eflags EXCEPT ![c] = FALSE]
  /\ ncli' = [ncli EXCEPT ![c] = @ + 1]

\* The scheduler takes ptable.lock only, and after its sti().
MayAcquire(c, l) ==
  LET t == running[c]  f == Top(t) IN
  /\ f.pc = "run" /\ Cardinality(f.held) < MaxHeld /\ \A k \in f.held : k < l
  /\ t = c /\ Len(stack[t]) = 1 => l = Ptable /\ eflags[c]

\* acquire(), up to the loop.
Acquire(c, l) ==
  /\ MayAcquire(c, l)
  /\ Pushcli(c)
  /\ SetTop(running[c], [Top(running[c]) EXCEPT !.pc = "spin", !.want = l])
  /\ UNCHANGED <<locked, running>>

\* The xchg that finds the lock free.
Xchg(c) ==
  LET f == Top(running[c]) IN
  /\ f.pc = "spin" /\ locked[f.want] = NoCpu
  /\ locked' = [locked EXCEPT ![f.want] = c]
  /\ SetTop(running[c], [f EXCEPT !.pc = "run", !.want = Ptable, !.held = @ \cup {f.want}])
  /\ UNCHANGED <<eflags, ncli, intena, running>>

\* release(), up to popcli().
Release(c, l) ==
  LET f == Top(running[c]) IN
  /\ f.pc = "run" /\ l \in f.held
  /\ locked' = [locked EXCEPT ![l] = NoCpu]
  /\ SetTop(running[c], [f EXCEPT !.pc = "pop", !.held = @ \ {l}])
  /\ UNCHANGED <<eflags, ncli, intena, running>>

\* Faulty variant: interrupts come on with the first popcli().
PopcliFirst(c) ==
  LET f == Top(running[c]) IN
  /\ f.pc = "pop"
  /\ ncli' = [ncli EXCEPT ![c] = @ - 1]
  /\ eflags' = [eflags EXCEPT ![c] = intena[c]]
  /\ SetTop(running[c], [f EXCEPT !.pc = "run"])
  /\ UNCHANGED <<locked, intena, running>>

Popcli(c) ==
  LET f == Top(running[c]) IN
  /\ f.pc = "pop"
  /\ ncli' = [ncli EXCEPT ![c] = @ - 1]
  /\ eflags' = [eflags EXCEPT ![c] = @ \/ (ncli[c] = 1 /\ intena[c])]
  /\ SetTop(running[c], [f EXCEPT !.pc = "run"])
  /\ UNCHANGED <<locked, intena, running>>

-----------------------------------------------------------------------------
(* Interrupts go through interrupt gates, which turn further ones off.      *)

Interrupt(c) ==
  /\ eflags[c]
  /\ eflags' = [eflags EXCEPT ![c] = FALSE]
  /\ stack' = [stack EXCEPT ![running[c]] = Append(@, Frame("handler"))]
  /\ UNCHANGED <<locked, ncli, intena, running>>

\* The end of a handler, or of forkret(): what iret goes back to had interrupts on.
Iret(c) ==
  LET t == running[c] IN
  /\ Top(t).kind # "code" /\ Top(t).pc = "run" /\ Top(t).held = {}
  /\ stack' = [stack EXCEPT ![t] = Front(@)]
  /\ eflags' = [eflags EXCEPT ![c] = TRUE]
  /\ UNCHANGED <<locked, ncli, intena, running>>

-----------------------------------------------------------------------------
(* The switch.                                                              *)

\* The top of the scheduler's loop.
Sti(c) ==
  /\ running[c] = c /\ Len(stack[c]) = 1 /\ Top(c).pc = "run" /\ Top(c).held = {}
  /\ ~eflags[c]
  /\ eflags' = [eflags EXCEPT ![c] = TRUE]
  /\ UNCHANGED <<locked, ncli, intena, running, stack>>

\* Faulty variant: ptable.lock is given up before the switch.
SchedUnlocked(c) ==
  LET p == running[c] IN
  /\ p \in KProcs /\ Top(p).pc = "run" /\ Top(p).held = {Ptable}
  /\ SetTop(p, [Top(p) EXCEPT !.pc = "off", !.intena = intena[c]])
  /\ running' = [running EXCEPT ![c] = c]
  /\ locked' = [locked EXCEPT ![Ptable] = NoCpu]
  /\ UNCHANGED <<eflags, ncli, intena>>

\* sched(), from yield() or sleep(), in a system call or in the timer's handler.
Sched(c) ==
  LET p == running[c] IN
  /\ p \in KProcs /\ Top(p).pc = "run" /\ Top(p).held = {Ptable}
  /\ SetTop(p, [Top(p) EXCEPT !.pc = "off", !.intena = intena[c]])
  /\ running' = [running EXCEPT ![c] = c]
  /\ UNCHANGED <<locked, eflags, ncli, intena>>

\* Faulty variant: intena stays with the CPU.
DispatchKeepsIntena(c, p) ==
  /\ running[c] = c /\ Len(stack[c]) = 1 /\ Top(c).pc = "run" /\ Top(c).held = {Ptable}
  /\ Top(p).pc \in {"new", "off"}
  /\ running' = [running EXCEPT ![c] = p]
  /\ SetTop(p, [Top(p) EXCEPT !.pc = "run", !.intena = FALSE])
  /\ UNCHANGED <<locked, eflags, ncli, intena>>

\* scheduler() picks p, which goes on in forkret() or after its swtch() in sched().
Dispatch(c, p) ==
  /\ running[c] = c /\ Len(stack[c]) = 1 /\ Top(c).pc = "run" /\ Top(c).held = {Ptable}
  /\ Top(p).pc \in {"new", "off"}
  /\ running' = [running EXCEPT ![c] = p]
  /\ intena' = [intena EXCEPT ![c] = IF Top(p).pc = "off" THEN Top(p).intena ELSE @]
  /\ SetTop(p, [Top(p) EXCEPT !.pc = "run", !.intena = FALSE])
  /\ UNCHANGED <<locked, eflags, ncli>>

SpinNext ==
  \E c \in CPUs :
    \/ \E l \in Locks : Acquire(c, l) \/ Release(c, l)
    \/ Xchg(c) \/ Popcli(c) \/ Interrupt(c) \/ Iret(c) \/ Sti(c) \/ Sched(c)
    \/ \E p \in KProcs : Dispatch(c, p)

SpinSpec == SpinInit /\ [][SpinNext]_spinVars

-----------------------------------------------------------------------------
(* Properties.                                                              *)

\* The locks the code on CPU c holds: that of its thread and of the handlers on it.
HeldOn(c) == UNION {stack[running[c]][i].held : i \in 1 .. Len(stack[running[c]])}

\* A lock is held by the code of one CPU at most, the one lk->cpu names, though
\* ptable.lock passes from thread to thread and they from CPU to CPU.
OneHolder == \A c \in CPUs, l \in Locks : l \in HeldOn(c) <=> locked[l] = c

\* No code waits for a lock its own CPU holds (acquire()'s panic): a handler never
\* finds the lock of the code it interrupted.
NoSelfAcquire ==
  \A c \in CPUs : Top(running[c]).pc = "spin" => locked[Top(running[c]).want] # c

\* A process without locks can be interrupted and a handler cannot, wherever and by
\* way of however many switches they came to run: intena follows the thread.
InterruptsFollowThread ==
  \A c \in CPUs :
    LET f == Top(running[c]) IN
    running[c] \in KProcs /\ f.pc = "run" /\ f.held = {} =>
      /\ f.kind = "code" => eflags[c]
      /\ f.kind = "handler" => ~eflags[c]

\* sched()'s panics ("sched locks", "sched interruptible") are out of reach: ncli
\* counts the locks of this CPU and the acquire() or release() under way.
NcliCounts ==
  \A c \in CPUs :
    /\ ncli[c] = Cardinality(HeldOn(c)) + (IF Top(running[c]).pc \in {"spin", "pop"} THEN 1 ELSE 0)
    /\ ncli[c] > 0 => ~eflags[c]

\* Locks exclude, interrupt handlers included, and the interrupt flag comes back as
\* it was, though threads move between CPUs with ptable.lock held.
LocksSound == OneHolder /\ NoSelfAcquire /\ InterruptsFollowThread /\ NcliCounts
=============================================================================
