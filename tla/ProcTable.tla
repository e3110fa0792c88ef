------------------------------- MODULE ProcTable -------------------------------
(***************************************************************************)
(* The xv6 process table: process life cycle, sleep/wakeup and the hand-   *)
(* over of ptable.lock between the per-CPU schedulers and the processes    *)
(* (lab-2/proc_original.c, with trap.c and sysproc.c as its callers).      *)
(*                                                                         *)
(* The scheduling POLICY is left open: a scheduler that holds ptable.lock  *)
(* may dispatch any RUNNABLE process.  RoundRobin, MLFQ and Lottery add    *)
(* the policies of the repository and are checked to implement this module.*)
(*                                                                         *)
(* One CPU either runs its scheduler thread (curproc[c] = NoProc) or the   *)
(* kernel thread of curproc[c].  A process that called sched() keeps       *)
(* ptable.lock held by its CPU; the thread switched to releases it.        *)
(***************************************************************************)
EXTENDS Integers, FiniteSets

CONSTANTS
  NPROC,      \* size of ptable.proc
  NCPU,       \* number of CPUs
  NPAGES,     \* pages kalloc() hands out after init has been set up
  MaxPid,     \* bound: no fork once nextpid exceeds it
  MaxSleep,   \* bound: largest argument of sleep()
  KillPids    \* arguments user programs pass to kill()

ASSUME ProcTableAssumption ==
  /\ NPROC \in Nat \ {0} /\ NCPU \in Nat \ {0} /\ NPAGES \in Nat
  /\ MaxPid \in Nat /\ MaxSleep \in Nat
  /\ KillPids \subseteq Nat \ {1}   \* nobody kills init: exit() panics for it

Slots     == 0 .. NPROC - 1
CPUs      == 0 .. NCPU - 1
NoProc    == -1                     \* a null struct proc pointer
NoCpu     == -1                     \* the lock is free
NoChan    == -1                     \* chan = 0
TicksChan == NPROC                  \* the address &ticks; a slot is its own address
Initproc  == 0                      \* userinit() takes the first slot
InitPid   == 1

States == {"UNUSED", "EMBRYO", "SLEEPING", "RUNNABLE", "RUNNING", "ZOMBIE"}

\* Where a process stands in the kernel: in user space, inside fork() before
\* kalloc, before copyuvm and before the final locked section, inside exit()
\* before its locked section, or inside sys_sleep() with tickslock held
\* (tsleep) and about to take it again (trelock).
PCs == {"user", "fork_kalloc", "fork_copyuvm", "fork_publish",
        "exit", "tsleep", "trelock"}

\* What the kernel thread does first: nothing special, finish the timer trap,
\* or return from swtch() into yield(), forkret(), wait() or sys_sleep().
Resumes == {"none", "trap", "yield", "forkret", "wait", "tsleep"}

VARIABLES
  state, pid, parent, chan, killed,   \* fields of struct proc
  kstack, pgdir,                      \* does the slot own a stack, a page table
  nextpid,
  freepages,                          \* length of kmem.freelist
  pc, resume,                         \* saved context of each process
  np,                                 \* fork()'s local variable np
  rem,                                \* ticks until ticks - ticks0 >= n in sys_sleep()
  curproc,                            \* cpu->proc
  ptlock, tickslock                   \* CPU that holds the lock

procVars == <<state, pid, parent, chan, killed, kstack, pgdir, nextpid, freepages,
              pc, resume, np, rem, curproc, ptlock, tickslock>>

-----------------------------------------------------------------------------
(* The state main() leaves behind: userinit() has made init RUNNABLE and no *)
(* CPU has entered scheduler() yet.                                         *)

Init ==
  /\ state  = [p \in Slots |-> IF p = Initproc THEN "RUNNABLE" ELSE "UNUSED"]
  /\ pid    = [p \in Slots |-> IF p = Initproc THEN InitPid ELSE 0]
  /\ parent = [p \in Slots |-> NoProc]
  /\ chan   = [p \in Slots |-> NoChan]
  /\ killed = [p \in Slots |-> FALSE]
  /\ kstack = [p \in Slots |-> p = Initproc]
  /\ pgdir  = [p \in Slots |-> p = Initproc]
  /\ nextpid = InitPid + 1
  /\ freepages = NPAGES
  /\ pc     = [p \in Slots |-> "user"]
  /\ resume = [p \in Slots |-> IF p = Initproc THEN "forkret" ELSE "none"]
  /\ np     = [p \in Slots |-> NoProc]
  /\ rem    = [p \in Slots |-> 0]
  /\ curproc = [c \in CPUs |-> NoProc]
  /\ ptlock = NoCpu
  /\ tickslock = NoCpu

-----------------------------------------------------------------------------
(* scheduler(): the thread of CPU c that no process owns.                   *)

SchedAcquire(c) ==
  /\ curproc[c] = NoProc /\ ptlock = NoCpu
  /\ ptlock' = c
  /\ UNCHANGED <<state, pid, parent, chan, killed, kstack, pgdir, nextpid, freepages,
                 pc, resume, np, rem, curproc, tickslock>>

SchedRelease(c) ==
  /\ curproc[c] = NoProc /\ ptlock = c
  /\ ptlock' = NoCpu
  /\ UNCHANGED <<state, pid, parent, chan, killed, kstack, pgdir, nextpid, freepages,
                 pc, resume, np, rem, curproc, tickslock>>

\* c->proc = p; p->state = RUNNING; swtch().  ptable.lock stays held.
Dispatch(c, p) ==
  /\ curproc[c] = NoProc /\ ptlock = c /\ state[p] = "RUNNABLE"
  /\ state' = [state EXCEPT ![p] = "RUNNING"]
  /\ curproc' = [curproc EXCEPT ![c] = p]
  /\ UNCHANGED <<pid, parent, chan, killed, kstack, pgdir, nextpid, freepages,
                 pc, resume, np, rem, ptlock, tickslock>>

\* swtch() returns into scheduler(): the process has left RUNNING.
SwitchBack(c) ==
  /\ curproc[c] # NoProc /\ ptlock = c /\ state[curproc[c]] # "RUNNING"
  /\ curproc' = [curproc EXCEPT ![c] = NoProc]
  /\ UNCHANGED <<state, pid, parent, chan, killed, kstack, pgdir, nextpid, freepages,
                 pc, resume, np, rem, ptlock, tickslock>>

-----------------------------------------------------------------------------
(* The kernel thread of the process on CPU c.                               *)

\* The process on c executes its own code: no pending switch or trap.
Executing(c) ==
  /\ curproc[c] # NoProc /\ state[curproc[c]] = "RUNNING" /\ resume[curproc[c]] = "none"

\* The process on c has just come back from swtch() with ptable.lock held.
Resumed(c, where) ==
  /\ curproc[c] # NoProc /\ state[curproc[c]] = "RUNNING" /\ ptlock = c
  /\ resume[curproc[c]] = where

InUser(c) == Executing(c) /\ pc[curproc[c]] = "user"

\* trap() tests killed before and after syscall().
MaySyscall(c) == InUser(c) /\ ~killed[curproc[c]]
AfterTrap(k) == IF k THEN "exit" ELSE "user"

\* wakeup1(ch): the processes it makes RUNNABLE.
Woken(ch) == {q \in Slots : state[q] = "SLEEPING" /\ chan[q] = ch}

\* The end of yield() and forkret(): drop the scheduler's lock; trap() then
\* looks once more at killed if it is about to return to user space.
ReturnFromSwitch(c) ==
  LET p == curproc[c] IN
  /\ Resumed(c, "yield") \/ Resumed(c, "forkret")
  /\ ptlock' = NoCpu
  /\ resume' = [resume EXCEPT ![p] = "none"]
  /\ pc' = [pc EXCEPT ![p] =
              IF @ = "user" /\ resume[p] = "yield" THEN AfterTrap(killed[p]) ELSE @]
  /\ UNCHANGED <<state, pid, parent, chan, killed, kstack, pgdir, nextpid, freepages,
                 np, rem, curproc, tickslock>>

-----------------------------------------------------------------------------
(* fork() and allocproc().                                                  *)

FirstSlot(p, S) == p \in S /\ \A q \in S : p <= q

UnusedSlots == {q \in Slots : state[q] = "UNUSED"}

\* allocproc(), under ptable.lock: claim the first UNUSED slot.  With no such
\* slot fork() returns -1 and changes nothing.
ForkAlloc(c) ==
  LET p == curproc[c] IN
  /\ MaySyscall(c) /\ ptlock = NoCpu /\ nextpid <= MaxPid
  /\ \E q \in Slots :
       /\ FirstSlot(q, UnusedSlots)
       /\ state' = [state EXCEPT ![q] = "EMBRYO"]
       /\ pid' = [pid EXCEPT ![q] = nextpid]
       /\ np' = [np EXCEPT ![p] = q]
  /\ nextpid' = nextpid + 1
  /\ pc' = [pc EXCEPT ![p] = "fork_kalloc"]
  /\ UNCHANGED <<parent, chan, killed, kstack, pgdir, freepages, resume, rem,
                 curproc, ptlock, tickslock>>

\* Faulty variant: the result of kalloc() is not tested.
ForkKallocUnchecked(c) ==
  LET p == curproc[c]  q == np[p] IN
  /\ Executing(c) /\ pc[p] = "fork_kalloc"
  /\ freepages' = freepages - 1
  /\ kstack' = [kstack EXCEPT ![q] = TRUE]
  /\ resume' = [resume EXCEPT ![q] = "forkret"]
  /\ pc' = [pc EXCEPT ![p] = "fork_copyuvm", ![q] = "user"]
  /\ UNCHANGED <<state, np, pid, parent, chan, killed, pgdir, nextpid, rem,
                 curproc, ptlock, tickslock>>

\* allocproc(): kernel stack and first context.  On failure the slot goes back
\* to UNUSED without ptable.lock, its pid and killed fields as they are.
ForkKalloc(c) ==
  LET p == curproc[c]  q == np[p] IN
  /\ Executing(c) /\ pc[p] = "fork_kalloc"
  /\ \/ /\ freepages > 0
        /\ freepages' = freepages - 1
        /\ kstack' = [kstack EXCEPT ![q] = TRUE]
        /\ resume' = [resume EXCEPT ![q] = "forkret"]
        /\ pc' = [pc EXCEPT ![p] = "fork_copyuvm", ![q] = "user"]
        /\ UNCHANGED <<state, np>>
     \/ /\ freepages = 0
        /\ state' = [state EXCEPT ![q] = "UNUSED"]
        /\ np' = [np EXCEPT ![p] = NoProc]
        /\ pc' = [pc EXCEPT ![p] = AfterTrap(killed[p])]
        /\ UNCHANGED <<kstack, freepages, resume>>
  /\ UNCHANGED <<pid, parent, chan, killed, pgdir, nextpid, rem,
                 curproc, ptlock, tickslock>>

\* Faulty variant: the error path of copyuvm() forgets kfree(np->kstack).
ForkCopyuvmLeak(c) ==
  LET p == curproc[c]  q == np[p] IN
  /\ Executing(c) /\ pc[p] = "fork_copyuvm"
  /\ \/ /\ freepages > 0
        /\ freepages' = freepages - 1
        /\ pgdir' = [pgdir EXCEPT ![q] = TRUE]
        /\ parent' = [parent EXCEPT ![q] = p]
        /\ pc' = [pc EXCEPT ![p] = "fork_publish"]
        /\ UNCHANGED <<state, kstack, np>>
     \/ /\ freepages = 0
        /\ kstack' = [kstack EXCEPT ![q] = FALSE]
        /\ state' = [state EXCEPT ![q] = "UNUSED"]
        /\ np' = [np EXCEPT ![p] = NoProc]
        /\ pc' = [pc EXCEPT ![p] = AfterTrap(killed[p])]
        /\ UNCHANGED <<parent, pgdir, freepages>>
  /\ UNCHANGED <<pid, chan, killed, nextpid, resume, rem, curproc, ptlock, tickslock>>

\* fork(): copy the address space and link the child to its parent; the writes
\* to np->parent and, on failure, np->state are made without ptable.lock.
ForkCopyuvm(c) ==
  LET p == curproc[c]  q == np[p] IN
  /\ Executing(c) /\ pc[p] = "fork_copyuvm"
  /\ \/ /\ freepages > 0
        /\ freepages' = freepages - 1
        /\ pgdir' = [pgdir EXCEPT ![q] = TRUE]
        /\ parent' = [parent EXCEPT ![q] = p]
        /\ pc' = [pc EXCEPT ![p] = "fork_publish"]
        /\ UNCHANGED <<state, kstack, np>>
     \/ /\ freepages = 0
        /\ freepages' = freepages + 1
        /\ kstack' = [kstack EXCEPT ![q] = FALSE]
        /\ state' = [state EXCEPT ![q] = "UNUSED"]
        /\ np' = [np EXCEPT ![p] = NoProc]
        /\ pc' = [pc EXCEPT ![p] = AfterTrap(killed[p])]
        /\ UNCHANGED <<parent, pgdir>>
  /\ UNCHANGED <<pid, chan, killed, nextpid, resume, rem, curproc, ptlock, tickslock>>

\* fork(): np->state = RUNNABLE under ptable.lock, return the child's pid.
ForkPublish(c) ==
  LET p == curproc[c]  q == np[p] IN
  /\ Executing(c) /\ pc[p] = "fork_publish" /\ ptlock = NoCpu
  /\ state' = [state EXCEPT ![q] = "RUNNABLE"]
  /\ np' = [np EXCEPT ![p] = NoProc]
  /\ pc' = [pc EXCEPT ![p] = AfterTrap(killed[p])]
  /\ UNCHANGED <<pid, parent, chan, killed, kstack, pgdir, nextpid, freepages, resume,
                 rem, curproc, ptlock, tickslock>>

-----------------------------------------------------------------------------
(* exit(), wait() and kill().                                               *)

\* A voluntary exit(), or the one trap() makes of a killed process: open
\* files and the working directory go first, without ptable.lock.
ExitCall(c) ==
  LET p == curproc[c] IN
  /\ InUser(c) /\ p # Initproc
  /\ pc' = [pc EXCEPT ![p] = "exit"]
  /\ UNCHANGED <<state, pid, parent, chan, killed, kstack, pgdir, nextpid, freepages,
                 resume, np, rem, curproc, ptlock, tickslock>>

\* Faulty variant: children that are already zombies keep their dead parent.
ExitFinishKeepZombies(c) ==
  LET p == curproc[c] IN
  /\ Executing(c) /\ pc[p] = "exit" /\ ptlock = NoCpu
  /\ state' = [q \in Slots |-> IF q = p THEN "ZOMBIE"
                               ELSE IF q \in Woken(parent[p]) THEN "RUNNABLE"
                               ELSE state[q]]
  /\ parent' = [q \in Slots |-> IF parent[q] = p /\ state[q] # "ZOMBIE"
                                THEN Initproc ELSE parent[q]]
  /\ ptlock' = c
  /\ UNCHANGED <<pid, chan, killed, kstack, pgdir, nextpid, freepages, pc, resume, np,
                 rem, curproc, tickslock>>

\* The processes the locked section of exit() wakes: the parent in wait(), and
\* init if it inherits a zombie.
ExitWakes(p) ==
  Woken(parent[p]) \cup
    (IF \E q \in Slots : parent[q] = p /\ state[q] = "ZOMBIE" THEN Woken(Initproc) ELSE {})

\* exit() under ptable.lock, which it hands to the scheduler in sched().
ExitFinish(c) ==
  LET p == curproc[c] IN
  /\ Executing(c) /\ pc[p] = "exit" /\ ptlock = NoCpu
  /\ state' = [q \in Slots |-> IF q = p THEN "ZOMBIE"
                               ELSE IF q \in ExitWakes(p) THEN "RUNNABLE"
                               ELSE state[q]]
  /\ parent' = [q \in Slots |-> IF parent[q] = p THEN Initproc ELSE parent[q]]
  /\ ptlock' = c
  /\ UNCHANGED <<pid, chan, killed, kstack, pgdir, nextpid, freepages, pc, resume, np,
                 rem, curproc, tickslock>>

Children(p) == {q \in Slots : parent[q] = p}
ZombieChildren(p) == {q \in Children(p) : state[q] = "ZOMBIE"}

\* wait() reaps the first zombie child, frees what it owned and returns.
Reap(c, p) ==
  /\ \E q \in Slots :
       /\ FirstSlot(q, ZombieChildren(p))
       /\ freepages' = freepages + 2
       /\ kstack' = [kstack EXCEPT ![q] = FALSE]
       /\ pgdir' = [pgdir EXCEPT ![q] = FALSE]
       /\ pid' = [pid EXCEPT ![q] = 0]
       /\ parent' = [parent EXCEPT ![q] = NoProc]
       /\ killed' = [killed EXCEPT ![q] = FALSE]
       /\ state' = [state EXCEPT ![q] = "UNUSED"]
  /\ chan' = [chan EXCEPT ![p] = NoChan]
  /\ resume' = [resume EXCEPT ![p] = "none"]
  /\ pc' = [pc EXCEPT ![p] = AfterTrap(killed[p])]
  /\ ptlock' = NoCpu

\* wait() gives up: no children, or the caller was killed.
WaitFail(c, p) ==
  /\ ZombieChildren(p) = {} /\ (Children(p) = {} \/ killed[p])
  /\ chan' = [chan EXCEPT ![p] = NoChan]
  /\ resume' = [resume EXCEPT ![p] = "none"]
  /\ pc' = [pc EXCEPT ![p] = AfterTrap(killed[p])]
  /\ ptlock' = NoCpu
  /\ UNCHANGED <<state, pid, parent, killed, kstack, pgdir, freepages>>

\* sleep(curproc, &ptable.lock): the lock passes to the scheduler.
WaitSleep(c, p) ==
  /\ ZombieChildren(p) = {} /\ Children(p) # {} /\ ~killed[p]
  /\ chan' = [chan EXCEPT ![p] = p]
  /\ state' = [state EXCEPT ![p] = "SLEEPING"]
  /\ resume' = [resume EXCEPT ![p] = "wait"]
  /\ ptlock' = c
  /\ UNCHANGED <<pid, parent, killed, kstack, pgdir, freepages, pc>>

\* One round of wait()'s loop, on entry or after sleep() has returned.
Wait(c) ==
  LET p == curproc[c] IN
  /\ (MaySyscall(c) /\ ptlock = NoCpu) \/ Resumed(c, "wait")
  /\ Reap(c, p) \/ WaitFail(c, p) \/ WaitSleep(c, p)
  /\ UNCHANGED <<nextpid, np, rem, curproc, tickslock>>

\* Faulty variant: kill() sets the flag and leaves a sleeper asleep.
KillNoWakeup(c, k) ==
  LET p == curproc[c] IN
  /\ MaySyscall(c) /\ ptlock = NoCpu
  /\ \E q \in Slots :
       /\ FirstSlot(q, {r \in Slots : pid[r] = k})
       /\ killed' = [killed EXCEPT ![q] = TRUE]
       /\ state' = state
  /\ pc' = [pc EXCEPT ![p] = AfterTrap(killed'[p])]
  /\ UNCHANGED <<pid, parent, chan, kstack, pgdir, nextpid, freepages, resume, np, rem,
                 curproc, ptlock, tickslock>>

\* kill(k): the first slot with that pid, whatever its state, a sleeper becomes
\* RUNNABLE.  With no such slot kill() returns -1 and changes nothing.
Kill(c, k) ==
  LET p == curproc[c] IN
  /\ MaySyscall(c) /\ ptlock = NoCpu
  /\ \E q \in Slots :
       /\ FirstSlot(q, {r \in Slots : pid[r] = k})
       /\ killed' = [killed EXCEPT ![q] = TRUE]
       /\ state' = [state EXCEPT ![q] = IF @ = "SLEEPING" THEN "RUNNABLE" ELSE @]
  /\ pc' = [pc EXCEPT ![p] = AfterTrap(killed'[p])]
  /\ UNCHANGED <<pid, parent, chan, kstack, pgdir, nextpid, freepages, resume, np, rem,
                 curproc, ptlock, tickslock>>

-----------------------------------------------------------------------------
(* The timer interrupt and sys_sleep().                                     *)

\* Faulty variant: ticks++ without wakeup(&ticks).
TickEffectNoWakeup ==
  /\ tickslock = NoCpu /\ ptlock = NoCpu
  /\ rem' = [p \in Slots |-> IF rem[p] > 0 THEN rem[p] - 1 ELSE 0]
  /\ UNCHANGED state

\* ticks++; wakeup(&ticks), with tickslock and inside it ptable.lock held.
TickEffect ==
  /\ tickslock = NoCpu /\ ptlock = NoCpu
  /\ rem' = [p \in Slots |-> IF rem[p] > 0 THEN rem[p] - 1 ELSE 0]
  /\ state' = [p \in Slots |-> IF p \in Woken(TicksChan) THEN "RUNNABLE" ELSE state[p]]

\* trap(T_IRQ0+IRQ_TIMER) up to its test for yield(); interrupts are off while
\* a spinlock is held.  CPU 0 keeps the time.
TimerTrap(c) ==
  /\ ptlock # c /\ tickslock # c
  /\ \/ Executing(c) /\ resume' = [resume EXCEPT ![curproc[c]] = "trap"]
     \/ curproc[c] = NoProc /\ c = 0 /\ UNCHANGED resume
  /\ IF c = 0 THEN TickEffect ELSE UNCHANGED <<rem, state>>
  /\ UNCHANGED <<pid, parent, chan, killed, kstack, pgdir, nextpid, freepages, pc, np,
                 curproc, ptlock, tickslock>>

InTrap(c) ==
  /\ curproc[c] # NoProc /\ state[curproc[c]] = "RUNNING" /\ resume[curproc[c]] = "trap"

\* trap(): exit() if killed on the way back to user space ...
TrapExit(c) ==
  LET p == curproc[c] IN
  /\ InTrap(c) /\ killed[p] /\ pc[p] = "user"
  /\ resume' = [resume EXCEPT ![p] = "none"]
  /\ pc' = [pc EXCEPT ![p] = "exit"]
  /\ UNCHANGED <<state, pid, parent, chan, killed, kstack, pgdir, nextpid, freepages,
                 np, rem, curproc, ptlock, tickslock>>

\* Faulty variant: yield() drops ptable.lock before the switch.
TrapYieldUnlocked(c) ==
  LET p == curproc[c] IN
  /\ InTrap(c) /\ ~(killed[p] /\ pc[p] = "user") /\ ptlock = NoCpu
  /\ state' = [state EXCEPT ![p] = "RUNNABLE"]
  /\ resume' = [resume EXCEPT ![p] = "yield"]
  /\ UNCHANGED <<pid, parent, chan, killed, kstack, pgdir, nextpid, freepages, pc, np,
                 rem, curproc, ptlock, tickslock>>

\* ... and yield() otherwise, in the kernel too.
TrapYield(c) ==
  LET p == curproc[c] IN
  /\ InTrap(c) /\ ~(killed[p] /\ pc[p] = "user") /\ ptlock = NoCpu
  /\ state' = [state EXCEPT ![p] = "RUNNABLE"]
  /\ resume' = [resume EXCEPT ![p] = "yield"]
  /\ ptlock' = c
  /\ UNCHANGED <<pid, parent, chan, killed, kstack, pgdir, nextpid, freepages, pc, np,
                 rem, curproc, tickslock>>

\* Faulty variant: tickslock is dropped before sleep() holds ptable.lock.
SysSleepUnlocked(c, n) ==
  LET p == curproc[c] IN
  /\ MaySyscall(c) /\ p # Initproc /\ tickslock = NoCpu
  /\ rem' = [rem EXCEPT ![p] = n]
  /\ pc' = [pc EXCEPT ![p] = "tsleep"]
  /\ UNCHANGED <<state, pid, parent, chan, killed, kstack, pgdir, nextpid, freepages,
                 resume, np, curproc, ptlock, tickslock>>

\* sys_sleep(n), n > 0: ticks0 is read and the loop entered under tickslock.
SysSleep(c, n) ==
  LET p == curproc[c] IN
  /\ MaySyscall(c) /\ p # Initproc /\ tickslock = NoCpu
  /\ rem' = [rem EXCEPT ![p] = n]
  /\ tickslock' = c
  /\ pc' = [pc EXCEPT ![p] = "tsleep"]
  /\ UNCHANGED <<state, pid, parent, chan, killed, kstack, pgdir, nextpid, freepages,
                 resume, np, curproc, ptlock>>

\* sleep(&ticks, &tickslock): ptable.lock is taken before tickslock is dropped.
SleepTicks(c) ==
  LET p == curproc[c] IN
  /\ Executing(c) /\ pc[p] = "tsleep" /\ ptlock = NoCpu
  /\ ptlock' = c
  /\ tickslock' = NoCpu
  /\ chan' = [chan EXCEPT ![p] = TicksChan]
  /\ state' = [state EXCEPT ![p] = "SLEEPING"]
  /\ resume' = [resume EXCEPT ![p] = "tsleep"]
  /\ pc' = [pc EXCEPT ![p] = "trelock"]
  /\ UNCHANGED <<pid, parent, killed, kstack, pgdir, nextpid, freepages, np, rem, curproc>>

\* sleep() after sched(): p->chan = 0; release(&ptable.lock).
SleepReturn(c) ==
  LET p == curproc[c] IN
  /\ Resumed(c, "tsleep")
  /\ chan' = [chan EXCEPT ![p] = NoChan]
  /\ resume' = [resume EXCEPT ![p] = "none"]
  /\ ptlock' = NoCpu
  /\ UNCHANGED <<state, pid, parent, killed, kstack, pgdir, nextpid, freepages, pc, np,
                 rem, curproc, tickslock>>

\* acquire(&tickslock) at the end of sleep() and the loop test of sys_sleep():
\* done, killed (-1, then exit() on the way out), or another round.
SleepRecheck(c) ==
  LET p == curproc[c]  again == rem[p] > 0 /\ ~killed[p] IN
  /\ Executing(c) /\ pc[p] = "trelock" /\ tickslock = NoCpu
  /\ tickslock' = IF again THEN c ELSE NoCpu
  /\ pc' = [pc EXCEPT ![p] = IF again THEN "tsleep" ELSE AfterTrap(killed[p])]
  /\ rem' = [rem EXCEPT ![p] = IF again THEN @ ELSE 0]
  /\ UNCHANGED <<state, pid, parent, chan, killed, kstack, pgdir, nextpid, freepages,
                 resume, np, curproc, ptlock>>

-----------------------------------------------------------------------------
(* Everything but the choice of the process to run.                         *)

ForkStep(c) == ForkAlloc(c) \/ ForkKalloc(c) \/ ForkCopyuvm(c) \/ ForkPublish(c)
TickStep(c) == TimerTrap(c) \/ TrapExit(c) \/ TrapYield(c)
SleepStep(c) ==
  \/ \E n \in 1 .. MaxSleep : SysSleep(c, n)
  \/ SleepTicks(c) \/ SleepReturn(c) \/ SleepRecheck(c)

ProcessStep(c) ==
  \/ ReturnFromSwitch(c) \/ ForkStep(c) \/ ExitCall(c) \/ ExitFinish(c) \/ Wait(c)
  \/ \E k \in KillPids : Kill(c, k)
  \/ TickStep(c) \/ SleepStep(c)

Next ==
  \E c \in CPUs :
    \/ SchedAcquire(c) \/ SchedRelease(c) \/ SwitchBack(c)
    \/ \E p \in Slots : Dispatch(c, p)
    \/ ProcessStep(c)

Spec == Init /\ [][Next]_procVars

-----------------------------------------------------------------------------
(* Groups of steps for the fairness assumptions of the schedulers.          *)

\* Steps that run with interrupts off, which nothing can get in front of.
Uninterrupted(c) ==
  \/ ReturnFromSwitch(c) \/ SleepReturn(c) \/ TrapExit(c) \/ TrapYield(c)
  \/ Resumed(c, "wait") /\ Wait(c)

\* Kernel code of p that a timer interrupt may push back, but that gets a part
\* of every time slice of p.
KernelStep(c, p) ==
  /\ curproc[c] = p
  /\ \/ ForkKalloc(c) \/ ForkCopyuvm(c) \/ ForkPublish(c)
     \/ ExitFinish(c) \/ SleepTicks(c) \/ SleepRecheck(c)

\* init.c: init calls wait() for ever.
InitWaits(c) == curproc[c] = Initproc /\ MaySyscall(c) /\ Wait(c)

-----------------------------------------------------------------------------
(* Properties.                                                              *)

\* Every field holds a value of its C type.
TypeOK ==
  /\ state \in [Slots -> States]
  /\ pid \in [Slots -> Nat]
  /\ parent \in [Slots -> Slots \cup {NoProc}]
  /\ chan \in [Slots -> Slots \cup {NoChan, TicksChan}]
  /\ killed \in [Slots -> BOOLEAN]
  /\ kstack \in [Slots -> BOOLEAN]
  /\ pgdir \in [Slots -> BOOLEAN]
  /\ nextpid \in Nat
  /\ freepages \in Nat
  /\ pc \in [Slots -> PCs]
  /\ resume \in [Slots -> Resumes]
  /\ np \in [Slots -> Slots \cup {NoProc}]
  /\ rem \in [Slots -> Nat]
  /\ curproc \in [CPUs -> Slots \cup {NoProc}]
  /\ ptlock \in CPUs \cup {NoCpu}
  /\ tickslock \in CPUs \cup {NoCpu}

\* A process runs on at most one CPU, and outside the locked window around
\* swtch() exactly the RUNNING processes have one: the hand-over of ptable.lock
\* through sched() and scheduler() never lets two CPUs use one kernel stack.
OneCpuPerProcess ==
  /\ \A c, d \in CPUs : curproc[c] = curproc[d] /\ curproc[c] # NoProc => c = d
  /\ \A p \in Slots : state[p] = "RUNNING" => \E c \in CPUs : curproc[c] = p
  /\ \A c \in CPUs : curproc[c] # NoProc /\ ptlock # c => state[curproc[c]] = "RUNNING"

\* The exit of a child is never lost: no process sleeps in wait() while it has
\* a zombie child, the ones exit() re-parented to init included.
NoLostChildExit ==
  \A p \in Slots : state[p] = "SLEEPING" /\ chan[p] = p => ZombieChildren(p) = {}

\* Every process but init has a parent that is still alive to reap it: exit()
\* passes abandoned children to init in the critical section that makes the
\* parent a zombie.
LiveParent ==
  \A p \in Slots \ {Initproc} :
    state[p] \in {"SLEEPING", "RUNNABLE", "RUNNING", "ZOMBIE"} =>
      /\ parent[p] \in Slots
      /\ state[parent[p]] \in {"SLEEPING", "RUNNABLE", "RUNNING"}

\* No two table entries carry the same pid, those of forks in progress and of
\* forks that failed after allocproc() included.
PidsUnique ==
  \A p, q \in Slots : pid[p] = pid[q] /\ p # q => pid[p] = 0

\* Pages are neither leaked nor freed twice by the error paths of fork() and
\* by wait(): what is not on the free list is a stack or a page table.
PagesConserved ==
  freepages + Cardinality({p \in Slots : kstack[p]}) + Cardinality({p \in Slots : pgdir[p]})
    = NPAGES + 2

\* No tick is missed: a process asleep in sys_sleep() still has ticks to wait
\* for, because sleep() takes ptable.lock before it lets tickslock go.
NoMissedTick ==
  \A p \in Slots : state[p] = "SLEEPING" /\ chan[p] = TicksChan => rem[p] > 0

\* kill() reaches a process blocked in wait(): a killed process is never asleep
\* there.  (In sys_sleep() it may be, for at most one tick: killed is tested
\* under tickslock, which kill() does not take.)
KilledNotInWait ==
  \A p \in Slots : killed[p] => ~(state[p] = "SLEEPING" /\ chan[p] = p)

\* Whoever sleeps has something to wait for, whatever exits, kills and ticks
\* happened while it went to sleep: nobody oversleeps in wait() or in sys_sleep().
SleepersBlocked == NoLostChildExit /\ KilledNotInWait /\ NoMissedTick
=============================================================================
