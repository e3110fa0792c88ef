-------------------------------- MODULE Lottery --------------------------------
(***************************************************************************)
(* The lottery scheduler of lab-2/proc_lottery_v02.c on top of the process *)
(* table, with random_at_most() of rand.c and the system call settickets.  *)
(* genrand() may return any number of 0 .. RAND_MAX.                       *)
(***************************************************************************)
EXTENDS ProcTable

CONSTANTS MAXTICKET, RAND_MAX

\* random_at_most() "assumes 0 <= max <= RAND_MAX" (rand.c): all tickets together
\* are no more (64 * 15 against 2^31 - 1 in the code).
ASSUME LotteryAssumption ==
  /\ MAXTICKET \in Nat \ {0} /\ RAND_MAX \in Nat
  /\ NPROC * MAXTICKET <= RAND_MAX

VARIABLES
  tickets,       \* p->tickets
  draw           \* lotteryNumber of each CPU's scheduler(), NoDraw once used

NoDraw == -1

lotteryVars == <<procVars, tickets, draw>>

LotteryInit ==
  /\ Init
  /\ tickets = [p \in Slots |-> IF p = Initproc THEN 1 ELSE 0]
  /\ draw = [c \in CPUs |-> NoDraw]

-----------------------------------------------------------------------------
(* random_at_most(): the numbers above the last full bin are drawn again.   *)

BinSize(max) == (RAND_MAX + 1) \div (max + 1)

\* Faulty variant: no rejection, every number counts.
AcceptedAll(max) == 0 .. RAND_MAX

Accepted(max) == {x \in 0 .. RAND_MAX : x < RAND_MAX + 1 - ((RAND_MAX + 1) % (max + 1))}

random_at_most(max, x) == x \div BinSize(max)

-----------------------------------------------------------------------------
(* scheduler().                                                             *)

\* The tickets that take part: those of the RUNNABLE slots.
Weight == [p \in Slots |-> IF state[p] = "RUNNABLE" THEN tickets[p] ELSE 0]

\* The sum of w over the slots up to p.
SumUpTo(w, p) ==
  LET upTo[i \in 0 .. NPROC] == IF i = 0 THEN 0 ELSE upTo[i - 1] + w[i - 1]
  IN upTo[p + 1]

\* count after slot p.
Count(p) == SumUpTo(Weight, p)

TicketSum == SumUpTo(Weight, NPROC - 1)

\* Faulty variant: the comparison is off by one.
WinnersOffByOne(n) == {p \in Slots : state[p] = "RUNNABLE" /\ Count(p) >= n - 1}

\* The processes at which the last loop may stop for number n; it takes the first.
Winners(n) == {p \in Slots : state[p] = "RUNNABLE" /\ Count(p) >= n}

LotteryAcquire(c) ==
  /\ SchedAcquire(c)
  /\ \E x \in Accepted(TicketSum) :
       draw' = [draw EXCEPT ![c] = random_at_most(TicketSum, x)]
  /\ UNCHANGED tickets

LotteryDispatch(c, p) ==
  /\ draw[c] # NoDraw /\ FirstSlot(p, Winners(draw[c]))
  /\ Dispatch(c, p)
  /\ draw' = [draw EXCEPT ![c] = NoDraw]
  /\ UNCHANGED tickets

\* A process that is still RUNNABLE earns a ticket.
LotterySwitchBack(c) ==
  /\ SwitchBack(c)
  /\ LET p == curproc[c] IN
       tickets' = [tickets EXCEPT ![p] =
                     IF state[p] = "RUNNABLE" /\ @ < MAXTICKET THEN @ + 1 ELSE @]
  /\ UNCHANGED draw

\* break after one run, or the end of the table.
LotteryRelease(c) ==
  /\ draw[c] = NoDraw \/ Winners(draw[c]) = {}
  /\ SchedRelease(c)
  /\ draw' = [draw EXCEPT ![c] = NoDraw]
  /\ UNCHANGED tickets

-----------------------------------------------------------------------------
(* The operations this file changes or adds.                                *)

\* allocproc(): one ticket.
LotteryForkAlloc(c) ==
  /\ ForkAlloc(c)
  /\ tickets' = [tickets EXCEPT ![np'[curproc[c]]] = 1]
  /\ UNCHANGED draw

\* fork(): the child has the parent's tickets, if there is memory for it.
LotteryForkCopyuvm(c) ==
  LET p == curproc[c] IN
  /\ ForkCopyuvm(c)
  /\ tickets' = IF np'[p] = NoProc THEN tickets
                ELSE [tickets EXCEPT ![np[p]] = tickets[p]]
  /\ UNCHANGED draw

\* settickets(n) under ptable.lock; an n out of range changes nothing.
SetTickets(c, n) ==
  /\ MaySyscall(c) /\ ptlock = NoCpu
  /\ tickets' = [tickets EXCEPT ![curproc[c]] = n]
  /\ UNCHANGED <<procVars, draw>>

LotteryUnchanged(c) ==
  /\ \/ ReturnFromSwitch(c) \/ ForkKalloc(c) \/ ForkPublish(c)
     \/ ExitCall(c) \/ ExitFinish(c) \/ Wait(c) \/ TickStep(c) \/ SleepStep(c)
     \/ \E k \in KillPids : Kill(c, k)
  /\ UNCHANGED <<tickets, draw>>

SchedulerStep(c) ==
  \/ LotteryAcquire(c) \/ LotterySwitchBack(c) \/ LotteryRelease(c)
  \/ \E p \in Slots : LotteryDispatch(c, p)

LotteryProcess(c) ==
  \/ LotteryForkAlloc(c) \/ LotteryForkCopyuvm(c) \/ LotteryUnchanged(c)
  \/ \E n \in 0 .. MAXTICKET : SetTickets(c, n)

LotteryNext == \E c \in CPUs : SchedulerStep(c) \/ LotteryProcess(c)

LotterySpec == LotteryInit /\ [][LotteryNext]_lotteryVars

-----------------------------------------------------------------------------
(* Properties.                                                              *)

\* No draw is void: while a scheduler looks for the winner of its number there
\* is one unless nothing is RUNNABLE, so ticketSum, random_at_most() and the
\* count of the second loop fit together and settickets() never comes between.
DrawHasWinner ==
  \A c \in CPUs : draw[c] # NoDraw =>
    \/ Winners(draw[c]) # {}
    \/ \A p \in Slots : state[p] # "RUNNABLE"

\* Random numbers that make p win the next lottery.
Chance(p) ==
  Cardinality({x \in Accepted(TicketSum) :
                 FirstSlot(p, Winners(random_at_most(TicketSum, x)))})

\* "the process with the most tickets will have the highest chance of being
\* chosen" (the comment in scheduler()): fewer tickets never mean a better
\* chance, though the number 0 is a free ticket for the first RUNNABLE slot.
MostTicketsBestChance ==
  \A p, q \in Slots :
    state[p] = "RUNNABLE" /\ state[q] = "RUNNABLE" /\ tickets[p] < tickets[q] =>
      Chance(p) <= Chance(q)

\* The draw is right: it has a winner, and tickets are worth something.
LotteryFair == DrawHasWinner /\ MostTicketsBestChance
=============================================================================
