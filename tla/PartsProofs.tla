------------------------------ MODULE PartsProofs ------------------------------
(***************************************************************************)
(* Proofs about the parts of xv6 that have no proof module of their own,   *)
(* for every value of their constants: spin locks and interrupts, the      *)
(* console's input, the keyboard, the memory of user processes, and their  *)
(* malloc().                                                               *)
(***************************************************************************)
EXTENDS Spinlock, Console, Kbd, Vm, Umalloc, FiniteSetTheorems, SequenceTheorems,
        WellFoundedInduction, TLAPS

-----------------------------------------------------------------------------
(* Spin locks: the inductive invariant.                                     *)

Frames ==
  [kind : {"code", "handler", "forkret"}, pc : {"run", "spin", "pop", "new", "off"},
   held : SUBSET Locks, want : Locks, intena : BOOLEAN]

SpinType ==
  /\ locked \in [Locks -> CPUs \cup {NoCpu}]
  /\ eflags \in [CPUs -> BOOLEAN] /\ intena \in [CPUs -> BOOLEAN] /\ ncli \in [CPUs -> Nat]
  /\ running \in [CPUs -> Threads]
  /\ stack \in [Threads -> Seq(Frames)]

\* Code that was interrupted holds no lock and waits for none, and in a process it
\* is no handler.
Interrupted ==
  \A t \in Threads :
    /\ Len(stack[t]) > 0 /\ stack[t][1].kind = "code"
    /\ \A i \in 1 .. Len(stack[t]) - 1 :
         /\ stack[t][i].pc = "run" /\ stack[t][i].held = {}
         /\ t \in KProcs => stack[t][i].kind # "handler"

\* A CPU runs its scheduler or a process, and no two run the same.
Placed ==
  /\ \A c \in CPUs : running[c] \in KProcs \cup {c}
  /\ \A c, d \in CPUs : running[c] = running[d] => c = d

\* The saved flag is the one the code had: on in a process, off in a handler.
FlagOf(f, i) == (f.kind = "code" => i) /\ (f.kind = "handler" => ~i)

\* CPU c runs code f of thread t, with n as ncli, e as IF, i as intena and L the
\* owners of the locks.
CpuRuns(c, f, L, n, e, i, t) ==
  /\ f.pc \in {"run", "spin", "pop"} /\ (f.pc = "spin" => f.want \notin f.held)
  /\ n = Cardinality(f.held) + (IF f.pc = "run" THEN 0 ELSE 1)
  /\ n > 0 => ~e
  /\ \A l \in Locks : l \in f.held <=> L[l] = c
  /\ t \in KProcs /\ n > 0 => FlagOf(f, i)
  /\ t \in KProcs /\ n = 0 => FlagOf(f, e)

\* A thread that no CPU runs holds ptable.lock in its own view: the switch will
\* hand it over.
Waits(t, f, n) ==
  IF t \in CPUs THEN n = 1 /\ f.pc = "run" /\ f.held = {Ptable}
  ELSE /\ f.pc \in {"new", "off"} /\ f.held = {Ptable}
       /\ f.pc = "new" => f.kind = "forkret"
       /\ f.pc = "off" => FlagOf(f, f.intena)

CpusRun ==
  \A c \in CPUs :
    CpuRuns(c, Top(running[c]), locked, ncli[c], eflags[c], intena[c], running[c])

OthersWait ==
  \A t \in Threads : (\A c \in CPUs : running[c] # t) => Waits(t, Top(t), Len(stack[t]))

SpinInv == SpinType /\ Interrupted /\ Placed /\ CpusRun /\ OthersWait

USE SpinlockAssumption

-----------------------------------------------------------------------------
(* Spin locks: what a CPU does to the code it runs.                         *)

LEMMA HeldFinite ==
  ASSUME NEW S \in SUBSET Locks
  PROVE  /\ IsFiniteSet(S) /\ Cardinality(S) \in Nat /\ (S = {} <=> Cardinality(S) = 0)
         /\ \A l \in Locks \ S : Cardinality(S \cup {l}) = Cardinality(S) + 1
         /\ \A l \in S : Cardinality(S \ {l}) = Cardinality(S) - 1
<1>1. IsFiniteSet(S)
  BY FS_Subset
<1> QED
  BY <1>1, FS_CardinalityType, FS_EmptySet, FS_AddElement, FS_RemoveElement

\* acquire() up to the loop, with pushcli().
LEMMA AcquireRuns ==
  ASSUME NEW c, NEW f \in Frames, NEW L, NEW n \in Nat, NEW e \in BOOLEAN, NEW i \in BOOLEAN,
         NEW t, CpuRuns(c, f, L, n, e, i, t), f.pc = "run",
         NEW l \in Locks, \A k \in f.held : k < l,
         NEW g, g = [f EXCEPT !.pc = "spin", !.want = l], NEW m, m = n + 1,
         NEW j, j = IF n = 0 THEN e ELSE i
  PROVE  CpuRuns(c, g, L, m, FALSE, j, t)
<1>1. g.pc = "spin" /\ g.want = l /\ g.held = f.held /\ g.kind = f.kind
  BY DEF Frames
<1>2. l \notin f.held
  OBVIOUS
<1>3. n = Cardinality(f.held) /\ n + 1 > 0 /\ Cardinality(f.held) \in Nat
  <2>1. f.held \in SUBSET Locks
    BY DEF Frames
  <2> QED
    BY <2>1, HeldFinite DEF CpuRuns
<1> QED
  BY <1>1, <1>2, <1>3 DEF CpuRuns, FlagOf

\* The xchg that takes the lock.
LEMMA XchgRuns ==
  ASSUME NEW c \in CPUs, NEW f \in Frames, NEW L \in [Locks -> CPUs \cup {NoCpu}], NEW n \in Nat,
         NEW e \in BOOLEAN, NEW i \in BOOLEAN, NEW t,
         CpuRuns(c, f, L, n, e, i, t), f.pc = "spin",
         NEW g, g.pc = "run", g.held = f.held \cup {f.want}, g.kind = f.kind,
         NEW M, \A k \in Locks : M[k] = IF k = f.want THEN c ELSE L[k]
  PROVE  CpuRuns(c, g, M, n, e, i, t)
<1>1. PICK S \in SUBSET Locks, w \in Locks : S = f.held /\ w = f.want /\ w \notin S
  BY DEF Frames, CpuRuns
<1>2. PICK h : h = S \cup {w}
  OBVIOUS
<1>3. g.held = h
  BY <1>1, <1>2
<1>4. Cardinality(h) = Cardinality(S) + 1 /\ Cardinality(S) \in Nat
  <2>1. Cardinality(S \cup {w}) = Cardinality(S) + 1 /\ Cardinality(S) \in Nat
    BY <1>1, HeldFinite
  <2> QED
    BY <1>2, <2>1
<1>5. n = Cardinality(S) + 1
  BY <1>1 DEF CpuRuns
<1>6. n = Cardinality(g.held) /\ n > 0
  <2>1. n = Cardinality(h) /\ n > 0
    BY <1>4, <1>5
  <2> QED
    BY <1>3, <2>1
<1>7. \A l \in Locks : l \in g.held <=> M[l] = c
  BY <1>1, <1>2, <1>3 DEF CpuRuns
<1>8. (n > 0 => ~e) /\ (t \in KProcs /\ n > 0 => FlagOf(g, i))
  BY DEF CpuRuns, FlagOf
<1> QED
  BY <1>6, <1>7, <1>8 DEF CpuRuns

\* release() up to popcli().
LEMMA ReleaseRuns ==
  ASSUME NEW c \in CPUs, NEW f \in Frames, NEW L \in [Locks -> CPUs \cup {NoCpu}], NEW n \in Nat,
         NEW e \in BOOLEAN, NEW i \in BOOLEAN, NEW t,
         CpuRuns(c, f, L, n, e, i, t), f.pc = "run", NEW l \in f.held,
         NEW g, g.pc = "pop", g.held = f.held \ {l}, g.kind = f.kind,
         NEW M, \A k \in Locks : M[k] = IF k = l THEN NoCpu ELSE L[k]
  PROVE  CpuRuns(c, g, M, n, e, i, t)
<1> DEFINE h == f.held \ {l}
<1>1. g.pc = "pop" /\ g.held = h /\ g.kind = f.kind /\ f.held \in SUBSET Locks /\ l \in Locks
  BY DEF Frames
<1>2. Cardinality(h) = Cardinality(f.held) - 1 /\ Cardinality(f.held) \in Nat
  BY <1>1, HeldFinite
<1>3. \A k \in Locks : k \in h <=> M[k] = c
  BY <1>1 DEF CpuRuns
<1>4. n = Cardinality(h) + 1
  BY <1>2 DEF CpuRuns
<1> HIDE DEF h
<1> QED
  BY <1>1, <1>2, <1>3, <1>4 DEF CpuRuns, FlagOf

\* popcli(): the last one brings the flag back.
LEMMA PopcliRuns ==
  ASSUME NEW c, NEW f \in Frames, NEW L, NEW n \in Nat, NEW e \in BOOLEAN, NEW i \in BOOLEAN,
         NEW t, CpuRuns(c, f, L, n, e, i, t), f.pc = "pop",
         NEW x \in BOOLEAN, x <=> e \/ (n = 1 /\ i),
         NEW g, g = [f EXCEPT !.pc = "run"], NEW m, m = n - 1
  PROVE  m \in Nat /\ CpuRuns(c, g, L, m, x, i, t)
<1>1. g.pc = "run" /\ g.held = f.held /\ g.kind = f.kind /\ f.held \in SUBSET Locks
  BY DEF Frames
<1>2. Cardinality(f.held) \in Nat
  BY <1>1, HeldFinite
<1>3. n - 1 = Cardinality(f.held) /\ n > 0 /\ ~e
  BY <1>2 DEF CpuRuns
<1>4. (n = 1 => (x <=> i)) /\ (n # 1 => ~x)
  BY <1>3
<1>5. t \in KProcs => FlagOf(g, i)
  BY <1>1, <1>3 DEF CpuRuns, FlagOf
<1>6. t \in KProcs /\ n - 1 = 0 => FlagOf(g, x)
  BY <1>4, <1>5 DEF FlagOf
<1>7. n - 1 > 0 => ~x
  BY <1>4
<1>8. \A l \in Locks : l \in g.held <=> L[l] = c
  BY <1>1 DEF CpuRuns
<1> QED
  BY <1>1, <1>2, <1>3, <1>5, <1>6, <1>7, <1>8 DEF CpuRuns

\* Code with interrupts on runs without locks.
LEMMA EnabledRuns ==
  ASSUME NEW c, NEW f \in Frames, NEW L, NEW n \in Nat, NEW i, NEW t,
         NEW e \in BOOLEAN, CpuRuns(c, f, L, n, e, i, t), e
  PROVE  f.pc = "run" /\ f.held = {} /\ n = 0 /\ (t \in KProcs => f.kind # "handler")
<1>1. f.held \in SUBSET Locks
  BY DEF Frames
<1>2. Cardinality(f.held) \in Nat /\ (f.held = {} <=> Cardinality(f.held) = 0)
  BY <1>1, HeldFinite
<1> QED
  BY <1>2 DEF CpuRuns, FlagOf

\* Without locks and out of acquire() and release(), ncli is 0.
LEMMA IdleCount ==
  ASSUME NEW c, NEW f, NEW L, NEW n, NEW e, NEW i, NEW t,
         CpuRuns(c, f, L, n, e, i, t), f.pc = "run", f.held = {}
  PROVE  n = 0 /\ \A l \in Locks : L[l] # c
BY FS_EmptySet DEF CpuRuns

-----------------------------------------------------------------------------
(* Spin locks: the stacks.                                                  *)

\* SetTop changes the code on top of one thread only.
LEMMA TopSet ==
  ASSUME SpinType, Interrupted, NEW t \in Threads, NEW f \in Frames, f.kind = Top(t).kind,
         SetTop(t, f)
  PROVE  /\ stack' \in [Threads -> Seq(Frames)] /\ Interrupted'
         /\ \A r \in Threads : Len(stack'[r]) = Len(stack[r])
         /\ \A r \in Threads : Last(stack'[r]) = IF r = t THEN f ELSE Last(stack[r])
<1> DEFINE s == stack[t]
           n == Len(s)
           r1 == Append(Front(s), f)
<1>1. s \in Seq(Frames) /\ n \in Nat /\ n > 0 /\ s # <<>>
  BY DEF SpinType, Interrupted
<1>2. /\ Front(s) \in Seq(Frames) /\ Len(Front(s)) = n - 1
      /\ \A i \in 1 .. n - 1 : Front(s)[i] = s[i]
  BY <1>1 DEF Front
<1>3. /\ r1 \in Seq(Frames) /\ Len(r1) = n /\ r1[n] = f
      /\ \A i \in 1 .. n - 1 : r1[i] = s[i]
  BY <1>1, <1>2
<1>4. stack' = [stack EXCEPT ![t] = r1]
  BY DEF SetTop
<1>5. stack' \in [Threads -> Seq(Frames)] /\ \A r \in Threads : stack'[r] = IF r = t THEN r1 ELSE stack[r]
  BY <1>3, <1>4 DEF SpinType
<1>6. Last(s) = s[n] /\ Last(r1) = f
  BY <1>1, <1>3 DEF Last
<1> HIDE DEF s, n, r1
<1>7. \A r \in Threads : Len(stack'[r]) = Len(stack[r])
  BY <1>3, <1>5 DEF n, s
<1>8. \A r \in Threads : Last(stack'[r]) = IF r = t THEN f ELSE Last(stack[r])
  BY <1>5, <1>6
<1>9. Interrupted'
  <2> SUFFICES ASSUME NEW r \in Threads
               PROVE  /\ Len(stack'[r]) > 0 /\ stack'[r][1].kind = "code"
                      /\ \A i \in 1 .. Len(stack'[r]) - 1 :
                           /\ stack'[r][i].pc = "run" /\ stack'[r][i].held = {}
                           /\ r \in KProcs => stack'[r][i].kind # "handler"
    BY DEF Interrupted, Threads
  <2>1. CASE r # t
    BY <1>5, <2>1, ZenonT(60) DEF Interrupted
  <2>2. CASE r = t
    <3>1. stack'[r] = r1 /\ stack[r] = s
      BY <1>5, <2>2 DEF s
    <3>2. s[1].kind = "code" /\ \A i \in 1 .. n - 1 :
             s[i].pc = "run" /\ s[i].held = {} /\ (r \in KProcs => s[i].kind # "handler")
      BY <3>1 DEF Interrupted, n
    <3>3. r1[1].kind = "code"
      <4>1. CASE n = 1
        <5>1. f.kind = s[1].kind
          BY <1>6, <4>1 DEF Top, s
        <5> QED
          BY <1>3, <3>2, <4>1, <5>1
      <4>2. CASE n # 1
        BY <1>1, <1>3, <3>2, <4>2
      <4> QED
        BY <4>1, <4>2
    <3> QED
      BY <1>1, <1>3, <3>1, <3>2, <3>3
  <2> QED
    BY <2>1, <2>2
<1> QED
  BY <1>5, <1>7, <1>8, <1>9

LEMMA TopType ==
  ASSUME SpinType, Interrupted, NEW t \in Threads
  PROVE  Top(t) \in Frames /\ Len(stack[t]) \in Nat \ {0} /\ Top(t) = stack[t][Len(stack[t])]
<1>1. stack[t] \in Seq(Frames) /\ Len(stack[t]) > 0
  BY DEF SpinType, Interrupted
<1> QED
  BY <1>1 DEF Top, Last

\* CPU c changes its own registers, and locks only it takes or gives.
LocalMove(c, n, e, i) ==
  /\ running' = running
  /\ n \in Nat /\ e \in BOOLEAN /\ i \in BOOLEAN
  /\ ncli' = [ncli EXCEPT ![c] = n] /\ eflags' = [eflags EXCEPT ![c] = e]
  /\ intena' = [intena EXCEPT ![c] = i]
  /\ locked' \in [Locks -> CPUs \cup {NoCpu}]
  /\ \A l \in Locks, d \in CPUs : d # c => (locked'[l] = d <=> locked[l] = d)

\* A step of a CPU on its own thread leaves the others as they are.
LEMMA LocalStep ==
  ASSUME SpinInv, NEW c \in CPUs, NEW n, NEW e, NEW i, NEW f, LocalMove(c, n, e, i),
         stack' \in [Threads -> Seq(Frames)], Interrupted',
         \A r \in Threads : r # running[c] =>
           Len(stack'[r]) = Len(stack[r]) /\ Last(stack'[r]) = Last(stack[r]),
         Last(stack'[running[c]]) = f,
         CpuRuns(c, f, locked', n, e, i, running[c])
  PROVE  SpinInv'
<1> USE DEF SpinInv, LocalMove
<1>1. SpinType'
  BY DEF SpinType
<1>2. Placed'
  BY DEF Placed
<1>3. \A d \in CPUs : running[d] \in Threads
  BY DEF SpinType
<1>4. CpusRun'
  <2> SUFFICES ASSUME NEW d \in CPUs
               PROVE  CpuRuns(d, Last(stack'[running'[d]]), locked', ncli'[d], eflags'[d],
                              intena'[d], running'[d])
    BY DEF CpusRun, Top
  <2>1. CASE d = c
    BY <2>1 DEF SpinType
  <2>2. CASE d # c
    <3>1. running[d] # running[c]
      BY <2>2 DEF Placed
    <3>2. ncli'[d] = ncli[d] /\ eflags'[d] = eflags[d] /\ intena'[d] = intena[d]
      BY <2>2 DEF SpinType
    <3>3. PICK g : g = Last(stack[running[d]])
      OBVIOUS
    <3>4. Last(stack'[running[d]]) = g
      BY <1>3, <3>1, <3>3
    <3>5. CpuRuns(d, g, locked, ncli[d], eflags[d], intena[d], running[d])
      BY <3>3 DEF CpusRun, Top
    <3>6. \A l \in Locks : locked'[l] = d <=> locked[l] = d
      BY <2>2
    <3>7. CpuRuns(d, g, locked', ncli[d], eflags[d], intena[d], running[d])
      BY <3>5, <3>6 DEF CpuRuns
    <3> QED
      BY <3>2, <3>4, <3>7
  <2> QED
    BY <2>1, <2>2
<1>5. OthersWait'
  <2> SUFFICES ASSUME NEW r \in Threads, \A d \in CPUs : running[d] # r
               PROVE  Waits(r, Last(stack'[r]), Len(stack'[r]))
    BY DEF OthersWait, Top, Threads
  <2>1. Waits(r, Last(stack[r]), Len(stack[r]))
    BY DEF OthersWait, Top
  <2> QED
    BY <2>1
<1> QED
  BY <1>1, <1>2, <1>4, <1>5

\* The same for a step that changes the code on top and no more of the stack.
LEMMA TopStep ==
  ASSUME SpinInv, NEW c \in CPUs, NEW n, NEW e, NEW i, NEW f \in Frames, LocalMove(c, n, e, i),
         SetTop(running[c], f), f.kind = Top(running[c]).kind,
         CpuRuns(c, f, locked', n, e, i, running[c])
  PROVE  SpinInv'
<1>1. running[c] \in Threads /\ SpinType /\ Interrupted
  BY DEF SpinInv, SpinType
<1>2. /\ stack' \in [Threads -> Seq(Frames)] /\ Interrupted'
      /\ \A r \in Threads : Len(stack'[r]) = Len(stack[r])
      /\ \A r \in Threads : Last(stack'[r]) = IF r = running[c] THEN f ELSE Last(stack[r])
  BY <1>1, TopSet
<1>3. Last(stack'[running[c]]) = f
  BY <1>1, <1>2
<1>4. \A r \in Threads : r # running[c] =>
           Len(stack'[r]) = Len(stack[r]) /\ Last(stack'[r]) = Last(stack[r])
  BY <1>2
<1> QED
  BY <1>2, <1>3, <1>4, LocalStep

-----------------------------------------------------------------------------
(* Spin locks: the steps.                                                   *)

\* What CPU c is doing.
LEMMA NowRuns ==
  ASSUME SpinInv, NEW c \in CPUs
  PROVE  /\ running[c] \in Threads /\ Top(running[c]) \in Frames
         /\ ncli[c] \in Nat /\ eflags[c] \in BOOLEAN /\ intena[c] \in BOOLEAN
         /\ locked \in [Locks -> CPUs \cup {NoCpu}]
         /\ CpuRuns(c, Top(running[c]), locked, ncli[c], eflags[c], intena[c], running[c])
BY TopType DEF SpinInv, SpinType, CpusRun

LEMMA AcquireStep ==
  ASSUME SpinInv, NEW c \in CPUs, NEW l \in Locks, Acquire(c, l) PROVE SpinInv'
<1>1. PICK f \in Frames : f = Top(running[c])
  BY NowRuns
<1>2. PICK n \in Nat, e \in BOOLEAN, i \in BOOLEAN : n = ncli[c] /\ e = eflags[c] /\ i = intena[c]
  BY NowRuns
<1>3. f.pc = "run" /\ \A k \in f.held : k < l
  BY <1>1 DEF Acquire, MayAcquire
<1>4. PICK g : g = [f EXCEPT !.pc = "spin", !.want = l]
  OBVIOUS
<1>5. g \in Frames /\ g.kind = f.kind
  BY <1>4 DEF Frames
<1>6. PICK j \in BOOLEAN : j = IF n = 0 THEN e ELSE i
  OBVIOUS
<1>7. CpuRuns(c, g, locked, n + 1, FALSE, j, running[c])
  <2>1. CpuRuns(c, f, locked, n, e, i, running[c])
    BY <1>1, <1>2, NowRuns
  <2>2. PICK m : m = n + 1
    OBVIOUS
  <2>3. CpuRuns(c, g, locked, m, FALSE, j, running[c])
    BY <1>3, <1>4, <1>6, <2>1, <2>2, AcquireRuns, ZenonT(60)
  <2> QED
    BY <2>2, <2>3
<1>8. /\ eflags' = [eflags EXCEPT ![c] = FALSE] /\ ncli' = [ncli EXCEPT ![c] = n + 1]
      /\ intena' = [intena EXCEPT ![c] = j]
  BY <1>2, <1>6 DEF Acquire, Pushcli
<1>9. SetTop(running[c], g) /\ locked' = locked /\ running' = running
  BY <1>1, <1>4 DEF Acquire
<1>10. LocalMove(c, n + 1, FALSE, j)
  BY <1>8, <1>9, NowRuns DEF LocalMove
<1> QED
  BY <1>1, <1>5, <1>7, <1>9, <1>10, TopStep

LEMMA XchgStep ==
  ASSUME SpinInv, NEW c \in CPUs, Xchg(c) PROVE SpinInv'
<1>1. PICK f \in Frames : f = Top(running[c])
  BY NowRuns
<1>2. PICK n \in Nat, e \in BOOLEAN, i \in BOOLEAN : n = ncli[c] /\ e = eflags[c] /\ i = intena[c]
  BY NowRuns
<1>3. f.pc = "spin" /\ locked[f.want] = NoCpu /\ f.want \in Locks /\ f.held \in SUBSET Locks
  BY <1>1 DEF Xchg, Frames
<1>4. PICK g : g = [f EXCEPT !.pc = "run", !.want = Ptable, !.held = f.held \cup {f.want}]
  OBVIOUS
<1>5. g \in Frames /\ g.kind = f.kind
  BY <1>3, <1>4 DEF Frames
<1>6. locked' = [locked EXCEPT ![f.want] = c] /\ SetTop(running[c], g) /\ running' = running
  BY <1>1, <1>4 DEF Xchg
<1>7. CpuRuns(c, g, locked', n, e, i, running[c])
  <2>1. CpuRuns(c, f, locked, n, e, i, running[c]) /\ locked \in [Locks -> CPUs \cup {NoCpu}]
    BY <1>1, <1>2, NowRuns
  <2>2. PICK L, M : L = locked /\ M = locked'
    OBVIOUS
  <2>3. /\ CpuRuns(c, f, L, n, e, i, running[c]) /\ L \in [Locks -> CPUs \cup {NoCpu}]
        /\ \A k \in Locks : M[k] = IF k = f.want THEN c ELSE L[k]
        /\ g.pc = "run" /\ g.held = f.held \cup {f.want} /\ g.kind = f.kind
    BY <1>4, <1>6, <2>1, <2>2 DEF Frames
  <2>4. CpuRuns(c, g, M, n, e, i, running[c])
    BY <1>3, <2>3, XchgRuns
  <2> QED
    BY <2>2, <2>4
<1>8. /\ eflags' = [eflags EXCEPT ![c] = e] /\ ncli' = [ncli EXCEPT ![c] = n]
      /\ intena' = [intena EXCEPT ![c] = i]
  BY <1>2 DEF Xchg, SpinInv, SpinType
<1>9. LocalMove(c, n, e, i)
  BY <1>3, <1>6, <1>8, NowRuns DEF LocalMove
<1> QED
  BY <1>1, <1>5, <1>6, <1>7, <1>9, TopStep

LEMMA ReleaseStep ==
  ASSUME SpinInv, NEW c \in CPUs, NEW l \in Locks, Release(c, l) PROVE SpinInv'
<1>1. PICK f \in Frames : f = Top(running[c])
  BY NowRuns
<1>2. PICK n \in Nat, e \in BOOLEAN, i \in BOOLEAN : n = ncli[c] /\ e = eflags[c] /\ i = intena[c]
  BY NowRuns
<1>3. f.pc = "run" /\ l \in f.held /\ f.held \in SUBSET Locks
  BY <1>1 DEF Release, Frames
<1>4. PICK g : g = [f EXCEPT !.pc = "pop", !.held = f.held \ {l}]
  OBVIOUS
<1>5. g \in Frames /\ g.kind = f.kind
  BY <1>3, <1>4 DEF Frames
<1>6. locked' = [locked EXCEPT ![l] = NoCpu] /\ SetTop(running[c], g) /\ running' = running
  BY <1>1, <1>4 DEF Release
<1>7. CpuRuns(c, g, locked', n, e, i, running[c])
  <2>1. CpuRuns(c, f, locked, n, e, i, running[c]) /\ locked \in [Locks -> CPUs \cup {NoCpu}]
    BY <1>1, <1>2, NowRuns
  <2>2. PICK L, M : L = locked /\ M = locked'
    OBVIOUS
  <2>3. /\ CpuRuns(c, f, L, n, e, i, running[c]) /\ L \in [Locks -> CPUs \cup {NoCpu}]
        /\ \A k \in Locks : M[k] = IF k = l THEN NoCpu ELSE L[k]
        /\ g.pc = "pop" /\ g.held = f.held \ {l} /\ g.kind = f.kind
    BY <1>4, <1>6, <2>1, <2>2 DEF Frames
  <2>4. CpuRuns(c, g, M, n, e, i, running[c])
    BY <1>3, <2>3, ReleaseRuns
  <2> QED
    BY <2>2, <2>4
<1>8. /\ eflags' = [eflags EXCEPT ![c] = e] /\ ncli' = [ncli EXCEPT ![c] = n]
      /\ intena' = [intena EXCEPT ![c] = i]
  BY <1>2 DEF Release, SpinInv, SpinType
<1>9. locked[l] = c
  BY <1>1, <1>3, NowRuns DEF CpuRuns
<1>10. LocalMove(c, n, e, i)
  BY <1>6, <1>8, <1>9, NowRuns DEF LocalMove
<1> QED
  BY <1>1, <1>5, <1>6, <1>7, <1>10, TopStep

LEMMA PopcliStep ==
  ASSUME SpinInv, NEW c \in CPUs, Popcli(c) PROVE SpinInv'
<1>1. PICK f \in Frames : f = Top(running[c])
  BY NowRuns
<1>2. PICK n \in Nat, e \in BOOLEAN, i \in BOOLEAN : n = ncli[c] /\ e = eflags[c] /\ i = intena[c]
  BY NowRuns
<1>3. f.pc = "pop"
  BY <1>1 DEF Popcli
<1>4. PICK g : g = [f EXCEPT !.pc = "run"]
  OBVIOUS
<1>5. g \in Frames /\ g.kind = f.kind
  BY <1>4 DEF Frames
<1>6. PICK x \in BOOLEAN : x = (e \/ (n = 1 /\ i))
  BY ZenonT(60)
<1>7. n - 1 \in Nat /\ CpuRuns(c, g, locked, n - 1, x, i, running[c])
  <2>1. CpuRuns(c, f, locked, n, e, i, running[c])
    BY <1>1, <1>2, NowRuns
  <2>2. PICK m : m = n - 1
    OBVIOUS
  <2>3. m \in Nat /\ CpuRuns(c, g, locked, m, x, i, running[c])
    BY <1>3, <1>4, <1>6, <2>1, <2>2, PopcliRuns
  <2> QED
    BY <2>2, <2>3
<1>8. /\ ncli' = [ncli EXCEPT ![c] = n - 1] /\ locked' = locked /\ running' = running
      /\ SetTop(running[c], g) /\ intena' = intena
  BY <1>1, <1>2, <1>4 DEF Popcli
<1>9. eflags' = [eflags EXCEPT ![c] = x]
  BY <1>2, <1>6 DEF Popcli
<1>10. intena' = [intena EXCEPT ![c] = i] /\ locked' \in [Locks -> CPUs \cup {NoCpu}]
  BY <1>2, <1>8 DEF SpinInv, SpinType
<1>11. LocalMove(c, n - 1, x, i)
  BY <1>7, <1>8, <1>9, <1>10 DEF LocalMove
<1> QED
  BY <1>1, <1>5, <1>7, <1>8, <1>11, TopStep

LEMMA InterruptStep ==
  ASSUME SpinInv, NEW c \in CPUs, Interrupt(c) PROVE SpinInv'
<1> USE DEF SpinInv
<1>1. PICK t \in Threads : t = running[c]
  BY NowRuns
<1>2. PICK s \in Seq(Frames) : s = stack[t]
  BY DEF SpinType
<1>3. Len(s) \in Nat \ {0} /\ Top(t) = s[Len(s)] /\ Top(t) \in Frames
  BY <1>2, TopType
<1>4. /\ Top(t).pc = "run" /\ Top(t).held = {} /\ ncli[c] = 0 /\ t \in KProcs => Top(t).kind # "handler"
      /\ Top(t).pc = "run" /\ Top(t).held = {} /\ ncli[c] = 0
  BY <1>1, NowRuns, EnabledRuns DEF Interrupt
<1>5. PICK f \in Frames : f = Frame("handler")
  BY DEF Frame, Frames
<1>6. PICK r : r = Append(s, f)
  OBVIOUS
<1>7. /\ r \in Seq(Frames) /\ Len(r) = Len(s) + 1 /\ r[Len(s) + 1] = f
      /\ \A i \in 1 .. Len(s) : r[i] = s[i]
  BY <1>3, <1>6
<1>8. stack' = [stack EXCEPT ![t] = r]
  BY <1>1, <1>2, <1>5, <1>6 DEF Interrupt
<1>9. /\ stack' \in [Threads -> Seq(Frames)] /\ stack'[t] = r
      /\ \A q \in Threads : q # t => stack'[q] = stack[q]
  BY <1>7, <1>8 DEF SpinType
<1>10. Last(stack'[t]) = f
  BY <1>3, <1>7, <1>9 DEF Last
<1>11. Interrupted'
  <2> SUFFICES ASSUME NEW q \in Threads
               PROVE  /\ Len(stack'[q]) > 0 /\ stack'[q][1].kind = "code"
                      /\ \A i \in 1 .. Len(stack'[q]) - 1 :
                           /\ stack'[q][i].pc = "run" /\ stack'[q][i].held = {}
                           /\ q \in KProcs => stack'[q][i].kind # "handler"
    BY DEF Interrupted, Threads
  <2>1. CASE q # t
    BY <1>9, <2>1 DEF Interrupted
  <2>2. CASE q = t
    <3>1. s[1].kind = "code" /\ \A i \in 1 .. Len(s) - 1 :
             s[i].pc = "run" /\ s[i].held = {} /\ (t \in KProcs => s[i].kind # "handler")
      BY <1>2 DEF Interrupted
    <3>2. \A i \in 1 .. Len(s) :
             s[i].pc = "run" /\ s[i].held = {} /\ (t \in KProcs => s[i].kind # "handler")
      BY <1>3, <1>4, <3>1
    <3> QED
      BY <1>3, <1>7, <1>9, <2>2, <3>1, <3>2
  <2> QED
    BY <2>1, <2>2
<1>12. PICK j \in BOOLEAN : j = intena[c]
  BY NowRuns
<1>13. /\ locked' = locked /\ running' = running /\ ncli' = ncli /\ intena' = intena
       /\ eflags' = [eflags EXCEPT ![c] = FALSE]
  BY DEF Interrupt
<1>14. LocalMove(c, 0, FALSE, j)
  <2>1. ncli' = [ncli EXCEPT ![c] = 0] /\ intena' = [intena EXCEPT ![c] = j]
    BY <1>4, <1>12, <1>13 DEF SpinType
  <2> QED
    BY <1>13, <2>1, NowRuns DEF LocalMove
<1>15. CpuRuns(c, f, locked', 0, FALSE, j, t)
  <2>1. f.pc = "run" /\ f.held = {} /\ f.kind = "handler"
    BY <1>5 DEF Frame
  <2>2. \A l \in Locks : locked[l] # c
    BY <1>1, <1>4, NowRuns DEF CpuRuns
  <2> QED
    BY <1>13, <2>1, <2>2, FS_EmptySet DEF CpuRuns, FlagOf
<1>16. \A q \in Threads : q # running[c] =>
           Len(stack'[q]) = Len(stack[q]) /\ Last(stack'[q]) = Last(stack[q])
  BY <1>1, <1>9
<1> QED
  BY <1>1, <1>9, <1>10, <1>11, <1>14, <1>15, <1>16, LocalStep

LEMMA IretStep ==
  ASSUME SpinInv, NEW c \in CPUs, Iret(c) PROVE SpinInv'
<1> USE DEF SpinInv
<1>1. PICK t \in Threads : t = running[c]
  BY NowRuns
<1>2. PICK s \in Seq(Frames) : s = stack[t]
  BY DEF SpinType
<1>3. Len(s) \in Nat \ {0} /\ Top(t) = s[Len(s)]
  BY <1>2, TopType
<1>4. Top(t).kind # "code" /\ Top(t).pc = "run" /\ Top(t).held = {}
  BY <1>1 DEF Iret
<1>5. s[1].kind = "code" /\ \A i \in 1 .. Len(s) - 1 :
         s[i].pc = "run" /\ s[i].held = {} /\ (t \in KProcs => s[i].kind # "handler")
  BY <1>2 DEF Interrupted
<1>6. Len(s) > 1
  BY <1>3, <1>4, <1>5
<1>7. PICK r : r = Front(s)
  OBVIOUS
<1>8. /\ r \in Seq(Frames) /\ Len(r) = Len(s) - 1
      /\ \A i \in 1 .. Len(s) - 1 : r[i] = s[i]
  BY <1>3, <1>6, <1>7 DEF Front
<1>9. stack' = [stack EXCEPT ![t] = r]
  BY <1>1, <1>2, <1>7 DEF Iret
<1>10. /\ stack' \in [Threads -> Seq(Frames)] /\ stack'[t] = r
       /\ \A q \in Threads : q # t => stack'[q] = stack[q]
  BY <1>8, <1>9 DEF SpinType
<1>11. PICK f \in Frames : f = r[Len(s) - 1]
  BY <1>3, <1>6, <1>8
<1>12. Last(stack'[t]) = f
  BY <1>8, <1>10, <1>11 DEF Last
<1>13. Interrupted'
  <2> SUFFICES ASSUME NEW q \in Threads
               PROVE  /\ Len(stack'[q]) > 0 /\ stack'[q][1].kind = "code"
                      /\ \A i \in 1 .. Len(stack'[q]) - 1 :
                           /\ stack'[q][i].pc = "run" /\ stack'[q][i].held = {}
                           /\ q \in KProcs => stack'[q][i].kind # "handler"
    BY DEF Interrupted, Threads
  <2>1. CASE q # t
    BY <1>10, <2>1 DEF Interrupted
  <2>2. CASE q = t
    BY <1>3, <1>5, <1>6, <1>8, <1>10, <2>2
  <2> QED
    BY <2>1, <2>2
<1>14. PICK j \in BOOLEAN : j = intena[c]
  BY NowRuns
<1>15. /\ locked' = locked /\ running' = running /\ ncli' = ncli /\ intena' = intena
       /\ eflags' = [eflags EXCEPT ![c] = TRUE]
  BY DEF Iret
<1>16. ncli[c] = 0 /\ \A l \in Locks : locked[l] # c
  BY <1>1, <1>4, NowRuns, IdleCount
<1>17. LocalMove(c, 0, TRUE, j)
  <2>1. ncli' = [ncli EXCEPT ![c] = 0] /\ intena' = [intena EXCEPT ![c] = j]
    BY <1>14, <1>15, <1>16 DEF SpinType
  <2> QED
    BY <1>15, <2>1, NowRuns DEF LocalMove
<1>18. CpuRuns(c, f, locked', 0, TRUE, j, t)
  <2>1. f.pc = "run" /\ f.held = {} /\ (t \in KProcs => f.kind # "handler")
    BY <1>3, <1>5, <1>6, <1>8, <1>11
  <2> QED
    BY <1>15, <1>16, <2>1, FS_EmptySet DEF CpuRuns, FlagOf
<1>19. \A q \in Threads : q # running[c] =>
           Len(stack'[q]) = Len(stack[q]) /\ Last(stack'[q]) = Last(stack[q])
  BY <1>1, <1>10
<1> QED
  BY <1>1, <1>10, <1>12, <1>13, <1>17, <1>18, <1>19, LocalStep

LEMMA StiStep ==
  ASSUME SpinInv, NEW c \in CPUs, Sti(c) PROVE SpinInv'
<1> USE DEF SpinInv
<1>1. PICK f \in Frames : f = Top(running[c])
  BY NowRuns
<1>2. f.pc = "run" /\ f.held = {} /\ running[c] = c /\ c \notin KProcs
  BY <1>1 DEF Sti
<1>3. ncli[c] = 0 /\ \A l \in Locks : locked[l] # c
  BY <1>1, <1>2, NowRuns, IdleCount
<1>4. PICK j \in BOOLEAN : j = intena[c]
  BY NowRuns
<1>5. UNCHANGED <<locked, ncli, intena, running, stack>> /\ eflags' = [eflags EXCEPT ![c] = TRUE]
  BY DEF Sti
<1>6. LocalMove(c, 0, TRUE, j)
  <2>1. ncli' = [ncli EXCEPT ![c] = 0] /\ intena' = [intena EXCEPT ![c] = j]
    BY <1>3, <1>4, <1>5 DEF SpinType
  <2> QED
    BY <1>5, <2>1, NowRuns DEF LocalMove
<1>7. CpuRuns(c, f, locked', 0, TRUE, j, running[c])
  BY <1>2, <1>3, <1>5, FS_EmptySet DEF CpuRuns, FlagOf
<1>8. stack' \in [Threads -> Seq(Frames)] /\ Interrupted' /\ Last(stack'[running[c]]) = f
  BY <1>1, <1>5 DEF SpinType, Interrupted, Top
<1>9. \A q \in Threads : q # running[c] =>
           Len(stack'[q]) = Len(stack[q]) /\ Last(stack'[q]) = Last(stack[q])
  BY <1>5
<1> QED
  BY <1>6, <1>7, <1>8, <1>9, LocalStep

\* sched() and the scheduler exchange the thread and keep the CPU's registers:
\* both sides hold ptable.lock in their own view.
LEMMA SwitchStep ==
  ASSUME SpinInv, NEW c \in CPUs, NEW t \in KProcs \cup {c}, NEW p \in KProcs,
         NEW f \in Frames, NEW i \in BOOLEAN,
         running' = [running EXCEPT ![c] = t],
         t = c => running[c] = p, t # c => running[c] = c /\ t = p,
         locked' = locked, eflags' = eflags, ncli' = ncli,
         intena' = [intena EXCEPT ![c] = i],
         SetTop(p, f), f.kind = Top(p).kind, f.held = {Ptable},
         t = c => Waits(p, f, Len(stack[p])),
         t # c => /\ f.pc = "run" /\ FlagOf(f, i) /\ \A d \in CPUs : running[d] # p
                  /\ Waits(c, Top(c), Len(stack[c])),
         ncli[c] = 1, \A l \in Locks : locked[l] = c <=> l = Ptable
  PROVE  SpinInv'
<1> USE DEF SpinInv
<1>1. p \in Threads /\ c \in Threads /\ t \in Threads /\ p \notin CPUs /\ c \notin KProcs /\ p # c
  BY DEF Threads
<1>2. /\ stack' \in [Threads -> Seq(Frames)] /\ Interrupted'
      /\ \A r \in Threads : Len(stack'[r]) = Len(stack[r])
      /\ \A r \in Threads : Last(stack'[r]) = IF r = p THEN f ELSE Last(stack[r])
  BY <1>1, TopSet
<1>3. \A d \in CPUs : running'[d] = IF d = c THEN t ELSE running[d]
  BY DEF SpinType
<1>4. SpinType'
  BY <1>1, <1>2 DEF SpinType
<1>5. \A d \in CPUs : d # c => running[d] # t /\ running[d] # p /\ running[d] # c
  BY <1>1 DEF Placed
<1>6. Placed'
  BY <1>3, <1>5 DEF Placed
<1>7. CpusRun'
  <2> SUFFICES ASSUME NEW d \in CPUs
               PROVE  CpuRuns(d, Last(stack'[running'[d]]), locked', ncli'[d], eflags'[d],
                              intena'[d], running'[d])
    BY DEF CpusRun, Top
  <2>1. CASE d # c
    <3>1. running'[d] = running[d] /\ running[d] \in Threads /\ running[d] # p
      BY <1>3, <1>5, <2>1, NowRuns
    <3>2. Last(stack'[running'[d]]) = Top(running[d])
      BY <1>2, <3>1 DEF Top
    <3>3. intena'[d] = intena[d]
      BY <2>1 DEF SpinType
    <3> QED
      BY <3>1, <3>2, <3>3, NowRuns
  <2>2. CASE d = c
    <3>1. PICK g : g = Last(stack'[t])
      OBVIOUS
    <3>2. g.pc = "run" /\ g.held = {Ptable} /\ (t \in KProcs => FlagOf(g, i))
      <4>1. CASE t = c
        <5>1. g = Top(c)
          BY <1>1, <1>2, <3>1, <4>1 DEF Top
        <5>2. Waits(c, Top(c), Len(stack[c]))
          <6>1. \A b \in CPUs : running[b] # c
            BY <1>1, <1>5, <4>1
          <6> QED
            BY <1>1, <6>1 DEF OthersWait
        <5> QED
          BY <1>1, <4>1, <5>1, <5>2 DEF Waits
      <4>2. CASE t # c
        <5>1. g = f
          BY <1>1, <1>2, <3>1, <4>2
        <5> QED
          BY <4>2, <5>1
      <4> QED
        BY <4>1, <4>2
    <3>3. ~eflags[c]
      BY NowRuns DEF CpuRuns
    <3>4. Cardinality({Ptable}) = 1
      BY FS_Singleton
    <3>5. Cardinality(g.held) = 1
      BY <3>2, <3>4
    <3>6. \A l \in Locks : l \in g.held <=> locked[l] = c
      BY <3>2
    <3>7. CpuRuns(c, g, locked, 1, eflags[c], i, t)
      BY <3>2, <3>3, <3>5, <3>6 DEF CpuRuns
    <3>8. running'[c] = t /\ intena'[c] = i
      BY <1>3 DEF SpinType
    <3> QED
      BY <2>2, <3>1, <3>7, <3>8
  <2> QED
    BY <2>1, <2>2
<1>8. OthersWait'
  <2> SUFFICES ASSUME NEW r \in Threads, \A d \in CPUs : running'[d] # r
               PROVE  Waits(r, Last(stack'[r]), Len(stack'[r]))
    BY DEF OthersWait, Top, Threads
  <2>1. r # t
    BY <1>3
  <2>2. CASE r = p
    <3>1. t = c
      BY <2>1, <2>2
    <3> QED
      BY <1>1, <1>2, <2>2, <3>1
  <2>3. CASE r # p
    <3>1. Waits(r, Top(r), Len(stack[r]))
      <4>1. CASE r = c
        BY <2>1, <4>1
      <4>2. CASE r # c
        <5>1. running[c] # r
          BY <2>3, <4>2
        <5>2. \A d \in CPUs : running[d] # r
          BY <1>3, <5>1
        <5> QED
          BY <5>2 DEF OthersWait
      <4> QED
        BY <4>1, <4>2
    <3> QED
      BY <1>2, <2>3, <3>1 DEF Top
  <2> QED
    BY <2>2, <2>3
<1> QED
  BY <1>2, <1>4, <1>6, <1>7, <1>8

LEMMA SchedStep ==
  ASSUME SpinInv, NEW c \in CPUs, Sched(c) PROVE SpinInv'
<1>1. PICK p \in KProcs : p = running[c]
  BY DEF Sched
<1>2. PICK g \in Frames : g = Top(p)
  BY <1>1, NowRuns
<1>3. PICK i \in BOOLEAN : i = intena[c]
  BY NowRuns
<1>4. g.pc = "run" /\ g.held = {Ptable}
  BY <1>1, <1>2 DEF Sched
<1>5. CpuRuns(c, g, locked, ncli[c], eflags[c], i, p)
  BY <1>1, <1>2, <1>3, NowRuns
<1>6. ncli[c] = 1 /\ (\A l \in Locks : locked[l] = c <=> l = Ptable) /\ FlagOf(g, i)
  <2>1. Cardinality(g.held) = 1
    BY <1>4, FS_Singleton
  <2> QED
    BY <1>4, <1>5, <2>1 DEF CpuRuns
<1>7. PICK f : f = [g EXCEPT !.pc = "off", !.intena = i]
  OBVIOUS
<1>8. f \in Frames /\ f.kind = g.kind /\ f.held = {Ptable} /\ f.pc = "off" /\ f.intena = i
  BY <1>4, <1>7 DEF Frames
<1>9. Waits(p, f, Len(stack[p]))
  <2>1. p \notin CPUs
    OBVIOUS
  <2>2. FlagOf(f, f.intena)
    BY <1>6, <1>8 DEF FlagOf
  <2> QED
    BY <1>8, <2>1, <2>2 DEF Waits
<1>10. /\ running' = [running EXCEPT ![c] = c] /\ SetTop(p, f)
       /\ locked' = locked /\ eflags' = eflags /\ ncli' = ncli
  BY <1>1, <1>2, <1>3, <1>7 DEF Sched
<1>11. intena' = [intena EXCEPT ![c] = i]
  BY <1>3 DEF Sched, SpinInv, SpinType
<1> QED
  BY <1>1, <1>2, <1>6, <1>8, <1>9, <1>10, <1>11, SwitchStep

LEMMA DispatchStep ==
  ASSUME SpinInv, NEW c \in CPUs, NEW p \in KProcs, Dispatch(c, p) PROVE SpinInv'
<1>1. p \in Threads /\ c \in Threads /\ p # c /\ c \notin KProcs /\ p \notin CPUs
  BY DEF Threads
<1>2. PICK g \in Frames : g = Top(p)
  BY <1>1, TopType DEF SpinInv
<1>3. g.pc \in {"new", "off"} /\ running[c] = c /\ Len(stack[c]) = 1
  BY <1>2 DEF Dispatch
<1>4. \A d \in CPUs : running[d] # p
  BY <1>2, <1>3, NowRuns DEF CpuRuns
<1>5. Waits(p, g, Len(stack[p]))
  BY <1>1, <1>2, <1>4 DEF SpinInv, OthersWait
<1>6. PICK i \in BOOLEAN : i = IF g.pc = "off" THEN g.intena ELSE intena[c]
  <2>1. g.intena \in BOOLEAN /\ intena[c] \in BOOLEAN
    BY NowRuns DEF Frames
  <2> QED
    BY <2>1
<1>7. PICK f : f = [g EXCEPT !.pc = "run", !.intena = FALSE]
  OBVIOUS
<1>8. f \in Frames /\ f.kind = g.kind /\ f.held = {Ptable} /\ f.pc = "run"
  BY <1>1, <1>5, <1>7 DEF Frames, Waits
<1>9. FlagOf(f, i)
  BY <1>1, <1>3, <1>5, <1>6, <1>8 DEF Waits, FlagOf
<1>10. PICK h \in Frames : h = Top(c) /\ h.pc = "run" /\ h.held = {Ptable}
  BY <1>1, TopType DEF SpinInv, Dispatch
<1>11. Waits(c, Top(c), Len(stack[c]))
  BY <1>3, <1>10 DEF Waits
<1>12. CpuRuns(c, h, locked, ncli[c], eflags[c], intena[c], c)
  BY <1>3, <1>10, NowRuns
<1>13. ncli[c] = 1 /\ \A l \in Locks : locked[l] = c <=> l = Ptable
  <2>1. Cardinality(h.held) = 1
    BY <1>10, FS_Singleton
  <2> QED
    BY <1>10, <1>12, <2>1 DEF CpuRuns
<1>14. /\ running' = [running EXCEPT ![c] = p] /\ SetTop(p, f)
       /\ locked' = locked /\ eflags' = eflags /\ ncli' = ncli
  BY <1>2, <1>7 DEF Dispatch
<1>15. intena' = [intena EXCEPT ![c] = i]
  BY <1>2, <1>6 DEF Dispatch
<1> QED
  BY <1>1, <1>2, <1>3, <1>4, <1>8, <1>9, <1>11, <1>13, <1>14, <1>15, SwitchStep

\* The schedulers start alone, the processes wait in front of forkret().
LEMMA SpinStart == SpinInit => SpinInv
<1> SUFFICES ASSUME SpinInit PROVE SpinInv
  OBVIOUS
<1> DEFINE a == Frame("code")
           b == [Frame("forkret") EXCEPT !.pc = "new", !.held = {Ptable}]
<1>1. a \in Frames /\ a.kind = "code" /\ a.pc = "run" /\ a.held = {}
  BY DEF Frame, Frames
<1>2. b \in Frames /\ b.kind = "forkret" /\ b.pc = "new" /\ b.held = {Ptable}
  BY DEF Frame, Frames
<1>3. stack = [t \in Threads |-> IF t \in CPUs THEN <<a>> ELSE <<a, b>>]
  BY DEF SpinInit
<1> HIDE DEF a, b
<1>4. \A t \in CPUs : t \in Threads /\ stack[t] = <<a>> /\ Len(stack[t]) = 1 /\ Top(t) = a
  BY <1>1, <1>3 DEF Threads, Top, Last
<1>5. \A t \in KProcs : t \in Threads /\ stack[t] = <<a, b>> /\ Len(stack[t]) = 2 /\ Top(t) = b
  BY <1>1, <1>2, <1>3 DEF Threads, Top, Last
<1>6. SpinType
  <2>1. stack \in [Threads -> Seq(Frames)]
    BY <1>1, <1>2, <1>3
  <2> QED
    BY <2>1 DEF SpinInit, SpinType, Threads
<1>7. Interrupted
  <2> SUFFICES ASSUME NEW t \in Threads
               PROVE  /\ Len(stack[t]) > 0 /\ stack[t][1].kind = "code"
                      /\ \A i \in 1 .. Len(stack[t]) - 1 :
                           /\ stack[t][i].pc = "run" /\ stack[t][i].held = {}
                           /\ t \in KProcs => stack[t][i].kind # "handler"
    BY DEF Interrupted
  <2>1. CASE t \in CPUs
    <3>1. stack[t] = <<a>> /\ Len(stack[t]) = 1
      BY <1>4, <2>1
    <3>2. stack[t][1] = a
      BY <3>1
    <3>3. \A i \in 1 .. Len(stack[t]) - 1 : FALSE
      <4>1. \A n : n = 1 => \A i \in 1 .. n - 1 : FALSE
        OBVIOUS
      <4> QED
        BY <3>1, <4>1
    <3> QED
      BY <1>1, <3>1, <3>2, <3>3
  <2>2. CASE t \in KProcs
    <3>1. stack[t][1] = a /\ \A i \in 1 .. Len(stack[t]) - 1 : i = 1
      <4>1. stack[t] = <<a, b>> /\ Len(stack[t]) = 2
        BY <1>5, <2>2
      <4>2. \A n : n = 2 => \A i \in 1 .. n - 1 : i = 1
        OBVIOUS
      <4>3. stack[t][1] = a
        BY <4>1
      <4> QED
        BY <4>1, <4>2, <4>3
    <3> QED
      BY <1>1, <1>5, <2>2, <3>1
  <2> QED
    BY <2>1, <2>2 DEF Threads
<1>8. Placed
  BY DEF SpinInit, Placed
<1>9. CpusRun
  <2> SUFFICES ASSUME NEW c \in CPUs
               PROVE  CpuRuns(c, Top(running[c]), locked, ncli[c], eflags[c], intena[c], running[c])
    BY DEF CpusRun
  <2>1. running[c] = c /\ ncli[c] = 0 /\ c \notin KProcs /\ \A l \in Locks : locked[l] # c
    BY DEF SpinInit
  <2>2. Top(running[c]) = a
    BY <1>4, <2>1
  <2> QED
    BY <1>1, <2>1, <2>2, FS_EmptySet DEF CpuRuns
<1>10. OthersWait
  <2> SUFFICES ASSUME NEW t \in Threads, \A c \in CPUs : running[c] # t
               PROVE  Waits(t, Top(t), Len(stack[t]))
    BY DEF OthersWait
  <2>1. t \in KProcs /\ t \notin CPUs
    BY DEF SpinInit, Threads
  <2> QED
    BY <1>2, <1>5, <2>1 DEF Waits
<1> QED
  BY <1>6, <1>7, <1>8, <1>9, <1>10 DEF SpinInv

LEMMA SpinStep == SpinInv /\ [SpinNext]_spinVars => SpinInv'
<1> SUFFICES ASSUME SpinInv, [SpinNext]_spinVars PROVE SpinInv'
  OBVIOUS
<1>1. CASE UNCHANGED spinVars
  BY <1>1 DEF spinVars, SpinInv, SpinType, Interrupted, Placed, CpusRun, OthersWait, CpuRuns,
       Waits, Top
<1>2. CASE SpinNext
  BY <1>2, AcquireStep, ReleaseStep, XchgStep, PopcliStep, InterruptStep, IretStep, StiStep,
     SchedStep, DispatchStep DEF SpinNext
<1> QED
  BY <1>1, <1>2

\* Spin locks exclude and interrupts follow the threads (acquire(), release(),
\* pushcli(), popcli() of spinlock.c, sched() and scheduler()), for any number of
\* CPUs, processes and locks.
THEOREM SpinlocksSound == SpinSpec => []LocksSound
<1>1. SpinInv => LocksSound
  <2> SUFFICES ASSUME SpinInv PROVE LocksSound
    OBVIOUS
  <2>1. ASSUME NEW c \in CPUs
        PROVE  /\ HeldOn(c) = Top(running[c]).held
               /\ Cardinality(Top(running[c]).held) \in Nat
               /\ Top(running[c]).held = {} <=> Cardinality(Top(running[c]).held) = 0
    <3>1. PICK s \in Seq(Frames), f \in Frames :
            s = stack[running[c]] /\ f = Top(running[c]) /\ Len(s) \in Nat \ {0} /\ f = s[Len(s)]
      BY NowRuns, TopType DEF SpinInv, SpinType
    <3>2. \A i \in 1 .. Len(s) - 1 : s[i].held = {}
      BY <3>1, NowRuns DEF SpinInv, Interrupted
    <3>3. UNION {s[i].held : i \in 1 .. Len(s)} = f.held
      BY <3>1, <3>2
    <3>4. f.held \in SUBSET Locks
      BY DEF Frames
    <3>5. HeldOn(c) = f.held
      BY <3>1, <3>3, ZenonT(60) DEF HeldOn
    <3>6. PICK S \in SUBSET Locks : S = f.held
      BY <3>4
    <3>7. Cardinality(S) \in Nat /\ (S = {} <=> Cardinality(S) = 0)
      BY HeldFinite
    <3> QED
      BY <3>1, <3>5, <3>6, <3>7
  <2>2. OneHolder
    BY <2>1, NowRuns DEF OneHolder, CpuRuns
  <2>3. NoSelfAcquire
    <3> SUFFICES ASSUME NEW c \in CPUs, Top(running[c]).pc = "spin"
                 PROVE  locked[Top(running[c]).want] # c
      BY DEF NoSelfAcquire
    <3>1. PICK f \in Frames : f = Top(running[c])
      BY NowRuns
    <3>2. f.want \in Locks /\ f.pc = "spin"
      BY <3>1 DEF Frames
    <3>3. CpuRuns(c, f, locked, ncli[c], eflags[c], intena[c], running[c])
      BY <3>1, NowRuns
    <3>4. locked[f.want] # c
      BY <3>2, <3>3 DEF CpuRuns
    <3> QED
      BY <3>1, <3>4
  <2>4. InterruptsFollowThread
    <3> SUFFICES ASSUME NEW c \in CPUs, running[c] \in KProcs, Top(running[c]).pc = "run",
                        Top(running[c]).held = {}
                 PROVE  FlagOf(Top(running[c]), eflags[c])
      BY DEF InterruptsFollowThread, FlagOf
    <3>1. ncli[c] = 0
      BY NowRuns, IdleCount
    <3> QED
      BY <3>1, NowRuns DEF CpuRuns
  <2>5. NcliCounts
    <3> SUFFICES ASSUME NEW c \in CPUs
                 PROVE  /\ ncli[c] = Cardinality(HeldOn(c))
                                       + (IF Top(running[c]).pc \in {"spin", "pop"} THEN 1 ELSE 0)
                        /\ ncli[c] > 0 => ~eflags[c]
      BY DEF NcliCounts
    <3> QED
      BY <2>1, NowRuns DEF CpuRuns
  <2> QED
    BY <2>2, <2>3, <2>4, <2>5 DEF LocksSound
<1> QED
  BY <1>1, SpinStart, SpinStep, PTL DEF SpinSpec

HIDE SpinlockAssumption

-----------------------------------------------------------------------------
(* Console input: the inductive invariant.                                  *)

ConsoleType ==
  /\ buf \in [0 .. INPUT_BUF - 1 -> Chars]
  /\ ir \in 0 .. UMOD - 1 /\ iw \in 0 .. UMOD - 1 /\ ie \in 0 .. UMOD - 1
  /\ rpc \in [Readers -> {"idle", "lock", "loop", "tosleep", "asleep"}]
  /\ left \in [Readers -> Int] /\ got \in [Readers -> Seq(Chars)]
  /\ killed \in [Readers -> BOOLEAN]

\* Going up from r the indices w and e follow, at most a buffer ahead; only a
\* complete line fills the buffer.
InOrder(r, w, e) ==
  /\ Minus(w, r) + Minus(e, w) = Minus(e, r)
  /\ Minus(e, r) <= INPUT_BUF
  /\ Minus(e, r) = INPUT_BUF => w = e

\* A reader that looks at the buffer has cons.lock, and one that goes to sleep or
\* sleeps has left nothing to read.
ReadersHold ==
  /\ \A p \in Readers : rpc[p] \in {"loop", "tosleep"} => cons = p
  /\ \A p \in Readers : rpc[p] \in {"tosleep", "asleep"} => ir = iw

\* A read that is under way has not seen the end of a line.
LineOpen ==
  \A p \in Readers : rpc[p] # "idle" => (got[p] = << >> \/ got[p][Len(got[p])] # NL)

ConsoleInv == ConsoleType /\ InOrder(ir, iw, ie) /\ ReadersHold /\ LineOpen

USE ConsoleAssumption

-----------------------------------------------------------------------------
(* Console input: unsigned indices.                                         *)

\* Quotient and remainder.
LEMMA DivMod ==
  ASSUME NEW x \in Int, NEW n \in Int, n > 0
  PROVE  x = n * (x \div n) + (x % n) /\ x \div n \in Int /\ x % n \in 0 .. n - 1
OBVIOUS

\* The remainder is unique.
LEMMA ModIs ==
  ASSUME NEW x \in Int, NEW n \in Int, n > 0, NEW r \in 0 .. n - 1, NEW k \in Int, x = n * k + r
  PROVE  x % n = r
OBVIOUS

\* Multiples of n do not change it.
LEMMA ModSame ==
  ASSUME NEW x \in Int, NEW y \in Int, NEW n \in Int, n > 0, NEW k \in Int, x = y + n * k
  PROVE  x % n = y % n
<1> DEFINE r == y % n
           d == y \div n
<1>1. y = n * d + r /\ d \in Int /\ r \in 0 .. n - 1
  BY DivMod
<1> HIDE DEF r, d
<1>2. x = n * (d + k) + r /\ d + k \in Int
  BY <1>1
<1>3. x % n = r
  BY <1>1, <1>2, ModIs
<1> QED
  BY <1>3 DEF r

\* Numbers less than n apart have different ones.
LEMMA ModDiff ==
  ASSUME NEW x \in Int, NEW y \in Int, NEW n \in Int, n > 0, 0 < x - y, x - y < n
  PROVE  x % n # y % n
<1> DEFINE r == y % n
           d == y \div n
           e == x \div n
<1>1. y = n * d + r /\ d \in Int /\ r \in 0 .. n - 1 /\ x = n * e + (x % n) /\ e \in Int
  BY DivMod
<1>2. SUFFICES ASSUME x % n = r PROVE FALSE
  OBVIOUS
<1> HIDE DEF r, d, e
<1>3. x - y = n * (e - d) /\ e - d \in Int
  BY <1>1, <1>2
<1>4. e - d <= 0 \/ e - d >= 1
  BY <1>1
<1>5. n * (e - d) <= 0 \/ n * (e - d) >= n
  BY <1>1, <1>4
<1> QED
  BY <1>3, <1>5

\* Differences and sums of unsigned numbers.
LEMMA Unsigned ==
  ASSUME NEW a \in 0 .. UMOD - 1, NEW b \in 0 .. UMOD - 1
  PROVE  /\ Minus(a, b) = (IF b <= a THEN a - b ELSE a - b + UMOD)
         /\ Minus(a, b) \in 0 .. UMOD - 1
         /\ Plus(a, b) = (IF a + b < UMOD THEN a + b ELSE a + b - UMOD)
         /\ Plus(a, b) \in 0 .. UMOD - 1
<1>1. Minus(a, b) = IF b <= a THEN a - b ELSE a - b + UMOD
  <2>1. CASE b <= a
    <3>1. a - b = UMOD * 0 + (a - b) /\ a - b \in 0 .. UMOD - 1
      BY <2>1
    <3> QED
      BY <2>1, <3>1, ModIs DEF Minus
  <2>2. CASE b > a
    <3>1. a - b = UMOD * (0 - 1) + (a - b + UMOD) /\ a - b + UMOD \in 0 .. UMOD - 1
      BY <2>2
    <3> QED
      BY <2>2, <3>1, ModIs DEF Minus
  <2> QED
    BY <2>1, <2>2
<1>2. Plus(a, b) = IF a + b < UMOD THEN a + b ELSE a + b - UMOD
  <2>1. CASE a + b < UMOD
    <3>1. a + b = UMOD * 0 + (a + b) /\ a + b \in 0 .. UMOD - 1
      BY <2>1
    <3> QED
      BY <2>1, <3>1, ModIs DEF Plus
  <2>2. CASE a + b >= UMOD
    <3>1. a + b = UMOD * 1 + (a + b - UMOD) /\ a + b - UMOD \in 0 .. UMOD - 1
      BY <2>2
    <3> QED
      BY <2>2, <3>1, ModIs DEF Plus
  <2> QED
    BY <2>1, <2>2
<1> QED
  BY <1>1, <1>2

\* Distances between the indices.
LEMMA Distances ==
  ASSUME NEW a \in 0 .. UMOD - 1, NEW b \in 0 .. UMOD - 1
  PROVE  /\ Minus(a, b) = 0 <=> a = b
         /\ Plus(b, Minus(a, b)) = a
         /\ \A k \in 0 .. UMOD - 1 : Minus(Plus(b, k), b) = k /\ Minus(a, k) \in 0 .. UMOD - 1
         /\ \A k \in 0 .. UMOD - 1 : a = Plus(b, k) <=> Minus(a, b) = k
<1>1. /\ Minus(a, b) = (IF b <= a THEN a - b ELSE a - b + UMOD)
      /\ Minus(a, b) \in 0 .. UMOD - 1
  BY Unsigned, ZenonT(60)
<1>2. Plus(b, Minus(a, b)) = IF b + Minus(a, b) < UMOD THEN b + Minus(a, b) ELSE b + Minus(a, b) - UMOD
  BY <1>1, Unsigned, ZenonT(60)
<1>3. ASSUME NEW k \in 0 .. UMOD - 1
      PROVE  /\ Minus(Plus(b, k), b) = k /\ Minus(a, k) \in 0 .. UMOD - 1
             /\ a = Plus(b, k) <=> Minus(a, b) = k
  <2>1. Plus(b, k) = (IF b + k < UMOD THEN b + k ELSE b + k - UMOD) /\ Plus(b, k) \in 0 .. UMOD - 1
    BY Unsigned, ZenonT(60)
  <2>2. Minus(Plus(b, k), b) = IF b <= Plus(b, k) THEN Plus(b, k) - b ELSE Plus(b, k) - b + UMOD
    BY <2>1, Unsigned, ZenonT(60)
  <2>3. Minus(a, k) \in 0 .. UMOD - 1
    BY Unsigned, ZenonT(60)
  <2> QED
    BY <1>1, <2>1, <2>2, <2>3
<1> QED
  BY <1>1, <1>2, <1>3

\* A character is typed: e moves on, and w with it when the buffer is full.
LEMMA OrderTyped ==
  ASSUME NEW r \in 0 .. UMOD - 1, NEW w \in 0 .. UMOD - 1, NEW e \in 0 .. UMOD - 1,
         InOrder(r, w, e), Minus(e, r) < INPUT_BUF, NEW f, f = Plus(e, 1)
  PROVE  /\ f \in 0 .. UMOD - 1
         /\ Minus(f, r) = Minus(e, r) + 1 /\ Minus(f, w) = Minus(e, w) + 1 /\ Minus(f, f) = 0
         /\ f = Plus(r, INPUT_BUF) <=> Minus(f, r) = INPUT_BUF
         /\ InOrder(r, f, f)
         /\ f # Plus(r, INPUT_BUF) => InOrder(r, w, f)
<1>1. 1 \in 0 .. UMOD - 1 /\ INPUT_BUF \in 0 .. UMOD - 1
  OBVIOUS
<1>2. f = (IF e + 1 < UMOD THEN e + 1 ELSE e + 1 - UMOD) /\ f \in 0 .. UMOD - 1
  BY <1>1, Unsigned, ZenonT(60)
<1>3. /\ Minus(e, r) = (IF r <= e THEN e - r ELSE e - r + UMOD)
      /\ Minus(e, w) = (IF w <= e THEN e - w ELSE e - w + UMOD)
      /\ Minus(w, r) = (IF r <= w THEN w - r ELSE w - r + UMOD)
  BY Unsigned, ZenonT(60)
<1>4. /\ Minus(f, r) = (IF r <= f THEN f - r ELSE f - r + UMOD)
      /\ Minus(f, w) = (IF w <= f THEN f - w ELSE f - w + UMOD)
      /\ Minus(f, f) = (IF f <= f THEN f - f ELSE f - f + UMOD)
  BY <1>2, Unsigned, ZenonT(60)
<1>5. f = Plus(r, INPUT_BUF) <=> Minus(f, r) = INPUT_BUF
  BY <1>1, <1>2, Distances
<1>6. /\ Minus(w, r) + Minus(e, w) = Minus(e, r)
      /\ Minus(e, r) < INPUT_BUF
  BY DEF InOrder
<1>7. Minus(f, r) = Minus(e, r) + 1 /\ Minus(f, w) = Minus(e, w) + 1 /\ Minus(f, f) = 0
  BY <1>2, <1>3, <1>4, <1>6
<1>8. InOrder(r, f, f)
  BY <1>3, <1>6, <1>7 DEF InOrder
<1>9. f # Plus(r, INPUT_BUF) => InOrder(r, w, f)
  BY <1>3, <1>5, <1>6, <1>7 DEF InOrder
<1> QED
  BY <1>2, <1>5, <1>7, <1>8, <1>9

\* The end of the line is taken back, not beyond w.
LEMMA OrderErased ==
  ASSUME NEW r \in 0 .. UMOD - 1, NEW w \in 0 .. UMOD - 1, NEW e \in 0 .. UMOD - 1,
         InOrder(r, w, e), NEW n \in 0 .. UMOD - 1, n <= Minus(e, w), NEW f, f = Minus(e, n)
  PROVE  /\ f \in 0 .. UMOD - 1 /\ Minus(f, w) = Minus(e, w) - n
         /\ InOrder(r, w, f)
<1>2. f = (IF n <= e THEN e - n ELSE e - n + UMOD) /\ f \in 0 .. UMOD - 1
  BY Unsigned, ZenonT(60)
<1>3. /\ Minus(e, r) = (IF r <= e THEN e - r ELSE e - r + UMOD)
      /\ Minus(e, w) = (IF w <= e THEN e - w ELSE e - w + UMOD)
      /\ Minus(w, r) = (IF r <= w THEN w - r ELSE w - r + UMOD)
  BY Unsigned
<1>4. /\ Minus(f, r) = (IF r <= f THEN f - r ELSE f - r + UMOD)
      /\ Minus(f, w) = (IF w <= f THEN f - w ELSE f - w + UMOD)
  BY <1>2, Unsigned, ZenonT(60)
<1>5. /\ Minus(w, r) + Minus(e, w) = Minus(e, r)
      /\ Minus(e, r) <= INPUT_BUF
      /\ Minus(e, r) = INPUT_BUF => w = e
  BY DEF InOrder
<1>6. Minus(f, w) = Minus(e, w) - n /\ Minus(f, r) = Minus(e, r) - n
  BY <1>2, <1>3, <1>4, <1>5
<1>7. n = 0 => f = e
  BY <1>2
<1>8. InOrder(r, w, f)
  BY <1>3, <1>5, <1>6, <1>7 DEF InOrder
<1> QED
  BY <1>2, <1>6, <1>8

\* A byte is read: r moves on.
LEMMA OrderRead ==
  ASSUME NEW r \in 0 .. UMOD - 1, NEW w \in 0 .. UMOD - 1, NEW e \in 0 .. UMOD - 1,
         InOrder(r, w, e), r # w, NEW s, s = Plus(r, 1)
  PROVE  /\ s \in 0 .. UMOD - 1 /\ Minus(w, s) = Minus(w, r) - 1 /\ Minus(w, r) > 0
         /\ InOrder(s, w, e)
<1>1. 1 \in 0 .. UMOD - 1
  OBVIOUS
<1>2. s = (IF r + 1 < UMOD THEN r + 1 ELSE r + 1 - UMOD) /\ s \in 0 .. UMOD - 1
  BY <1>1, Unsigned, ZenonT(60)
<1>3. /\ Minus(e, r) = (IF r <= e THEN e - r ELSE e - r + UMOD)
      /\ Minus(e, w) = (IF w <= e THEN e - w ELSE e - w + UMOD)
      /\ Minus(w, r) = (IF r <= w THEN w - r ELSE w - r + UMOD)
  BY Unsigned, ZenonT(60)
<1>4. /\ Minus(e, s) = (IF s <= e THEN e - s ELSE e - s + UMOD)
      /\ Minus(w, s) = (IF s <= w THEN w - s ELSE w - s + UMOD)
  BY <1>2, Unsigned, ZenonT(60)
<1>5. /\ Minus(w, r) + Minus(e, w) = Minus(e, r)
      /\ Minus(e, r) <= INPUT_BUF
  BY DEF InOrder
<1>6. Minus(w, s) = Minus(w, r) - 1 /\ Minus(e, s) = Minus(e, r) - 1 /\ Minus(w, r) > 0
  BY <1>2, <1>3, <1>4, <1>5
<1>7. InOrder(s, w, e)
  BY <1>3, <1>5, <1>6 DEF InOrder
<1> QED
  BY <1>2, <1>6, <1>7

-----------------------------------------------------------------------------
(* Console input: every step keeps the invariant.                           *)

\* ^U goes back at most to w, where the line began.
LEMMA KillErases ==
  ASSUME ConsoleType, KillLine
  PROVE  \E n \in 0 .. Minus(ie, iw) : n \in 0 .. UMOD - 1 /\ ie' = Minus(ie, n)
<1> DEFINE m == Minus(ie, iw)
           stop(e) == e = iw \/ buf[Minus(e, 1) % INPUT_BUF] = NL
<1>1. ie \in 0 .. UMOD - 1 /\ iw \in 0 .. UMOD - 1
  BY DEF ConsoleType
<1>2. m = (IF iw <= ie THEN ie - iw ELSE ie - iw + UMOD) /\ m \in 0 .. UMOD - 1
  BY <1>1, Unsigned, ZenonT(60)
<1>3. PICK n \in 0 .. INPUT_BUF : (\A k \in 0 .. n - 1 : ~stop(Minus(ie, k))) /\ ie' = Minus(ie, n)
  BY DEF KillLine
<1> HIDE DEF m
<1>4. Minus(ie, m) = IF m <= ie THEN ie - m ELSE ie - m + UMOD
  BY <1>1, <1>2, Unsigned, ZenonT(60)
<1>5. Minus(ie, m) = iw
  BY <1>1, <1>2, <1>4
<1>6. stop(Minus(ie, m))
  BY <1>5
<1> HIDE DEF stop
<1>7. ~(m \in 0 .. n - 1)
  BY <1>3, <1>6
<1>8. n \in 0 .. m /\ n \in 0 .. UMOD - 1
  BY <1>2, <1>7
<1> QED
  BY <1>3, <1>8 DEF m

\* The indices and the buffer.
LEMMA RingStep ==
  ASSUME ConsoleType, InOrder(ir, iw, ie), [ConsoleNext]_consVars
  PROVE  /\ buf' \in [0 .. INPUT_BUF - 1 -> Chars]
         /\ ir' \in 0 .. UMOD - 1 /\ iw' \in 0 .. UMOD - 1 /\ ie' \in 0 .. UMOD - 1
         /\ InOrder(ir', iw', ie')
<1>1. /\ ir \in 0 .. UMOD - 1 /\ iw \in 0 .. UMOD - 1 /\ ie \in 0 .. UMOD - 1
      /\ buf \in [0 .. INPUT_BUF - 1 -> Chars]
  BY DEF ConsoleType
<1>2. CASE UNCHANGED ringVars
  BY <1>1, <1>2 DEF ringVars
<1>3. ASSUME NEW key \in Letters \cup {NL, CR, EOF}, TypeChar(key)
      PROVE  /\ buf' \in [0 .. INPUT_BUF - 1 -> Chars]
             /\ ir' \in 0 .. UMOD - 1 /\ iw' \in 0 .. UMOD - 1 /\ ie' \in 0 .. UMOD - 1
             /\ InOrder(ir', iw', ie')
  <2> DEFINE c == IF key = CR THEN NL ELSE key
  <2>1. c \in Chars
    BY DEF Chars
  <2>2. /\ Minus(ie, ir) < INPUT_BUF /\ ie' = Plus(ie, 1) /\ ir' = ir
        /\ buf' = [buf EXCEPT ![ie % INPUT_BUF] = c]
        /\ iw' = IF Completes(c, ie') THEN ie' ELSE iw
        /\ ie' = Plus(ir, INPUT_BUF) => Completes(c, ie')
    BY <1>3 DEF TypeChar, Completes
  <2> HIDE DEF c
  <2>3. /\ ie' \in 0 .. UMOD - 1 /\ InOrder(ir, ie', ie')
        /\ ie' # Plus(ir, INPUT_BUF) => InOrder(ir, iw, ie')
    <3>1. ASSUME NEW f, f = Plus(ie, 1)
          PROVE  /\ f \in 0 .. UMOD - 1 /\ InOrder(ir, f, f)
                 /\ f # Plus(ir, INPUT_BUF) => InOrder(ir, iw, f)
      BY <1>1, <2>2, <3>1, OrderTyped, ZenonT(60)
    <3> QED
      BY <2>2, <3>1, ZenonT(60)
  <2>4. buf' \in [0 .. INPUT_BUF - 1 -> Chars]
    BY <1>1, <2>1, <2>2
  <2>5. CASE Completes(c, ie')
    BY <1>1, <2>2, <2>3, <2>4, <2>5
  <2>6. CASE ~Completes(c, ie')
    BY <1>1, <2>2, <2>3, <2>4, <2>6
  <2> QED
    BY <2>5, <2>6
<1>4. ASSUME NEW n \in 0 .. Minus(ie, iw), n \in 0 .. UMOD - 1, ie' = Minus(ie, n), UNCHANGED <<buf, ir, iw>>
      PROVE  /\ buf' \in [0 .. INPUT_BUF - 1 -> Chars]
             /\ ir' \in 0 .. UMOD - 1 /\ iw' \in 0 .. UMOD - 1 /\ ie' \in 0 .. UMOD - 1
             /\ InOrder(ir', iw', ie')
  <2>0. n \in 0 .. UMOD - 1
    BY <1>4
  <2>1. n <= Minus(ie, iw)
    BY <1>1, <1>4, Unsigned
  <2>2. ASSUME NEW f, f = Minus(ie, n) PROVE f \in 0 .. UMOD - 1 /\ InOrder(ir, iw, f)
    BY <1>1, <2>0, <2>1, <2>2, OrderErased
  <2>3. ie' \in 0 .. UMOD - 1 /\ InOrder(ir, iw, ie')
    BY <1>4, <2>2, ZenonT(60)
  <2> QED
    BY <1>1, <1>4, <2>3
<1>5. CASE Backspace
  <2>1. Minus(ie, iw) \in 0 .. UMOD - 1 /\ Minus(ie, iw) # 0
    BY <1>1, <1>5, Unsigned, Distances DEF Backspace
  <2>2. 1 \in 0 .. Minus(ie, iw) /\ 1 \in 0 .. UMOD - 1
    BY <2>1
  <2> QED
    BY <1>4, <1>5, <2>2 DEF Backspace
<1>6. CASE KillLine
  BY <1>4, <1>6, KillErases DEF KillLine
<1>7. ASSUME NEW p \in Readers, ReadByte(p)
      PROVE  /\ buf' \in [0 .. INPUT_BUF - 1 -> Chars]
             /\ ir' \in 0 .. UMOD - 1 /\ iw' \in 0 .. UMOD - 1 /\ ie' \in 0 .. UMOD - 1
             /\ InOrder(ir', iw', ie')
  <2>1. ir # iw /\ UNCHANGED <<buf, iw, ie>> /\ (ir' = ir \/ ir' = Plus(ir, 1))
    BY <1>7 DEF ReadByte
  <2>2. CASE ir' = Plus(ir, 1)
    <3>1. ASSUME NEW s, s = Plus(ir, 1) PROVE s \in 0 .. UMOD - 1 /\ InOrder(s, iw, ie)
      BY <1>1, <2>1, <3>1, OrderRead, ZenonT(60)
    <3>2. ir' \in 0 .. UMOD - 1 /\ InOrder(ir', iw, ie)
      BY <2>2, <3>1, ZenonT(60)
    <3> QED
      BY <1>1, <2>1, <3>2
  <2> QED
    BY <1>1, <2>1, <2>2
<1>8. ASSUME NEW p \in Readers, ReaderStep(p) PROVE UNCHANGED ringVars \/ ReadByte(p)
  BY <1>8 DEF ReaderStep, ReadStart, ReadLock, ReadEmpty, ReadSleep, KillReader, ringVars
<1>9. CASE UNCHANGED consVars
  BY <1>2, <1>9 DEF consVars, ringVars
<1> QED
  BY <1>2, <1>3, <1>5, <1>6, <1>7, <1>8, <1>9 DEF ConsoleNext

\* The readers.
LEMMA ReadersStep ==
  ASSUME ConsoleType, ReadersHold, LineOpen, [ConsoleNext]_consVars
  PROVE  /\ rpc' \in [Readers -> {"idle", "lock", "loop", "tosleep", "asleep"}]
         /\ left' \in [Readers -> Int] /\ got' \in [Readers -> Seq(Chars)]
         /\ killed' \in [Readers -> BOOLEAN]
         /\ ReadersHold' /\ LineOpen'
<1> DEFINE Kept == /\ rpc' \in [Readers -> {"idle", "lock", "loop", "tosleep", "asleep"}]
                   /\ left' \in [Readers -> Int] /\ got' \in [Readers -> Seq(Chars)]
                   /\ killed' \in [Readers -> BOOLEAN]
                   /\ ReadersHold' /\ LineOpen'
<1> USE DEF ringVars
<1>1. CASE UNCHANGED consVars
  BY <1>1 DEF consVars, ConsoleType, ReadersHold, LineOpen
<1>2. ASSUME NEW key \in Letters \cup {NL, CR, EOF}, TypeChar(key) PROVE Kept
  <2>1. /\ cons = NoReader /\ UNCHANGED <<ir, cons, left, got, killed>>
        /\ (rpc' = WakeReaders \/ (rpc' = rpc /\ iw' = iw))
    BY <1>2 DEF TypeChar
  <2> QED
    BY <2>1 DEF WakeReaders, ConsoleType, ReadersHold, LineOpen
<1>3. CASE Backspace \/ KillLine
  BY <1>3 DEF Backspace, KillLine, ConsoleType, ReadersHold, LineOpen
<1>4. ASSUME NEW p \in Readers, ReadStart(p) PROVE Kept
  <2>1. << >> \in Seq(Chars)
    OBVIOUS
  <2>2. got' = [got EXCEPT ![p] = << >>] /\ got \in [Readers -> Seq(Chars)]
    BY <1>4 DEF ReadStart, ConsoleType
  <2>3. got' \in [Readers -> Seq(Chars)] /\ got'[p] = << >> /\ \A q \in Readers : q # p => got'[q] = got[q]
    BY <2>1, <2>2, ZenonT(60)
  <2>4. LineOpen'
    BY <1>4, <2>3 DEF ReadStart, ConsoleType, LineOpen
  <2> QED
    BY <1>4, <2>3, <2>4 DEF ReadStart, ConsoleType, ReadersHold
<1>5. ASSUME NEW p \in Readers, ReadLock(p) PROVE Kept
  BY <1>5 DEF ReadLock, ConsoleType, ReadersHold, LineOpen
<1>6. ASSUME NEW p \in Readers, ReadEmpty(p) PROVE Kept
  BY <1>6 DEF ReadEmpty, ConsoleType, ReadersHold, LineOpen
<1>7. ASSUME NEW p \in Readers, ReadSleep(p) PROVE Kept
  BY <1>7 DEF ReadSleep, ConsoleType, ReadersHold, LineOpen
<1>8. ASSUME NEW p \in Readers, ReadByte(p) PROVE Kept
  <2> DEFINE c == buf[ir % INPUT_BUF]
  <2>1. c \in Chars
    <3>1. ir % INPUT_BUF \in 0 .. INPUT_BUF - 1
      BY DivMod DEF ConsoleType
    <3> QED
      BY <3>1 DEF ConsoleType
  <2>2. rpc[p] = "loop" /\ ir # iw /\ UNCHANGED <<buf, iw, ie, killed>> /\ cons = p
    BY <1>8 DEF ReadByte, ReadersHold
  <2>3. \A q \in Readers : rpc[q] \notin {"tosleep", "asleep"}
    BY <2>2 DEF ReadersHold
  <2>4. \A q \in Readers : q # p => rpc[q] # "loop"
    BY <2>2 DEF ReadersHold
  <2>5. CASE c = EOF
    <3>1. Leave(p) /\ UNCHANGED <<left, got>>
      BY <1>8, <2>5 DEF ReadByte
    <3> QED
      BY <2>2, <2>3, <2>4, <3>1 DEF Leave, ConsoleType, ReadersHold, LineOpen
  <2>6. CASE c # EOF
    <3>1. /\ got' = [got EXCEPT ![p] = Append(@, c)] /\ left' = [left EXCEPT ![p] = @ - 1]
          /\ IF c = NL \/ left[p] = 1 THEN Leave(p) ELSE UNCHANGED <<cons, rpc>>
      BY <1>8, <2>6 DEF ReadByte
    <3> HIDE DEF c
    <3>2. got[p] \in Seq(Chars)
      BY DEF ConsoleType
    <3>3. /\ Append(got[p], c) \in Seq(Chars) /\ Len(Append(got[p], c)) = Len(got[p]) + 1
          /\ Append(got[p], c)[Len(Append(got[p], c))] = c
      BY <2>1, <3>2
    <3>4. /\ got' \in [Readers -> Seq(Chars)] /\ got'[p] = Append(got[p], c)
          /\ \A q \in Readers : q # p => got'[q] = got[q]
      BY <3>1, <3>3 DEF ConsoleType
    <3>5. left' \in [Readers -> Int]
      BY <3>1 DEF ConsoleType
    <3>6. CASE c = NL \/ left[p] = 1
      BY <2>2, <2>3, <2>4, <3>1, <3>4, <3>5, <3>6, ZenonT(60) DEF Leave, ConsoleType, ReadersHold, LineOpen
    <3>7. CASE ~(c = NL \/ left[p] = 1)
      <4>1. got'[p][Len(got'[p])] # NL
        BY <3>3, <3>4, <3>7
      <4> QED
        BY <2>2, <2>3, <2>4, <3>1, <3>4, <3>5, <3>7, <4>1 DEF ConsoleType, ReadersHold, LineOpen
    <3> QED
      BY <3>6, <3>7
  <2> QED
    BY <2>5, <2>6
<1>9. ASSUME NEW p \in Readers, KillReader(p) PROVE Kept
  BY <1>9 DEF KillReader, ConsoleType, ReadersHold, LineOpen
<1> QED
  BY <1>1, <1>2, <1>3, <1>4, <1>5, <1>6, <1>7, <1>8, <1>9 DEF ConsoleNext, ReaderStep

\* consoleinit() establishes the invariant.
LEMMA ConsoleInvInit == ConsoleInit => ConsoleInv
<1> SUFFICES ASSUME ConsoleInit PROVE ConsoleInv
  OBVIOUS
<1>1. 0 \in 0 .. UMOD - 1 /\ << >> \in Seq(Chars) /\ NL \in Chars
  BY DEF Chars
<1>2. Minus(0, 0) = 0
  BY <1>1, Distances, ZenonT(60)
<1>3. ConsoleType
  <2>1. got \in [Readers -> Seq(Chars)]
    BY <1>1, ZenonT(60) DEF ConsoleInit
  <2> QED
    BY <1>1, <2>1 DEF ConsoleInit, ConsoleType
<1>4. InOrder(ir, iw, ie)
  BY <1>2 DEF ConsoleInit, InOrder
<1> QED
  BY <1>3, <1>4 DEF ConsoleInit, ConsoleInv, ReadersHold, LineOpen

\* The inductive invariant holds always.
THEOREM ConsoleInvariance == ConsoleSpec => []ConsoleInv
<1>1. ConsoleInv /\ [ConsoleNext]_consVars => ConsoleInv'
  <2> SUFFICES ASSUME ConsoleInv, [ConsoleNext]_consVars PROVE ConsoleInv'
    OBVIOUS
  <2>1. ConsoleType /\ InOrder(ir, iw, ie) /\ ReadersHold /\ LineOpen
    BY DEF ConsoleInv
  <2>2. /\ buf' \in [0 .. INPUT_BUF - 1 -> Chars]
        /\ ir' \in 0 .. UMOD - 1 /\ iw' \in 0 .. UMOD - 1 /\ ie' \in 0 .. UMOD - 1
        /\ InOrder(ir', iw', ie')
    BY <2>1, RingStep, ZenonT(60)
  <2>3. /\ rpc' \in [Readers -> {"idle", "lock", "loop", "tosleep", "asleep"}]
        /\ left' \in [Readers -> Int] /\ got' \in [Readers -> Seq(Chars)]
        /\ killed' \in [Readers -> BOOLEAN]
        /\ ReadersHold' /\ LineOpen'
    BY <2>1, ReadersStep, ZenonT(60)
  <2> QED
    BY <2>2, <2>3, ZenonT(60) DEF ConsoleInv, ConsoleType
<1> QED
  BY <1>1, ConsoleInvInit, PTL DEF ConsoleSpec

\* The keyboard and the readers never block each other (console.c, consoleintr and
\* consoleread): no reader sleeps over a complete line, and a full buffer always
\* holds something to read, for any number of readers, any size of the buffer and
\* any width of the indices.
THEOREM ConsoleInputFlows == ConsoleSpec => []InputFlows
<1>1. ConsoleInv => InputFlows
  BY DEF ConsoleInv, InOrder, ReadersHold, InputFlows, ReaderServed, FullIsReadable
<1> QED
  BY <1>1, ConsoleInvariance, PTL

-----------------------------------------------------------------------------
(* Console input: the ring is a line editor and a queue.                    *)

\* n bytes of ring d from index a on.
BytesFrom(d, a, n) == [i \in 1 .. n |-> d[(a + i - 1) % INPUT_BUF]]

\* A full turn of an index is a number of full turns of the ring, ...
LEMMA FullTurn ==
  ASSUME NEW x \in Int PROVE (x + UMOD) % INPUT_BUF = x % INPUT_BUF
<1> DEFINE k == UMOD \div INPUT_BUF
<1>1. UMOD = INPUT_BUF * k /\ k \in Int
  BY DivMod
<1>2. INPUT_BUF \in Int /\ INPUT_BUF > 0 /\ x + UMOD \in Int
  OBVIOUS
<1> HIDE DEF k, ConsoleAssumption
<1>3. PICK y \in Int : y = x + UMOD
  BY <1>2
<1>4. y = x + INPUT_BUF * k
  BY <1>1, <1>2, <1>3
<1>5. y % INPUT_BUF = x % INPUT_BUF
  BY ONLY <1>1, <1>2, <1>4, x \in Int, y \in Int, ModSame, ZenonT(60)
<1> QED
  BY <1>3, <1>5

\* ... so that places count on when an index wraps around.
LEMMA IndexTurn ==
  ASSUME NEW a \in 0 .. UMOD - 1, NEW m \in 0 .. UMOD - 1, NEW j \in Int
  PROVE  /\ (Plus(a, m) + j) % INPUT_BUF = (a + m + j) % INPUT_BUF
         /\ (a + m + j) % INPUT_BUF \in 0 .. INPUT_BUF - 1
<1> DEFINE b == Plus(a, m)
<1>1. b = IF a + m < UMOD THEN a + m ELSE a + m - UMOD
  BY Unsigned, ZenonT(60)
<1> HIDE DEF b
<1>2. (b + j) % INPUT_BUF = (a + m + j) % INPUT_BUF
  <2>1. CASE a + m < UMOD
    BY <1>1, <2>1
  <2>2. CASE a + m >= UMOD
    <3>1. a + m + j = (b + j) + UMOD /\ b + j \in Int
      BY <1>1, <2>2
    <3> QED
      BY <3>1, FullTurn
  <2> QED
    BY <2>1, <2>2
<1>3. (a + m + j) % INPUT_BUF \in 0 .. INPUT_BUF - 1
  <2>1. a + m + j \in Int
    OBVIOUS
  <2> QED
    BY <2>1, DivMod
<1> QED
  BY <1>2, <1>3 DEF b

\* The place of an index in the ring.
LEMMA IndexIs ==
  ASSUME NEW a \in 0 .. UMOD - 1, NEW m \in 0 .. UMOD - 1
  PROVE  /\ Plus(a, m) % INPUT_BUF = (a + m) % INPUT_BUF
         /\ (a + m) % INPUT_BUF \in 0 .. INPUT_BUF - 1
<1>1. /\ (Plus(a, m) + 0) % INPUT_BUF = (a + m + 0) % INPUT_BUF
      /\ (a + m + 0) % INPUT_BUF \in 0 .. INPUT_BUF - 1
  BY IndexTurn
<1>2. Plus(a, m) + 0 = Plus(a, m) /\ a + m + 0 = a + m
  BY Unsigned
<1> QED
  BY <1>1, <1>2

\* They are a sequence of characters.
LEMMA BytesSeq ==
  ASSUME NEW d \in [0 .. INPUT_BUF - 1 -> Chars], NEW a \in Int, NEW n \in Nat
  PROVE  /\ BytesFrom(d, a, n) \in Seq(Chars) /\ Len(BytesFrom(d, a, n)) = n
         /\ \A i \in 1 .. n : BytesFrom(d, a, n)[i] = d[(a + i - 1) % INPUT_BUF]
<1>1. ASSUME NEW i \in 1 .. n PROVE d[(a + i - 1) % INPUT_BUF] \in Chars
  <2>1. a + i - 1 \in Int
    OBVIOUS
  <2>2. (a + i - 1) % INPUT_BUF \in 0 .. INPUT_BUF - 1
    BY <2>1, DivMod
  <2> QED
    BY <2>2
<1> QED
  BY <1>1 DEF BytesFrom

\* What lies between two indices of ring d.
SliceOf(d, a, b) == [i \in 1 .. Minus(b, a) |-> d[Plus(a, i - 1) % INPUT_BUF]]

LEMMA SliceIs ==
  ASSUME NEW d, NEW a \in 0 .. UMOD - 1, NEW b \in 0 .. UMOD - 1
  PROVE  SliceOf(d, a, b) = BytesFrom(d, a, Minus(b, a))
<1>1. Minus(b, a) \in 0 .. UMOD - 1
  BY Unsigned, ZenonT(60)
<1>2. ASSUME NEW i \in 1 .. Minus(b, a)
      PROVE  Plus(a, i - 1) % INPUT_BUF = (a + i - 1) % INPUT_BUF
  <2>1. i - 1 \in 0 .. UMOD - 1
    BY <1>1
  <2>2. Plus(a, i - 1) % INPUT_BUF = (a + (i - 1)) % INPUT_BUF
    BY <2>1, IndexIs
  <2>3. a + (i - 1) = a + i - 1
    BY <1>1
  <2> QED
    BY <2>2, <2>3
<1> QED
  BY <1>2 DEF SliceOf, BytesFrom

\* What is between a and b, and between b and c, is between a and c.
Joined(d, a, m, n) == BytesFrom(d, a, m + n) = BytesFrom(d, a, m) \o BytesFrom(d, Plus(a, m), n)

LEMMA BytesJoin ==
  ASSUME NEW d \in [0 .. INPUT_BUF - 1 -> Chars], NEW a \in 0 .. UMOD - 1,
         NEW m \in 0 .. UMOD - 1, NEW n \in Nat
  PROVE  Joined(d, a, m, n)
<1> DEFINE b == Plus(a, m)
           s == BytesFrom(d, a, m)
           t == BytesFrom(d, b, n)
           u == BytesFrom(d, a, m + n)
<1>1. b \in Int
  BY Unsigned
<1>2. \A i \in 1 .. n : (b + i - 1) % INPUT_BUF = (a + (m + i) - 1) % INPUT_BUF
  <2> SUFFICES ASSUME NEW i \in 1 .. n PROVE (b + i - 1) % INPUT_BUF = (a + (m + i) - 1) % INPUT_BUF
    OBVIOUS
  <2>1. i - 1 \in Int
    OBVIOUS
  <2>2. (b + (i - 1)) % INPUT_BUF = (a + m + (i - 1)) % INPUT_BUF
    BY <2>1, IndexTurn
  <2>3. b + (i - 1) = b + i - 1 /\ a + m + (i - 1) = a + (m + i) - 1
    BY <1>1
  <2> QED
    BY <2>2, <2>3
<1> HIDE DEF b
<1>3. /\ s \in Seq(Chars) /\ Len(s) = m /\ t \in Seq(Chars) /\ Len(t) = n
      /\ u \in Seq(Chars) /\ Len(u) = m + n
      /\ \A i \in 1 .. m : s[i] = d[(a + i - 1) % INPUT_BUF]
      /\ \A i \in 1 .. n : t[i] = d[(b + i - 1) % INPUT_BUF]
      /\ \A i \in 1 .. m + n : u[i] = d[(a + i - 1) % INPUT_BUF]
  <2>1. a \in Int /\ m \in Nat /\ m + n \in Nat
    OBVIOUS
  <2> QED
    BY <1>1, <2>1, BytesSeq
<1> HIDE DEF s, t, u
<1>4. /\ s \o t \in Seq(Chars) /\ Len(s \o t) = m + n
      /\ \A i \in 1 .. m + n : (s \o t)[i] = IF i <= m THEN s[i] ELSE t[i - m]
  <2>1. s \in Seq(Chars) /\ t \in Seq(Chars) /\ Len(s) = m /\ Len(t) = n
    BY <1>3
  <2>2. /\ s \o t \in Seq(Chars) /\ Len(s \o t) = Len(s) + Len(t)
        /\ \A i \in 1 .. Len(s) + Len(t) : (s \o t)[i] = IF i <= Len(s) THEN s[i] ELSE t[i - Len(s)]
    BY <2>1, ConcatProperties, ZenonT(60)
  <2> QED
    BY <2>1, <2>2
<1>5. ASSUME NEW i \in 1 .. m + n PROVE u[i] = (s \o t)[i]
  <2>1. CASE i <= m
    <3>1. i \in 1 .. m
      BY <2>1
    <3> QED
      BY <1>3, <1>4, <2>1, <3>1
  <2>2. CASE i > m
    <3>1. i - m \in 1 .. n /\ m + (i - m) = i
      BY <2>2
    <3>2. t[i - m] = d[(a + (m + (i - m)) - 1) % INPUT_BUF]
      BY <1>2, <1>3, <3>1, SMTT(40)
    <3> QED
      BY <1>3, <1>4, <2>2, <3>1, <3>2
  <2>3. i <= m \/ i > m
    OBVIOUS
  <2> QED
    BY <2>1, <2>2, <2>3
<1>6. u = s \o t
  BY <1>3, <1>4, <1>5, SeqEqual
<1> QED
  BY <1>6 DEF b, s, t, u, Joined

\* The first k of n bytes.
Begins(d, a, n, k) == SubSeq(BytesFrom(d, a, n), 1, k) = BytesFrom(d, a, k)

LEMMA BytesPrefix ==
  ASSUME NEW d \in [0 .. INPUT_BUF - 1 -> Chars], NEW a \in Int, NEW n \in Nat, NEW k \in 0 .. n
  PROVE  Begins(d, a, n, k)
<1> DEFINE s == BytesFrom(d, a, n)
           t == BytesFrom(d, a, k)
<1>1. /\ s \in Seq(Chars) /\ Len(s) = n /\ t \in Seq(Chars) /\ Len(t) = k
      /\ \A i \in 1 .. n : s[i] = d[(a + i - 1) % INPUT_BUF]
      /\ \A i \in 1 .. k : t[i] = d[(a + i - 1) % INPUT_BUF]
  BY BytesSeq
<1> HIDE DEF s, t
<1>2. /\ SubSeq(s, 1, k) \in Seq(Chars) /\ Len(SubSeq(s, 1, k)) = k
      /\ \A i \in 1 .. k : SubSeq(s, 1, k)[i] = s[i]
  <2>1. SubSeq(s, 1, k) = [i \in 1 .. k |-> s[i]]
    BY <1>1
  <2>2. \A i \in 1 .. k : s[i] \in Chars
    BY <1>1
  <2> QED
    BY <2>1, <2>2
<1>3. SubSeq(s, 1, k) = t
  BY <1>1, <1>2, SeqEqual
<1> QED
  BY <1>3 DEF s, t, Begins

\* A character is put behind n bytes, which it does not overwrite.
PutBehind(d, g, a, n, c) ==
  /\ BytesFrom(g, a, n) = BytesFrom(d, a, n)
  /\ BytesFrom(g, a, n + 1) = Append(BytesFrom(d, a, n), c)

LEMMA BytesTyped ==
  ASSUME NEW d \in [0 .. INPUT_BUF - 1 -> Chars], NEW a \in 0 .. UMOD - 1,
         NEW n \in Nat, n < INPUT_BUF, NEW c \in Chars, NEW g,
         g = [d EXCEPT ![Plus(a, n) % INPUT_BUF] = c]
  PROVE  PutBehind(d, g, a, n, c)
<1> DEFINE x == Plus(a, n) % INPUT_BUF
<1>1. x = (a + n) % INPUT_BUF /\ x \in 0 .. INPUT_BUF - 1
  <2>1. n \in 0 .. UMOD - 1
    OBVIOUS
  <2> QED
    BY <2>1, IndexIs
<1> HIDE DEF x
<1>2. g = [d EXCEPT ![x] = c]
  BY DEF x
<1>3. g \in [0 .. INPUT_BUF - 1 -> Chars] /\ g[x] = c
  BY <1>1, <1>2, ZenonT(60)
<1>4. ASSUME NEW i \in 1 .. n
      PROVE  g[(a + i - 1) % INPUT_BUF] = d[(a + i - 1) % INPUT_BUF]
  <2>1. /\ a + i - 1 \in Int /\ a + n \in Int
        /\ 0 < (a + n) - (a + i - 1) /\ (a + n) - (a + i - 1) < INPUT_BUF
    OBVIOUS
  <2>2. (a + n) % INPUT_BUF # (a + i - 1) % INPUT_BUF
    BY <2>1, ModDiff
  <2>3. (a + i - 1) % INPUT_BUF \in 0 .. INPUT_BUF - 1
    BY <2>1, DivMod
  <2> QED
    BY <1>1, <1>2, <2>2, <2>3
<1> DEFINE s == BytesFrom(d, a, n)
           t == BytesFrom(g, a, n)
           u == BytesFrom(g, a, n + 1)
<1>5. /\ s \in Seq(Chars) /\ Len(s) = n /\ t \in Seq(Chars) /\ Len(t) = n
      /\ u \in Seq(Chars) /\ Len(u) = n + 1
      /\ \A i \in 1 .. n : s[i] = d[(a + i - 1) % INPUT_BUF]
      /\ \A i \in 1 .. n : t[i] = g[(a + i - 1) % INPUT_BUF]
      /\ \A i \in 1 .. n + 1 : u[i] = g[(a + i - 1) % INPUT_BUF]
  <2>1. a \in Int /\ n + 1 \in Nat
    OBVIOUS
  <2>2. \A h \in [0 .. INPUT_BUF - 1 -> Chars] : \A k \in Nat :
          /\ BytesFrom(h, a, k) \in Seq(Chars) /\ Len(BytesFrom(h, a, k)) = k
          /\ \A i \in 1 .. k : BytesFrom(h, a, k)[i] = h[(a + i - 1) % INPUT_BUF]
    BY <2>1, BytesSeq
  <2> QED
    BY <1>3, <2>1, <2>2, ZenonT(60)
<1> HIDE DEF s, t, u
<1>6. t = s
  <2>1. \A i \in 1 .. n : t[i] = s[i]
    BY <1>4, <1>5
  <2> QED
    BY <1>5, <2>1, SeqEqual
<1>7. u = Append(s, c)
  <2>1. /\ Append(s, c) \in Seq(Chars) /\ Len(Append(s, c)) = n + 1
        /\ \A i \in 1 .. n + 1 : Append(s, c)[i] = IF i = n + 1 THEN c ELSE s[i]
    BY <1>5
  <2>2. ASSUME NEW i \in 1 .. n + 1 PROVE u[i] = IF i = n + 1 THEN c ELSE s[i]
    <3>1. CASE i = n + 1
      <4>1. a + i - 1 = a + n
        BY <3>1
      <4> QED
        BY <1>1, <1>3, <1>5, <3>1, <4>1
    <3>2. CASE i # n + 1
      <4>1. i \in 1 .. n
        BY <3>2
      <4> QED
        BY <1>4, <1>5, <3>2, <4>1
    <3> QED
      BY <3>1, <3>2
  <2> QED
    BY <1>5, <2>1, <2>2, SeqEqual
<1> QED
  BY <1>6, <1>7 DEF s, t, u, PutBehind

\* The first byte, and the others.
TakenFrom(d, a, n) ==
  /\ BytesFrom(d, a, n) # << >> /\ Head(BytesFrom(d, a, n)) = d[a % INPUT_BUF]
  /\ BytesFrom(d, Plus(a, 1), n - 1) = Tail(BytesFrom(d, a, n))

LEMMA BytesTaken ==
  ASSUME NEW d \in [0 .. INPUT_BUF - 1 -> Chars], NEW a \in 0 .. UMOD - 1,
         NEW n \in Nat, n > 0
  PROVE  TakenFrom(d, a, n)
<1> DEFINE b == Plus(a, 1)
           s == BytesFrom(d, a, n)
           t == BytesFrom(d, b, n - 1)
<1>1. b \in Int /\ 1 \in 0 .. UMOD - 1
  BY Unsigned
<1>2. ASSUME NEW i \in 1 .. n - 1 PROVE (b + i - 1) % INPUT_BUF = (a + (i + 1) - 1) % INPUT_BUF
  <2>1. i - 1 \in Int
    OBVIOUS
  <2>2. (b + (i - 1)) % INPUT_BUF = (a + 1 + (i - 1)) % INPUT_BUF
    BY <1>1, <2>1, IndexTurn
  <2>3. b + (i - 1) = b + i - 1 /\ a + 1 + (i - 1) = a + (i + 1) - 1
    BY <1>1
  <2> QED
    BY <2>2, <2>3
<1> HIDE DEF b
<1>3. /\ s \in Seq(Chars) /\ Len(s) = n /\ t \in Seq(Chars) /\ Len(t) = n - 1
      /\ \A i \in 1 .. n : s[i] = d[(a + i - 1) % INPUT_BUF]
      /\ \A i \in 1 .. n - 1 : t[i] = d[(b + i - 1) % INPUT_BUF]
  <2>1. a \in Int /\ n - 1 \in Nat
    OBVIOUS
  <2> QED
    BY <1>1, <2>1, BytesSeq
<1> HIDE DEF s, t
<1>4. s # << >> /\ Head(s) = d[a % INPUT_BUF]
  <2>1. a + 1 - 1 = a /\ 1 \in 1 .. n
    OBVIOUS
  <2> QED
    BY <1>3, <2>1
<1>5. /\ Tail(s) \in Seq(Chars) /\ Len(Tail(s)) = n - 1
      /\ \A i \in 1 .. n - 1 : Tail(s)[i] = s[i + 1]
  BY <1>3, <1>4, HeadTailProperties
<1>6. \A i \in 1 .. n - 1 : t[i] = s[i + 1]
  <2> SUFFICES ASSUME NEW i \in 1 .. n - 1 PROVE t[i] = s[i + 1]
    OBVIOUS
  <2>1. i + 1 \in 1 .. n
    OBVIOUS
  <2>2. t[i] = d[(b + i - 1) % INPUT_BUF]
    BY <1>3, ZenonT(60)
  <2>3. s[i + 1] = d[(a + (i + 1) - 1) % INPUT_BUF]
    BY <1>3, <2>1, ZenonT(60)
  <2> QED
    BY <2>2, <2>3, <1>2, ZenonT(60)
<1>7. t = Tail(s)
  BY <1>3, <1>5, <1>6, SeqEqual
<1> QED
  BY <1>4, <1>7 DEF b, s, t, TakenFrom

\* Two rings that agree on m + n bytes agree on the first m.
Agree(d, g, a, m) == BytesFrom(g, a, m) = BytesFrom(d, a, m)

LEMMA PrefixSame ==
  ASSUME NEW d \in [0 .. INPUT_BUF - 1 -> Chars], NEW g \in [0 .. INPUT_BUF - 1 -> Chars],
         NEW a \in Int, NEW m \in Nat, NEW k \in Nat, m \in 0 .. k, Agree(d, g, a, k)
  PROVE  Agree(d, g, a, m)
<1>1. Begins(d, a, k, m) /\ Begins(g, a, k, m)
  BY BytesPrefix, ZenonT(60)
<1> QED
  BY <1>1 DEF Begins, Agree

\* Append() and concatenation.
LEMMA AppendConcat ==
  ASSUME NEW s \in Seq(Chars), NEW t \in Seq(Chars), NEW c \in Chars
  PROVE  Append(s \o t, c) = s \o Append(t, c)
<1> DEFINE u == Append(s \o t, c)
           v == s \o Append(t, c)
<1>1. /\ u \in Seq(Chars) /\ Len(u) = Len(s) + Len(t) + 1
      /\ v \in Seq(Chars) /\ Len(v) = Len(s) + Len(t) + 1
  OBVIOUS
<1>2. \A i \in 1 .. Len(s) + Len(t) + 1 : u[i] = v[i]
  OBVIOUS
<1> HIDE DEF u, v
<1>3. u = v
  BY <1>1, <1>2, SeqEqual
<1> QED
  BY <1>3 DEF u, v

\* The indices delimit what can be read and the line.
Delimits(d, r, w, e) ==
  /\ Minus(w, r) \in Nat /\ Minus(e, w) \in Nat /\ Minus(e, r) = Minus(w, r) + Minus(e, w)
  /\ w = Plus(r, Minus(w, r)) /\ e = Plus(w, Minus(e, w)) /\ e = Plus(r, Minus(e, r))
  /\ SliceOf(d, r, w) = BytesFrom(d, r, Minus(w, r))
  /\ SliceOf(d, w, e) = BytesFrom(d, w, Minus(e, w))
  /\ SliceOf(d, r, w) \in Seq(Chars) /\ Len(SliceOf(d, r, w)) = Minus(w, r)
  /\ SliceOf(d, w, e) \in Seq(Chars) /\ Len(SliceOf(d, w, e)) = Minus(e, w)

LEMMA SlicesAre ==
  ASSUME NEW d \in [0 .. INPUT_BUF - 1 -> Chars],
         NEW r \in 0 .. UMOD - 1, NEW w \in 0 .. UMOD - 1, NEW e \in 0 .. UMOD - 1,
         InOrder(r, w, e)
  PROVE  Delimits(d, r, w, e)
<1>1. Minus(w, r) \in Nat /\ Minus(e, w) \in Nat /\ Minus(e, r) = Minus(w, r) + Minus(e, w)
  BY Unsigned DEF InOrder
<1>2. w = Plus(r, Minus(w, r)) /\ e = Plus(w, Minus(e, w)) /\ e = Plus(r, Minus(e, r))
  BY Distances
<1>3. /\ SliceOf(d, r, w) = BytesFrom(d, r, Minus(w, r))
      /\ SliceOf(d, w, e) = BytesFrom(d, w, Minus(e, w))
  BY SliceIs
<1>4. r \in Int /\ w \in Int
  OBVIOUS
<1>5. /\ BytesFrom(d, r, Minus(w, r)) \in Seq(Chars) /\ Len(BytesFrom(d, r, Minus(w, r))) = Minus(w, r)
      /\ BytesFrom(d, w, Minus(e, w)) \in Seq(Chars) /\ Len(BytesFrom(d, w, Minus(e, w))) = Minus(e, w)
  BY <1>1, <1>4, BytesSeq, ZenonT(60)
<1> QED
  BY <1>1, <1>2, <1>3, <1>5 DEF Delimits

\* A character at the end of the line, which becomes readable if it is complete.
LineGrows(d, g, r, w, e, f, c) ==
  /\ f = Plus(r, INPUT_BUF) <=> Len(SliceOf(d, r, w)) + Len(SliceOf(d, w, e)) + 1 = INPUT_BUF
  /\ SliceOf(g, r, f) = SliceOf(d, r, w) \o Append(SliceOf(d, w, e), c)
  /\ SliceOf(g, f, f) = << >>
  /\ SliceOf(g, r, w) = SliceOf(d, r, w)
  /\ SliceOf(g, w, f) = Append(SliceOf(d, w, e), c)

LEMMA SlicesTyped ==
  ASSUME NEW d \in [0 .. INPUT_BUF - 1 -> Chars],
         NEW r \in 0 .. UMOD - 1, NEW w \in 0 .. UMOD - 1, NEW e \in 0 .. UMOD - 1,
         InOrder(r, w, e), Minus(e, r) < INPUT_BUF, NEW c \in Chars,
         NEW g, g = [d EXCEPT ![e % INPUT_BUF] = c], NEW f, f = Plus(e, 1)
  PROVE  LineGrows(d, g, r, w, e, f, c)
<1> DEFINE m == Minus(w, r)
           n == Minus(e, w)
           s == SliceOf(d, r, w)
           t == SliceOf(d, w, e)
<1>1. /\ m \in Nat /\ n \in Nat /\ Minus(e, r) = m + n
      /\ w = Plus(r, m) /\ e = Plus(w, n) /\ e = Plus(r, m + n)
      /\ s = BytesFrom(d, r, m) /\ t = BytesFrom(d, w, n)
      /\ s \in Seq(Chars) /\ Len(s) = m /\ t \in Seq(Chars) /\ Len(t) = n
  <2>1. Delimits(d, r, w, e)
    BY SlicesAre, ZenonT(60)
  <2> QED
    BY <2>1 DEF Delimits
<1>2. m + n < INPUT_BUF
  BY <1>1
<1>3. /\ f \in 0 .. UMOD - 1 /\ Minus(f, r) = m + n + 1 /\ Minus(f, w) = n + 1 /\ Minus(f, f) = 0
      /\ f = Plus(r, INPUT_BUF) <=> Minus(f, r) = INPUT_BUF
  BY <1>1, OrderTyped
<1>4. SliceOf(g, f, f) = << >>
  BY <1>3 DEF SliceOf
<1>5. SliceOf(g, r, f) = BytesFrom(g, r, m + n + 1) /\ SliceOf(g, w, f) = BytesFrom(g, w, n + 1)
  BY <1>3, SliceIs
<1>6. SliceOf(g, r, w) = BytesFrom(g, r, m)
  BY SliceIs
<1> HIDE DEF m, n, s, t
<1>7. \A b \in 0 .. UMOD - 1 : \A k \in Nat : k < INPUT_BUF /\ e = Plus(b, k) => PutBehind(d, g, b, k, c)
  <2> SUFFICES ASSUME NEW b \in 0 .. UMOD - 1, NEW k \in Nat, k < INPUT_BUF, e = Plus(b, k)
               PROVE  PutBehind(d, g, b, k, c)
    OBVIOUS
  <2>1. g = [d EXCEPT ![Plus(b, k) % INPUT_BUF] = c]
    OBVIOUS
  <2> QED
    BY <2>1, BytesTyped, ZenonT(60)
<1>8. n < INPUT_BUF /\ m + n \in Nat
  BY <1>1, <1>2
<1>9. /\ BytesFrom(g, w, n) = t /\ BytesFrom(g, w, n + 1) = Append(t, c)
      /\ BytesFrom(g, r, m + n) = BytesFrom(d, r, m + n)
      /\ BytesFrom(g, r, m + n + 1) = Append(BytesFrom(d, r, m + n), c)
  BY <1>1, <1>2, <1>7, <1>8, ZenonT(60) DEF PutBehind
<1>10. BytesFrom(d, r, m + n) = s \o t
  <2>1. m \in 0 .. UMOD - 1 /\ n \in Nat
    BY <1>1, <1>2
  <2>2. Joined(d, r, m, n)
    BY <2>1, BytesJoin, ZenonT(60)
  <2> QED
    BY <1>1, <2>2 DEF Joined
<1>11. Append(s \o t, c) = s \o Append(t, c)
  BY ONLY <1>1, c \in Chars, AppendConcat
<1>12. BytesFrom(g, r, m) = s
  <2>1. m \in Nat /\ m + n \in Nat /\ m \in 0 .. m + n /\ r \in Int
    BY <1>1
  <2>2. g \in [0 .. INPUT_BUF - 1 -> Chars]
    OBVIOUS
  <2>3. Agree(d, g, r, m + n)
    BY <1>9 DEF Agree
  <2>4. Agree(d, g, r, m)
    BY <2>1, <2>2, <2>3, PrefixSame, ZenonT(60)
  <2> QED
    BY <1>1, <2>4 DEF Agree
<1>13. f = Plus(r, INPUT_BUF) <=> m + n + 1 = INPUT_BUF
  BY <1>3
<1>14. SliceOf(g, r, f) = s \o Append(t, c)
  BY <1>5, <1>9, <1>10, <1>11
<1> QED
  BY <1>1, <1>4, <1>5, <1>6, <1>9, <1>12, <1>13, <1>14 DEF s, t, LineGrows

\* The end of the line is taken back.
LEMMA SlicesErased ==
  ASSUME NEW d \in [0 .. INPUT_BUF - 1 -> Chars],
         NEW r \in 0 .. UMOD - 1, NEW w \in 0 .. UMOD - 1, NEW e \in 0 .. UMOD - 1,
         InOrder(r, w, e), NEW n \in 0 .. UMOD - 1, n <= Minus(e, w), NEW f, f = Minus(e, n)
  PROVE  /\ Len(SliceOf(d, w, e)) - n \in 0 .. Len(SliceOf(d, w, e))
         /\ SliceOf(d, w, f) = SubSeq(SliceOf(d, w, e), 1, Len(SliceOf(d, w, e)) - n)
<1> DEFINE m == Minus(e, w)
           k == m - n
<1>1. Delimits(d, r, w, e)
  BY SlicesAre, ZenonT(60)
<1>2. m \in Nat /\ SliceOf(d, w, e) = BytesFrom(d, w, m) /\ Len(SliceOf(d, w, e)) = m
  BY <1>1 DEF Delimits
<1>3. f \in 0 .. UMOD - 1 /\ Minus(f, w) = k
  BY OrderErased
<1>4. SliceOf(d, w, f) = BytesFrom(d, w, k)
  BY <1>3, SliceIs
<1>5. k \in 0 .. m /\ w \in Int
  BY <1>2
<1> HIDE DEF m, k
<1>6. Begins(d, w, m, k)
  BY <1>2, <1>5, BytesPrefix, ZenonT(60)
<1>7. SliceOf(d, w, f) = SubSeq(SliceOf(d, w, e), 1, k)
  BY <1>2, <1>4, <1>6 DEF Begins
<1> QED
  BY <1>2, <1>5, <1>7 DEF k

\* A byte is taken from what can be read.
ByteGoes(d, r, w) ==
  /\ SliceOf(d, r, w) # << >> /\ Head(SliceOf(d, r, w)) = d[r % INPUT_BUF]
  /\ SliceOf(d, Plus(r, 1), w) = Tail(SliceOf(d, r, w))

LEMMA SlicesTaken ==
  ASSUME NEW d \in [0 .. INPUT_BUF - 1 -> Chars],
         NEW r \in 0 .. UMOD - 1, NEW w \in 0 .. UMOD - 1, NEW e \in 0 .. UMOD - 1,
         InOrder(r, w, e), r # w
  PROVE  ByteGoes(d, r, w)
<1> DEFINE m == Minus(w, r)
           s == Plus(r, 1)
<1>1. Delimits(d, r, w, e)
  BY SlicesAre, ZenonT(60)
<1>2. m \in Nat /\ SliceOf(d, r, w) = BytesFrom(d, r, m)
  BY <1>1 DEF Delimits
<1>3. s \in 0 .. UMOD - 1 /\ Minus(w, s) = m - 1 /\ m > 0
  BY OrderRead
<1>4. SliceOf(d, s, w) = BytesFrom(d, s, m - 1)
  BY <1>3, SliceIs
<1> HIDE DEF m
<1>5. TakenFrom(d, r, m)
  BY <1>2, <1>3, BytesTaken, ZenonT(60)
<1> QED
  BY <1>2, <1>4, <1>5 DEF TakenFrom, ByteGoes

\* Every step of the console is one of the abstract specification, or none.
LEMMA LineStep ==
  ASSUME ConsoleType, InOrder(ir, iw, ie), ReadersHold, LineOpen, [ConsoleNext]_consVars
  PROVE  [Lines!InputNext]_(Lines!inputVars)
<1>1. /\ ir \in 0 .. UMOD - 1 /\ iw \in 0 .. UMOD - 1 /\ ie \in 0 .. UMOD - 1
      /\ buf \in [0 .. INPUT_BUF - 1 -> Chars] /\ got \in [Readers -> Seq(Chars)]
  BY DEF ConsoleType
<1> DEFINE s == SliceOf(buf, ir, iw)
           t == SliceOf(buf, iw, ie)
<1>2. /\ Slice(ir, iw) = s /\ Slice(iw, ie) = t
      /\ Slice(ir, iw)' = SliceOf(buf', ir', iw') /\ Slice(iw, ie)' = SliceOf(buf', iw', ie')
  BY DEF Slice, SliceOf
<1>3. /\ s \in Seq(Chars) /\ t \in Seq(Chars) /\ Len(s) \in Nat /\ Len(t) \in Nat
      /\ Minus(ie, ir) = Len(s) + Len(t) /\ Len(t) = Minus(ie, iw)
  <2>1. Delimits(buf, ir, iw, ie)
    BY <1>1, SlicesAre, ZenonT(60)
  <2> QED
    BY <2>1 DEF Delimits
<1>4. ASSUME UNCHANGED ringVars, UNCHANGED got PROVE UNCHANGED Lines!inputVars
  BY <1>2, <1>4 DEF ringVars, Lines!inputVars
<1>5. ASSUME NEW key \in Letters \cup {NL, CR, EOF}, TypeChar(key) PROVE Lines!InputNext
  <2> DEFINE c == IF key = CR THEN NL ELSE key
  <2>1. c \in Chars
    BY DEF Chars
  <2>2. /\ Minus(ie, ir) < INPUT_BUF /\ ie' = Plus(ie, 1) /\ ir' = ir /\ got' = got
        /\ buf' = [buf EXCEPT ![ie % INPUT_BUF] = c]
        /\ iw' = IF Completes(c, ie') THEN ie' ELSE iw
        /\ Completes(c, ie') <=> (c \in {NL, EOF} \/ ie' = Plus(ir, INPUT_BUF))
    BY <1>5 DEF TypeChar, Completes
  <2> HIDE DEF c
  <2>3. ASSUME NEW g, g = [buf EXCEPT ![ie % INPUT_BUF] = c], NEW f, f = Plus(ie, 1)
        PROVE  LineGrows(buf, g, ir, iw, ie, f, c)
    BY <1>1, <2>1, <2>2, <2>3, SlicesTyped, ZenonT(60)
  <2>4. /\ ie' = Plus(ir, INPUT_BUF) <=> Len(s) + Len(t) + 1 = INPUT_BUF
        /\ SliceOf(buf', ir, ie') = s \o Append(t, c)
        /\ SliceOf(buf', ie', ie') = << >>
        /\ SliceOf(buf', ir, iw) = s
        /\ SliceOf(buf', iw, ie') = Append(t, c)
    <3>1. LineGrows(buf, buf', ir, iw, ie, ie', c)
      BY <2>2, <2>3, ZenonT(60)
    <3> QED
      BY <3>1 DEF LineGrows
  <2> HIDE DEF s, t
  <2>5. Len(Append(t, c)) = Len(t) + 1 /\ Len(s) + Len(t) < INPUT_BUF
    BY <1>3, <2>1, <2>2
  <2>6. (c \in {NL, EOF} \/ Len(s) + Len(Append(t, c)) = INPUT_BUF) <=> Completes(c, ie')
    <3>1. Len(s) + Len(Append(t, c)) = Len(s) + Len(t) + 1
      BY <1>3, <2>5
    <3> QED
      BY <2>2, <2>4, <3>1
  <2>7. CASE Completes(c, ie')
    <3>1. Slice(ir, iw)' = s \o Append(t, c) /\ Slice(iw, ie)' = << >>
      BY <1>2, <2>2, <2>4, <2>7
    <3>2. Lines!Typed(c)
      BY <1>2, <2>2, <2>5, <2>6, <2>7, <3>1 DEF Lines!Typed
    <3> QED
      BY <2>1, <3>2 DEF Lines!InputNext
  <2>8. CASE ~Completes(c, ie')
    <3>1. Slice(ir, iw)' = s /\ Slice(iw, ie)' = Append(t, c)
      BY <1>2, <2>2, <2>4, <2>8
    <3>2. Lines!Typed(c)
      BY <1>2, <2>2, <2>5, <2>6, <2>8, <3>1 DEF Lines!Typed
    <3> QED
      BY <2>1, <3>2 DEF Lines!InputNext
  <2> QED
    BY <2>7, <2>8
<1>6. ASSUME NEW n \in 0 .. Minus(ie, iw), n \in 0 .. UMOD - 1, ie' = Minus(ie, n), ie # iw,
             UNCHANGED <<buf, ir, iw, got>>
      PROVE  [Lines!InputNext]_(Lines!inputVars)
  <2>1. n \in 0 .. UMOD - 1 /\ n <= Minus(ie, iw)
    BY <1>3, <1>6
  <2>2. ASSUME NEW f, f = Minus(ie, n)
        PROVE  /\ Len(t) - n \in 0 .. Len(t)
               /\ SliceOf(buf, iw, f) = SubSeq(t, 1, Len(t) - n)
    BY <1>1, <2>1, <2>2, SlicesErased
  <2>3. SliceOf(buf', iw', ie') = SubSeq(t, 1, Len(t) - n) /\ SliceOf(buf', ir', iw') = s
    BY <1>6, <2>2
  <2>4. Len(t) # 0
    BY <1>1, <1>3, <1>6, Distances
  <2> HIDE DEF s, t
  <2>5. CASE n = 0
    <3>1. SubSeq(t, 1, Len(t) - n) = t
      <4>1. Len(t) - n = Len(t)
        BY <1>3, <2>5
      <4> QED
        BY <1>3, <4>1
    <3> QED
      BY <1>2, <1>6, <2>3, <3>1 DEF Lines!inputVars
  <2>6. CASE n # 0
    <3>1. Len(t) - n \in 0 .. Len(t) - 1 /\ t # << >>
      BY <1>3, <2>1, <2>4, <2>6
    <3>2. Lines!Erase
      BY <1>2, <1>6, <2>3, <3>1 DEF Lines!Erase
    <3> QED
      BY <3>2 DEF Lines!InputNext
  <2> QED
    BY <2>5, <2>6
<1>7. CASE Backspace
  <2>1. Minus(ie, iw) \in 0 .. UMOD - 1 /\ Minus(ie, iw) # 0
    BY <1>1, <1>7, Unsigned, Distances DEF Backspace
  <2>2. 1 \in 0 .. Minus(ie, iw) /\ 1 \in 0 .. UMOD - 1
    BY <2>1
  <2> QED
    BY <1>6, <1>7, <2>2 DEF Backspace
<1>8. CASE KillLine
  BY <1>6, <1>8, KillErases DEF KillLine
<1>9. ASSUME NEW p \in Readers, ReadStart(p) PROVE Lines!InputNext
  <2>1. UNCHANGED ringVars /\ got' = [got EXCEPT ![p] = << >>]
    BY <1>9 DEF ReadStart
  <2>2. Lines!StartRead(p)
    BY <1>2, <2>1 DEF ringVars, Lines!StartRead
  <2> QED
    BY <2>2 DEF Lines!InputNext
<1>10. ASSUME NEW p \in Readers, ReadByte(p) PROVE [Lines!InputNext]_(Lines!inputVars)
  <2> DEFINE c == buf[ir % INPUT_BUF]
  <2>1. /\ rpc[p] = "loop" /\ ir # iw /\ UNCHANGED <<buf, iw, ie>>
        /\ got[p] # << >> => got[p][Len(got[p])] # NL
    BY <1>10 DEF ReadByte, LineOpen
  <2>2. s # << >> /\ Head(s) = c /\ SliceOf(buf, Plus(ir, 1), iw) = Tail(s)
    <3>1. ByteGoes(buf, ir, iw)
      BY <1>1, <2>1, SlicesTaken, ZenonT(60)
    <3> QED
      BY <3>1 DEF ByteGoes
  <2>3. CASE c = EOF /\ got[p] # << >>
    <3>1. ir' = ir /\ got' = got
      BY <1>10, <2>3 DEF ReadByte
    <3> QED
      BY <1>4, <2>1, <3>1 DEF ringVars
  <2>4. CASE c = EOF /\ got[p] = << >>
    <3>1. ir' = Plus(ir, 1) /\ got' = got
      BY <1>10, <2>4 DEF ReadByte
    <3> HIDE DEF s, t, c
    <3>2. Slice(ir, iw)' = Tail(s) /\ Slice(iw, ie)' = t
      BY <1>2, <2>1, <2>2, <3>1 DEF t
    <3>3. Lines!Take(p)
      BY <1>2, <2>1, <2>2, <2>4, <3>1, <3>2 DEF Lines!Take
    <3> QED
      BY <3>3 DEF Lines!InputNext
  <2>5. CASE c # EOF
    <3>1. ir' = Plus(ir, 1) /\ got' = [got EXCEPT ![p] = Append(@, c)]
      BY <1>10, <2>5 DEF ReadByte
    <3> HIDE DEF s, t, c
    <3>2. Slice(ir, iw)' = Tail(s) /\ Slice(iw, ie)' = t
      BY <1>2, <2>1, <2>2, <3>1 DEF t
    <3>3. Lines!Take(p)
      BY <1>2, <2>1, <2>2, <2>5, <3>1, <3>2 DEF Lines!Take
    <3> QED
      BY <3>3 DEF Lines!InputNext
  <2> QED
    BY <2>3, <2>4, <2>5
<1>11. ASSUME NEW p \in Readers, ReaderStep(p)
       PROVE  (UNCHANGED ringVars /\ UNCHANGED got) \/ ReadStart(p) \/ ReadByte(p)
  BY <1>11 DEF ReaderStep, ReadLock, ReadEmpty, ReadSleep, KillReader, ringVars
<1>12. CASE UNCHANGED consVars
  BY <1>4, <1>12 DEF consVars, ringVars
<1> QED
  BY <1>4, <1>5, <1>7, <1>8, <1>9, <1>10, <1>11, <1>12 DEF ConsoleNext

\* consoleintr() and consoleread() (console.c:191-271) are the line editor and queue
\* of LineInput: what is typed can be taken back until its line is complete, complete
\* input is delivered once and in order, a read ends with its line, and ^D is seen
\* by one read, however often the indices wrap around and whoever else reads.
THEOREM ConsoleIsLineInput == ConsoleSpec => LineDiscipline
<1>1. ConsoleInit => Lines!InputInit
  <2> SUFFICES ASSUME ConsoleInit PROVE Lines!InputInit
    OBVIOUS
  <2>1. ir = 0 /\ iw = 0 /\ ie = 0 /\ got = [p \in Readers |-> << >>]
    BY DEF ConsoleInit
  <2>2. Minus(0, 0) = 0
    <3>1. 0 \in 0 .. UMOD - 1
      OBVIOUS
    <3> QED
      BY <3>1, Distances, ZenonT(60)
  <2>3. Slice(0, 0) = << >>
    BY <2>2 DEF Slice
  <2> QED
    BY <2>1, <2>3 DEF Lines!InputInit
<1>2. ConsoleInv /\ [ConsoleNext]_consVars => [Lines!InputNext]_(Lines!inputVars)
  BY LineStep DEF ConsoleInv
<1> QED
  BY <1>1, <1>2, ConsoleInvariance, PTL DEF ConsoleSpec, LineDiscipline, Lines!InputSpec

HIDE ConsoleAssumption

-----------------------------------------------------------------------------
(* Keyboard: the inductive invariant.                                       *)

Modifiers == {"CTL", "SHIFT", "ALT"}

\* Flags f follow modifier m when keys D are down.
Follows(m, f, D) ==
  /\ m \in f => \E k \in Keys : m \in shiftcode(Code(k)) /\ k \in D
  /\ (\E k \in Keys : m \in shiftcode(Code(k))) /\ (\A k \in Keys : m \in shiftcode(Code(k)) => k \in D)
       => m \in f

\* The bytes of key k that are still to come; the prefix has left its flag.
Coming(k, b) ==
  \/ k[2] /\ port = <<224, b>> /\ "E0ESC" \notin shift
  \/ port = <<b>> /\ ("E0ESC" \in shift <=> k[2])

\* While the bytes of a key are under way the flags are those without its change.
KbdInv ==
  \/ port = << >> /\ "E0ESC" \notin shift /\ \A m \in Modifiers : Follows(m, shift, down)
  \/ \E k \in Keys : k \in down /\ Coming(k, k[1]) /\ \A m \in Modifiers : Follows(m, shift, down \ {k})
  \/ \E k \in Keys : k \notin down /\ Coming(k, k[1] + 128)
                       /\ \A m \in Modifiers : Follows(m, shift, down \cup {k})

USE KbdAssumption

-----------------------------------------------------------------------------
(* Keyboard: every step keeps it.                                           *)

\* The bytes of a key.
LEMMA KeyBytes ==
  ASSUME NEW k \in Keys
  PROVE  /\ k[1] \in Nat /\ k[1] < 128 /\ k[1] + 128 # 224 /\ k[2] \in BOOLEAN
         /\ Code(k) = IF k[2] THEN k[1] + 128 ELSE k[1]
<1>1. k \in ((0 .. 127) \ {96}) \X BOOLEAN
  OBVIOUS
<1>2. k[1] \in 0 .. 127 /\ k[1] # 96 /\ k[2] \in BOOLEAN
  BY <1>1
<1> QED
  BY <1>2 DEF Code

\* The tables have modifiers only.
LEMMA TableFlags ==
  ASSUME NEW b
  PROVE  shiftcode(b) \subseteq Modifiers /\ togglecode(b) \subseteq {"CAPSLOCK"}
BY DEF shiftcode, togglecode, Modifiers

\* A pressed modifier is on, ...
LEMMA FollowsPress ==
  ASSUME NEW m \in Modifiers, NEW k \in Keys, NEW f, NEW g, NEW D, k \in D,
         Follows(m, f, D \ {k}), m \in g <=> (m \in f \/ m \in shiftcode(Code(k)))
  PROVE  Follows(m, g, D)
BY DEF Follows

\* ... a released one is off.
LEMMA FollowsRelease ==
  ASSUME NEW m \in Modifiers, NEW k \in Keys, NEW f, NEW g, NEW D, k \notin D,
         Follows(m, f, D \cup {k}), m \in g <=> (m \in f /\ m \notin shiftcode(Code(k)))
  PROVE  Follows(m, g, D)
BY DEF Follows

LEMMA KbdStep == KbdInv /\ [KbdNext]_kbdVars => KbdInv'
<1> SUFFICES ASSUME KbdInv, [KbdNext]_kbdVars PROVE KbdInv'
  OBVIOUS
<1>1. CASE UNCHANGED kbdVars
  BY <1>1, ZenonT(60) DEF kbdVars, KbdInv, Coming
<1>2. ASSUME NEW k \in Keys, KeyDown(k) PROVE KbdInv'
  <2>1. port = << >> /\ k \notin down /\ down' = down \cup {k} /\ shift' = shift
    BY <1>2 DEF KeyDown
  <2>2. "E0ESC" \notin shift /\ \A m \in Modifiers : Follows(m, shift, down)
    BY <2>1 DEF KbdInv, Coming
  <2>3. Coming(k, k[1])'
    <3>1. port' = IF k[2] THEN <<224, k[1]>> ELSE <<k[1]>>
      <4>1. port' = (IF k[2] THEN <<224>> ELSE << >>) \o <<k[1]>>
        BY <1>2 DEF KeyDown, Sent
      <4>2. k[1] \in Nat /\ k[2] \in BOOLEAN
        BY KeyBytes
      <4> QED
        BY <4>1, <4>2
    <3> QED
      BY <2>1, <2>2, <3>1, KeyBytes DEF Coming
  <2>4. \A m \in Modifiers : Follows(m, shift', down' \ {k})
    BY <2>1, <2>2 DEF Follows
  <2> QED
    BY <2>1, <2>3, <2>4 DEF KbdInv
<1>3. ASSUME NEW k \in Keys, KeyUp(k) PROVE KbdInv'
  <2>1. port = << >> /\ k \in down /\ down' = down \ {k} /\ shift' = shift
    BY <1>3 DEF KeyUp
  <2>2. "E0ESC" \notin shift /\ \A m \in Modifiers : Follows(m, shift, down)
    BY <2>1 DEF KbdInv, Coming
  <2>3. Coming(k, k[1] + 128)'
    <3>1. port' = IF k[2] THEN <<224, k[1] + 128>> ELSE <<k[1] + 128>>
      <4>1. port' = (IF k[2] THEN <<224>> ELSE << >>) \o <<k[1] + 128>>
        BY <1>3 DEF KeyUp, Sent
      <4>2. k[1] + 128 \in Nat /\ k[2] \in BOOLEAN
        BY KeyBytes
      <4> QED
        BY <4>1, <4>2
    <3> QED
      BY <2>1, <2>2, <3>1, KeyBytes DEF Coming
  <2>4. \A m \in Modifiers : Follows(m, shift', down' \cup {k})
    BY <2>1, <2>2 DEF Follows
  <2> QED
    BY <2>1, <2>3, <2>4 DEF KbdInv
<1>4. CASE Kbdgetc
  <2>1. port # << >> /\ port' = Tail(port) /\ down' = down
    BY <1>4 DEF Kbdgetc
  <2>2. ASSUME NEW k \in Keys, NEW b \in Nat, b # 224, Coming(k, b), port # <<b>>
        PROVE  Coming(k, b)' /\ \A m \in Modifiers : m \in shift' <=> m \in shift
    <3>1. k[2] /\ port = <<224, b>> /\ "E0ESC" \notin shift
      BY <2>2 DEF Coming
    <3>2. Head(port) = 224 /\ Tail(port) = <<b>>
      BY <2>2, <3>1
    <3>3. shift' = shift \cup {"E0ESC"}
      BY <1>4, <3>2 DEF Kbdgetc
    <3> QED
      BY <2>1, <3>1, <3>2, <3>3 DEF Coming, Modifiers
  <2>3. ASSUME NEW k \in Keys, k \in down, Coming(k, k[1]), \A m \in Modifiers : Follows(m, shift, down \ {k})
        PROVE  KbdInv'
    <3> DEFINE b == k[1]
    <3>1. b \in Nat /\ b < 128 /\ Code(k) = IF k[2] THEN b + 128 ELSE b
      BY KeyBytes
    <3>2. CASE port # <<b>>
      <4>1. Coming(k, b)' /\ \A m \in Modifiers : m \in shift' <=> m \in shift
        BY <2>2, <2>3, <3>1, <3>2
      <4>2. \A m \in Modifiers : Follows(m, shift', down' \ {k})
        BY <2>1, <2>3, <4>1 DEF Follows
      <4> QED
        BY <2>1, <2>3, <4>1, <4>2 DEF KbdInv
    <3>3. CASE port = <<b>>
      <4>1. Head(port) = b /\ port' = << >>
        BY <2>1, <3>1, <3>3
      <4>2. KbdPress(b)
        BY <1>4, <3>1, <4>1 DEF Kbdgetc
      <4>3. "E0ESC" \in shift <=> k[2]
        BY <2>3, <3>1, <3>3 DEF Coming
      <4>4. shift' = Xor((shift \ {"E0ESC"}) \cup shiftcode(Code(k)), togglecode(Code(k)))
        BY <3>1, <4>2, <4>3 DEF KbdPress
      <4>5. /\ "E0ESC" \notin shift'
            /\ \A m \in Modifiers : m \in shift' <=> (m \in shift \/ m \in shiftcode(Code(k)))
        BY <4>4, TableFlags DEF Xor, Modifiers
      <4>6. \A m \in Modifiers : Follows(m, shift', down')
        BY <2>1, <2>3, <4>5, FollowsPress
      <4> QED
        BY <4>1, <4>5, <4>6 DEF KbdInv
    <3> QED
      BY <3>2, <3>3
  <2>4. ASSUME NEW k \in Keys, k \notin down, Coming(k, k[1] + 128),
               \A m \in Modifiers : Follows(m, shift, down \cup {k})
        PROVE  KbdInv'
    <3> DEFINE b == k[1] + 128
    <3>1. b \in Nat /\ b >= 128 /\ b # 224 /\ Code(k) = IF k[2] THEN b ELSE b - 128
      BY KeyBytes
    <3>2. CASE port # <<b>>
      <4>1. Coming(k, b)' /\ \A m \in Modifiers : m \in shift' <=> m \in shift
        BY <2>2, <2>4, <3>1, <3>2
      <4>2. \A m \in Modifiers : Follows(m, shift', down' \cup {k})
        BY <2>1, <2>4, <4>1 DEF Follows
      <4> QED
        BY <2>1, <2>4, <4>1, <4>2 DEF KbdInv
    <3>3. CASE port = <<b>>
      <4>1. Head(port) = b /\ port' = << >>
        BY <2>1, <3>1, <3>3
      <4>2. KbdRelease(b)
        BY <1>4, <3>1, <4>1 DEF Kbdgetc
      <4>3. "E0ESC" \in shift <=> k[2]
        BY <2>4, <3>1, <3>3 DEF Coming
      <4>4. shift' = shift \ (shiftcode(Code(k)) \cup {"E0ESC"})
        BY <3>1, <4>2, <4>3 DEF KbdRelease
      <4>5. /\ "E0ESC" \notin shift'
            /\ \A m \in Modifiers : m \in shift' <=> (m \in shift /\ m \notin shiftcode(Code(k)))
        BY <4>4 DEF Modifiers
      <4>6. \A m \in Modifiers : Follows(m, shift', down')
        BY <2>1, <2>4, <4>5, FollowsRelease
      <4> QED
        BY <4>1, <4>5, <4>6 DEF KbdInv
    <3> QED
      BY <3>2, <3>3
  <2> QED
    BY <2>1, <2>3, <2>4 DEF KbdInv
<1> QED
  BY <1>1, <1>2, <1>3, <1>4 DEF KbdNext

\* kbdgetc() (kbd.c:7-44) keeps the modifiers with their keys: none stays on when its
\* last key has gone up, and none is lost while all its keys are down, whatever keys
\* the keyboard has and in whatever order they go down and up.
THEOREM KbdModifiersFollowKeys == KbdSpec => []ModifiersFollowKeys
<1>1. KbdInit => KbdInv
  BY DEF KbdInit, KbdInv, Follows
<1>2. KbdInv => ModifiersFollowKeys
  <2> SUFFICES ASSUME KbdInv, port = << >>
               PROVE  /\ "E0ESC" \notin shift
                      /\ \A m \in Modifiers :
                           LET keys == {k \in Keys : m \in shiftcode(Code(k))} IN
                           /\ m \in shift => keys \cap down # {}
                           /\ keys # {} /\ keys \subseteq down => m \in shift
    BY DEF ModifiersFollowKeys, Modifiers
  <2>1. "E0ESC" \notin shift /\ \A m \in Modifiers : Follows(m, shift, down)
    BY DEF KbdInv, Coming
  <2>2. ASSUME NEW m \in Modifiers
        PROVE  LET keys == {k \in Keys : m \in shiftcode(Code(k))} IN
               /\ m \in shift => keys \cap down # {}
               /\ keys # {} /\ keys \subseteq down => m \in shift
    BY <2>1 DEF Follows
  <2> QED
    BY <2>1, <2>2
<1> QED
  BY <1>1, <1>2, KbdStep, PTL DEF KbdSpec

HIDE KbdAssumption

-----------------------------------------------------------------------------
(* User memory: the inductive invariant.                                    *)

Tables == 0 .. NPD - 1

SpaceType ==
  [kvm : SUBSET Pages, pde : [Tables -> Pages \cup {NoPage}],
   pte : [VPNs -> Pages \cup {NoPage}], guard : SUBSET Int]

JobType ==
  [call : {"none", "sbrk", "fork", "exec", "stack", "bad"}, at : Nat, to : Nat,
   child : Procs, prog : Programs \cup {<<>>}, page : Pages \cup {NoPage}]

VmType ==
  /\ free \subseteq Pages
  /\ pgdir \in [Procs -> SpaceType] /\ new \in [Procs -> SpaceType]
  /\ sz \in [Procs -> 0 .. KERNBASE] /\ job \in [Procs -> JobType]

\* No page has two places in a page table.
Apart(s) ==
  /\ \A d \in Tables : s.pde[d] \notin s.kvm
  /\ \A v \in VPNs : s.pte[v] \notin s.kvm
  /\ \A d, e \in Tables : s.pde[d] = s.pde[e] /\ s.pde[d] # NoPage => d = e
  /\ \A v, w \in VPNs : s.pte[v] = s.pte[w] /\ s.pte[v] # NoPage => v = w
  /\ \A d \in Tables, v \in VPNs : s.pde[d] = s.pte[v] => s.pde[d] = NoPage

TablesApart == \A p \in Procs : Apart(pgdir[p]) /\ Apart(new[p])

\* The pages are divided among the free list F, the page tables D of processes and
\* the calls under way, N.
Divided(F, D, N) ==
  /\ \A p \in Procs : D[p] \cap F = {} /\ N[p] \cap F = {}
  /\ \A p, q \in Procs : D[p] \cap N[q] = {}
  /\ \A p, q \in Procs : p # q => D[p] \cap D[q] = {} /\ N[p] \cap N[q] = {}
  /\ \A g \in Pages : g \in F \/ \E p \in Procs : g \in D[p] \/ g \in N[p]

\* The pages of a call under way: the page table being made and the page in hand.
Made(n, j) == PagesOf(n) \cup ({j.page} \ {NoPage})

Held == [p \in Procs |-> PagesOf(pgdir[p])]
Making == [p \in Procs |-> Made(new[p], job[p])]
PagesDivided == Divided(free, Held, Making)

\* The first n pages are mapped, and no other.
Mapped(s, n) == \A v \in VPNs : s.pte[v] # NoPage <=> v < n

\* The same, but for a process that has given up its first page.
Whole(s) == s.pte[0] # NoPage
Within(s, n) ==
  \A v \in VPNs : (s.pte[v] # NoPage => v < n) /\ (v < n /\ Whole(s) => s.pte[v] # NoPage)

\* The pages of a program.
ProgPages(f) == PGROUNDUP(Cardinality(DOMAIN f))

\* What a call j has done so far, for a process with page table d and size z that
\* makes n: the page table it extends has the pages below at.
Progress(j, d, n, z) ==
  /\ j.call # "sbrk" => Within(d, PGROUNDUP(z))
  /\ j.call = "sbrk" => /\ z < j.to /\ j.to <= KERNBASE /\ j.at \in PGROUNDUP(z) .. PGROUNDUP(j.to)
                        /\ Within(d, j.at)
                        /\ \A v \in VPNs : PGROUNDUP(z) <= v /\ v < j.at => d.pte[v] # NoPage
  /\ j.call \in {"fork", "exec", "stack"} =>
       j.to <= KERNBASE /\ j.at <= PGROUNDUP(j.to) /\ Mapped(n, j.at)
  /\ j.call = "fork" => j.to = z /\ (0 < j.at => Whole(d))
  /\ j.call \in {"exec", "stack"} => j.prog \in Programs
  /\ j.call = "exec" => j.to = Cardinality(DOMAIN j.prog)
  /\ j.call = "stack" => /\ ProgPages(j.prog) + 2 < NPD * NPT
                         /\ j.to = (ProgPages(j.prog) + 2) * PGSIZE /\ ProgPages(j.prog) <= j.at
  /\ j.page # NoPage => /\ j.call \in {"sbrk", "fork", "exec", "stack"} /\ j.at < PGROUNDUP(j.to)
                        /\ j.page \notin PagesOf(n) /\ (j.call = "fork" => Whole(d))

\* Calls are made by living processes, and only some of them make a page table.
Calling(j, d, n, z) ==
  /\ d # NoSpace => d.kvm # {} /\ 0 < z
  /\ d = NoSpace => z = 0 /\ j = Nothing
  /\ j.call = "none" => j = Nothing
  /\ j.call \in {"none", "sbrk"} => n = NoSpace
  /\ j.call \in {"stack", "bad"} => n.kvm # {}

\* No child is taken twice.
ChildrenFree ==
  \A p \in Procs : job[p].call = "fork" =>
    /\ pgdir[job[p].child] = NoSpace
    /\ \A q \in Procs \ {p} : job[q].call = "fork" => job[q].child # job[p].child

VmInv ==
  /\ VmType /\ TablesApart /\ PagesDivided /\ ChildrenFree
  /\ \A p \in Procs : /\ Progress(job[p], pgdir[p], new[p], sz[p])
                       /\ Calling(job[p], pgdir[p], new[p], sz[p])

USE VmAssumption

-----------------------------------------------------------------------------
(* User memory: addresses.                                                  *)

LEMMA MulLess ==
  ASSUME NEW a \in Int, NEW b \in Int, NEW n \in Nat \ {0}
  PROVE  a * n \in Int /\ (a < b <=> a * n < b * n)
<1>1. a * n \in Int /\ b * n \in Int /\ (b - a) * n = b * n - a * n
  OBVIOUS
<1>2. ASSUME a < b PROVE a * n < b * n
  <2>1. b - a > 0 /\ n > 0 /\ b - a \in Int /\ n \in Int
    BY <1>2
  <2>2. (b - a) * n > 0
    BY <2>1
  <2> QED
    BY <1>1, <2>2
<1>3. ASSUME b <= a PROVE b * n <= a * n
  <2>1. a - b >= 0 /\ n > 0 /\ a - b \in Int /\ n \in Int /\ (a - b) * n = a * n - b * n
    BY <1>3
  <2>2. (a - b) * n >= 0
    BY <2>1
  <2> QED
    BY <1>1, <2>1, <2>2
<1> QED
  BY <1>1, <1>2, <1>3

LEMMA VmSizes ==
  /\ NPD * NPT \in Nat \ {0} /\ KERNBASE \in Nat /\ PGSIZE <= KERNBASE
  /\ VPNs \subseteq Nat /\ 0 \in VPNs /\ 0 \in Tables
<1>1. NPD * NPT \in Nat /\ NPD * NPT > 0
  OBVIOUS
<1>2. NPD * NPT * PGSIZE \in Nat
  BY <1>1
<1>3. NPD * NPT * PGSIZE >= PGSIZE
  <2> DEFINE m == NPD * NPT
  <2>1. m \in Nat /\ m >= 1
    BY <1>1
  <2> HIDE DEF m
  <2>2. m * PGSIZE >= PGSIZE
    BY <2>1
  <2> QED
    BY <2>2 DEF m
<1> QED
  BY <1>1, <1>2, <1>3 DEF KERNBASE, VPNs, Tables

\* PGROUNDUP() counts the pages that begin below an address.
LEMMA RoundUp ==
  ASSUME NEW n \in Nat
  PROVE  PGROUNDUP(n) \in Nat /\ \A v \in Nat : v * PGSIZE < n <=> v < PGROUNDUP(n)
<1> DEFINE q == PGROUNDUP(n)
           r == (n + PGSIZE - 1) % PGSIZE
<1>1. n + PGSIZE - 1 = PGSIZE * q + r /\ q \in Int /\ r \in 0 .. PGSIZE - 1
  BY DEF PGROUNDUP
<1>2. q \in Nat
  BY DEF PGROUNDUP
<1> HIDE DEF q, r
<1>3. ASSUME NEW v \in Nat PROVE v * PGSIZE < n <=> v < q
  <2>1. v < q => v * PGSIZE + PGSIZE <= q * PGSIZE
    <3>1. v < q => v + 1 = q \/ v + 1 < q
      BY <1>2
    <3>2. (v + 1) * PGSIZE = v * PGSIZE + PGSIZE
      OBVIOUS
    <3> QED
      BY <3>1, <3>2, MulLess, <1>2
  <2>2. v >= q => v * PGSIZE >= q * PGSIZE
    BY MulLess, <1>2
  <2>3. PGSIZE * q = q * PGSIZE /\ q * PGSIZE \in Nat /\ v * PGSIZE \in Nat
    BY <1>2
  <2> QED
    BY <1>1, <1>2, <2>1, <2>2, <2>3
<1> QED
  BY <1>2, <1>3 DEF q

\* A whole number of pages rounds up to itself, and nothing up to KERNBASE rounds
\* beyond the last page.
LEMMA RoundUpWhole ==
  ASSUME NEW n \in Nat
  PROVE  PGROUNDUP(n * PGSIZE) = n
<1> DEFINE q == PGROUNDUP(n * PGSIZE)
<1>1. n * PGSIZE \in Nat
  OBVIOUS
<1>2. q \in Nat /\ \A v \in Nat : v * PGSIZE < n * PGSIZE <=> v < q
  BY <1>1, RoundUp
<1> HIDE DEF q
<1>3. ASSUME NEW v \in Nat PROVE v < n <=> v < q
  <2>1. v < n <=> v * PGSIZE < n * PGSIZE
    BY MulLess
  <2> QED
    BY <1>2, <2>1
<1>4. q = n
  BY <1>2, <1>3
<1> QED
  BY <1>4 DEF q

LEMMA RoundUpBound ==
  ASSUME NEW n \in 0 .. KERNBASE
  PROVE  PGROUNDUP(n) \in 0 .. NPD * NPT
<1>1. PGROUNDUP(n) \in Nat /\ (NPD * NPT * PGSIZE < n <=> NPD * NPT < PGROUNDUP(n))
  BY RoundUp, VmSizes
<1> QED
  BY <1>1, VmSizes DEF KERNBASE

LEMMA RoundUpMonotone ==
  ASSUME NEW m \in Nat, NEW n \in Nat, m <= n
  PROVE  PGROUNDUP(m) <= PGROUNDUP(n)
<1> DEFINE a == PGROUNDUP(m)
           b == PGROUNDUP(n)
<1>1. a \in Nat /\ b \in Nat /\ \A v \in Nat : (v * PGSIZE < m <=> v < a) /\ (v * PGSIZE < n <=> v < b)
  BY RoundUp
<1>2. b * PGSIZE \in Nat
  BY <1>1
<1> HIDE DEF a, b
<1>3. ~(b * PGSIZE < n)
  BY <1>1
<1>4. ~(b * PGSIZE < m)
  BY <1>2, <1>3
<1>5. ~(b < a)
  BY <1>1, <1>4
<1>6. a <= b
  BY <1>1, <1>5
<1> QED
  BY <1>6 DEF a, b

LEMMA TableOf ==
  ASSUME NEW v \in VPNs
  PROVE  PDX(v) \in Tables
<1> DEFINE q == v \div NPT
           r == v % NPT
<1>1. v = NPT * q + r /\ q \in Int /\ r \in 0 .. NPT - 1 /\ v \in Nat /\ v < NPD * NPT
  BY VmSizes DEF VPNs
<1>2. q >= 0
  BY VmSizes
<1> HIDE DEF q, r
<1>3. NPT * q = q * NPT /\ q * NPT \in Int
  BY <1>1
<1>4. q * NPT < NPD * NPT
  BY <1>1, <1>3
<1>5. q < NPD
  BY <1>1, <1>4, MulLess
<1>6. q \in Tables
  BY <1>1, <1>2, <1>5 DEF Tables
<1> QED
  BY <1>6 DEF q, PDX

-----------------------------------------------------------------------------
(* User memory: the pages of a page table.                                  *)

LEMMA InPagesOf ==
  ASSUME NEW s \in SpaceType, NEW g
  PROVE  g \in PagesOf(s) <=> \/ g \in s.kvm
                              \/ g # NoPage /\ \E d \in Tables : s.pde[d] = g
                              \/ g # NoPage /\ \E v \in VPNs : s.pte[v] = g
BY DEF PagesOf, SpaceType, Tables

LEMMA PagesOfSubset ==
  ASSUME NEW s \in SpaceType
  PROVE  PagesOf(s) \subseteq Pages
<1> SUFFICES ASSUME NEW g \in PagesOf(s) PROVE g \in Pages
  OBVIOUS
<1> QED
  BY InPagesOf DEF SpaceType

LEMMA NoSpaceEmpty ==
  /\ NoSpace \in SpaceType /\ PagesOf(NoSpace) = {} /\ Apart(NoSpace) /\ Mapped(NoSpace, 0)
  /\ NoSpace.kvm = {}
<1>1. NoSpace \in SpaceType
  BY DEF NoSpace, SpaceType, Tables
<1>2. ASSUME NEW g \in PagesOf(NoSpace) PROVE FALSE
  BY <1>1, <1>2, InPagesOf DEF NoSpace, Tables
<1>3. PagesOf(NoSpace) = {}
  BY <1>2
<1>4. NoSpace.kvm = {} /\ (\A d \in Tables : NoSpace.pde[d] = NoPage) /\ \A v \in VPNs : NoSpace.pte[v] = NoPage
  BY DEF NoSpace, Tables
<1>5. Apart(NoSpace)
  BY <1>4 DEF Apart
<1>6. Mapped(NoSpace, 0)
  <2>1. \A v \in VPNs : ~(v < 0)
    BY VmSizes
  <2> QED
    BY <1>4, <2>1 DEF Mapped
<1> QED
  BY <1>1, <1>3, <1>4, <1>5, <1>6

\* setupkvm().
LEMMA OnlyKernel ==
  ASSUME NEW k \in SUBSET Pages, k # {}
  PROVE  LET s == [NoSpace EXCEPT !.kvm = k] IN
         /\ s \in SpaceType /\ PagesOf(s) = k /\ Apart(s) /\ Mapped(s, 0) /\ s.kvm = k
<1> DEFINE s == [NoSpace EXCEPT !.kvm = k]
<1>1. s \in SpaceType /\ s.kvm = k /\ (\A d \in Tables : s.pde[d] = NoPage) /\ \A v \in VPNs : s.pte[v] = NoPage
  BY DEF NoSpace, SpaceType, Tables
<1> HIDE DEF s
<1>2. ASSUME NEW g PROVE g \in PagesOf(s) <=> g \in k
  BY <1>1, InPagesOf
<1>3. PagesOf(s) = k
  BY <1>2
<1>4. Apart(s)
  <2>1. NoPage \notin k
    OBVIOUS
  <2> QED
    BY <1>1, <2>1 DEF Apart
<1>5. Mapped(s, 0)
  BY <1>1, VmSizes DEF Mapped
<1> QED
  BY <1>1, <1>3, <1>4, <1>5 DEF s

\* Whole page tables.
LEMMA WithinMapped ==
  ASSUME NEW s, NEW n \in Nat
  PROVE  /\ Mapped(s, n) => Within(s, n) /\ (0 < n => Whole(s))
         /\ Within(s, n) /\ Whole(s) => Mapped(s, n)
         /\ Within(s, 0) => ~Whole(s) /\ Within(s, n)
<1>1. 0 \in VPNs /\ \A v \in VPNs : v \in Nat
  BY VmSizes
<1>2. Mapped(s, n) => Within(s, n) /\ (0 < n => Whole(s))
  BY <1>1 DEF Mapped, Within, Whole
<1>3. Within(s, n) /\ Whole(s) => Mapped(s, n)
  BY DEF Mapped, Within
<1>4. Within(s, 0) => ~Whole(s) /\ Within(s, n)
  BY <1>1 DEF Within, Whole
<1> QED
  BY <1>2, <1>3, <1>4

\* setupkvm() takes a page.
LEMMA KernelPage ==
  ASSUME NEW s \in SpaceType, Apart(s), NEW g \in Pages, g \notin PagesOf(s)
  PROVE  LET r == [s EXCEPT !.kvm = @ \cup {g}] IN
         /\ r \in SpaceType /\ Apart(r) /\ PagesOf(r) = PagesOf(s) \cup {g} /\ r.pte = s.pte
         /\ \A n : Mapped(s, n) => Mapped(r, n)
<1> DEFINE r == [s EXCEPT !.kvm = @ \cup {g}]
<1>1. r \in SpaceType /\ r.kvm = s.kvm \cup {g} /\ r.pde = s.pde /\ r.pte = s.pte
  BY DEF SpaceType
<1> HIDE DEF r
<1>2. g \notin s.kvm /\ (\A d \in Tables : s.pde[d] # g) /\ \A v \in VPNs : s.pte[v] # g
  BY InPagesOf
<1>3. Apart(r)
  BY <1>1, <1>2 DEF Apart
<1>4. ASSUME NEW x PROVE x \in PagesOf(r) <=> x \in PagesOf(s) \/ x = g
  BY <1>1, InPagesOf
<1>5. PagesOf(r) = PagesOf(s) \cup {g}
  BY <1>4
<1> QED
  BY <1>1, <1>3, <1>5 DEF r, Mapped

\* The next page is mapped, with a new table u or an old one.
LEMMA ExtendSpace ==
  ASSUME NEW s \in SpaceType, Apart(s), NEW n \in VPNs, Within(s, n),
         NEW g \in Pages, g \notin PagesOf(s), NEW u \in Pages,
         \/ s.pde[PDX(n)] = u
         \/ s.pde[PDX(n)] = NoPage /\ u \notin PagesOf(s) /\ u # g,
         NEW r \in SpaceType, r.kvm = s.kvm, r.pte = [s.pte EXCEPT ![n] = g],
         r.pde = [s.pde EXCEPT ![PDX(n)] = u]
  PROVE  /\ Apart(r) /\ PagesOf(r) = PagesOf(s) \cup {g, u}
         /\ (Mapped(s, n) => Mapped(r, n + 1)) /\ (0 < n => Within(r, n + 1))
         /\ (0 < n => (Whole(r) <=> Whole(s)))
         /\ \A v \in VPNs : r.pte[v] = IF v = n THEN g ELSE s.pte[v]
<1> DEFINE d == PDX(n)
<1>1. d \in Tables
  BY TableOf
<1>2. r.pde = [s.pde EXCEPT ![d] = u]
  OBVIOUS
<1> HIDE DEF d
<1>3. /\ \A e \in Tables : r.pde[e] = IF e = d THEN u ELSE s.pde[e]
      /\ \A v \in VPNs : r.pte[v] = IF v = n THEN g ELSE s.pte[v]
  BY <1>1, <1>2 DEF SpaceType
<1>4. s.pte[n] = NoPage
  BY VmSizes DEF Within
<1>5. /\ g # NoPage /\ g \notin s.kvm
      /\ \A e \in Tables : s.pde[e] # g
      /\ \A v \in VPNs : s.pte[v] # g
  BY InPagesOf
<1>6. \/ s.pde[d] = u
      \/ /\ s.pde[d] = NoPage /\ u # NoPage /\ u \notin s.kvm /\ u # g
         /\ \A e \in Tables : s.pde[e] # u
         /\ \A v \in VPNs : s.pte[v] # u
  BY InPagesOf DEF d
<1>7. Apart(r)
  BY <1>1, <1>2, <1>3, <1>4, <1>5, <1>6 DEF Apart
<1>8. /\ Mapped(s, n) => Mapped(r, n + 1)
      /\ 0 < n => Within(r, n + 1) /\ (Whole(r) <=> Whole(s))
  <2>1. n \in Nat /\ 0 \in VPNs /\ \A v \in VPNs : v \in Nat
    BY VmSizes
  <2>2. Mapped(s, n) => Mapped(r, n + 1)
    BY <1>3, <1>5, <2>1 DEF Mapped
  <2>3. 0 < n => (Whole(r) <=> Whole(s))
    BY <1>3, <2>1 DEF Whole
  <2>4. 0 < n => Within(r, n + 1)
    BY <1>3, <1>5, <2>1, <2>3 DEF Within
  <2> QED
    BY <2>2, <2>3, <2>4
<1>9. ASSUME NEW x
      PROVE  x \in PagesOf(r) <=> x \in PagesOf(s) \/ x = g \/ x = u
  <2>1. x \in PagesOf(r) <=> \/ x \in s.kvm
                             \/ x # NoPage /\ \E e \in Tables : r.pde[e] = x
                             \/ x # NoPage /\ \E v \in VPNs : r.pte[v] = x
    BY <1>2, InPagesOf
  <2>2. x \in PagesOf(s) <=> \/ x \in s.kvm
                             \/ x # NoPage /\ \E e \in Tables : s.pde[e] = x
                             \/ x # NoPage /\ \E v \in VPNs : s.pte[v] = x
    BY InPagesOf
  <2>3. x # NoPage => ((\E v \in VPNs : r.pte[v] = x) <=> x = g \/ \E v \in VPNs : s.pte[v] = x)
    BY <1>3, <1>4
  <2>4. x # NoPage => ((\E e \in Tables : r.pde[e] = x) <=> x = u \/ \E e \in Tables : s.pde[e] = x)
    BY <1>1, <1>3, <1>6
  <2>5. g # NoPage /\ u # NoPage
    OBVIOUS
  <2> QED
    BY <2>1, <2>2, <2>3, <2>4, <2>5
<1>10. PagesOf(r) = PagesOf(s) \cup {g, u}
  BY <1>9
<1> QED
  BY <1>2, <1>3, <1>7, <1>8, <1>10

\* deallocuvm() down to m bytes.
LEMMA DeallocSpace ==
  ASSUME NEW s \in SpaceType, Apart(s), NEW n \in Nat, Within(s, n),
         NEW a \in Nat, NEW b \in Nat, PGROUNDUP(a) <= n, n <= PGROUNDUP(b)
  PROVE  LET r == Dealloc(s, a, b) IN
         /\ r \in SpaceType /\ Apart(r) /\ Within(r, PGROUNDUP(a)) /\ r.kvm = s.kvm
         /\ Released(s, a, b) \subseteq PagesOf(s)
         /\ PagesOf(r) = PagesOf(s) \ Released(s, a, b)
         /\ \A v \in VPNs : r.pte[v] = IF v < PGROUNDUP(a) THEN s.pte[v] ELSE NoPage
<1> DEFINE r == Dealloc(s, a, b)
           D == Dropped(a, b)
           f == [v \in VPNs |-> IF v \in D THEN NoPage ELSE s.pte[v]]
<1>1. r = [s EXCEPT !.pte = f, !.guard = s.guard \ D]
  BY DEF Dealloc
<1>2. D \subseteq VPNs /\ \A v \in VPNs : v \in D <=> PGROUNDUP(a) <= v /\ v < PGROUNDUP(b)
  BY RoundUp, VmSizes DEF Dropped
<1> HIDE DEF D
<1>3. f \in [VPNs -> Pages \cup {NoPage}] /\ s.guard \ D \in SUBSET Int
  BY DEF SpaceType
<1>4. r \in SpaceType /\ r.kvm = s.kvm /\ r.pde = s.pde /\ r.pte = f
  BY <1>1, <1>3 DEF SpaceType
<1>5. \A v \in VPNs : r.pte[v] = IF v \in D THEN NoPage ELSE s.pte[v]
  BY <1>4
<1> HIDE DEF r, f
<1>6. Apart(r)
  <2>1. NoPage \notin s.kvm
    BY DEF SpaceType
  <2> QED
    BY <1>4, <1>5, <2>1 DEF Apart
<1>7. Within(r, PGROUNDUP(a)) /\ \A v \in VPNs : r.pte[v] = IF v < PGROUNDUP(a) THEN s.pte[v] ELSE NoPage
  <2>1. PGROUNDUP(a) \in Nat /\ PGROUNDUP(b) \in Nat
    BY RoundUp
  <2>2. ASSUME NEW v \in VPNs PROVE r.pte[v] = IF v < PGROUNDUP(a) THEN s.pte[v] ELSE NoPage
    <3>1. v \in Nat /\ (s.pte[v] # NoPage => v < n)
      BY VmSizes DEF Within
    <3> QED
      BY <1>2, <1>5, <2>1, <3>1
  <2>3. Whole(r) => Whole(s)
    BY <2>2, VmSizes DEF Whole
  <2>4. ASSUME NEW v \in VPNs, v < PGROUNDUP(a) PROVE v < n
    BY <2>1, <2>4, VmSizes
  <2> QED
    BY <2>2, <2>3, <2>4 DEF Within
<1>8. ASSUME NEW g
      PROVE  g \in Released(s, a, b) <=> g # NoPage /\ \E v \in D : s.pte[v] = g
  BY DEF Released, D
<1>9. Released(s, a, b) \subseteq PagesOf(s)
  BY <1>2, <1>8, InPagesOf
<1>10. ASSUME NEW g
       PROVE  g \in PagesOf(r) <=> g \in PagesOf(s) /\ g \notin Released(s, a, b)
  <2>1. g \in PagesOf(r) => g \in PagesOf(s)
    BY <1>4, <1>5, InPagesOf
  <2>2. ASSUME g \in PagesOf(r), g \in Released(s, a, b) PROVE FALSE
    <3>1. PICK v \in D : s.pte[v] = g /\ g # NoPage
      BY <2>2, <1>8
    <3>2. g \notin s.kvm /\ \A d \in Tables : s.pde[d] # g
      BY <3>1, <1>2 DEF Apart
    <3>3. PICK w \in VPNs : r.pte[w] = g
      BY <3>1, <3>2, <2>2, <1>4, InPagesOf
    <3>4. w = v
      BY <3>1, <3>3, <1>2, <1>5 DEF Apart
    <3> QED
      BY <3>1, <3>3, <3>4, <1>5, <1>2
  <2>3. ASSUME g \in PagesOf(s), g \notin Released(s, a, b) PROVE g \in PagesOf(r)
    BY <2>3, <1>2, <1>4, <1>5, <1>8, InPagesOf
  <2> QED
    BY <2>1, <2>2, <2>3
<1>11. PagesOf(r) = PagesOf(s) \ Released(s, a, b)
  BY <1>10
<1> QED
  BY <1>4, <1>6, <1>7, <1>9, <1>11 DEF r

\* The entries without PTE_U do not matter.
LEMMA GuardSpace ==
  ASSUME NEW s \in SpaceType, NEW G \in SUBSET Int
  PROVE  LET r == [s EXCEPT !.guard = G] IN
         /\ r \in SpaceType /\ PagesOf(r) = PagesOf(s) /\ (Apart(s) => Apart(r))
         /\ r.kvm = s.kvm /\ \A n : Mapped(s, n) => Mapped(r, n)
<1> DEFINE r == [s EXCEPT !.guard = G]
<1>1. r \in SpaceType /\ r.kvm = s.kvm /\ r.pde = s.pde /\ r.pte = s.pte
  BY DEF SpaceType
<1> QED
  BY <1>1 DEF PagesOf, Apart, Mapped

-----------------------------------------------------------------------------
(* User memory: pages change hands.                                         *)

Holdings == [Procs -> SUBSET Pages]

LEMMA TakeHeld ==
  ASSUME NEW F \in SUBSET Pages, NEW D \in Holdings, NEW N \in Holdings, Divided(F, D, N),
         NEW p \in Procs, NEW k \in SUBSET F
  PROVE  /\ Divided(F \ k, [D EXCEPT ![p] = @ \cup k], N)
         /\ Divided(F \ k, D, [N EXCEPT ![p] = @ \cup k])
BY DEF Divided, Holdings

LEMMA GiveBack ==
  ASSUME NEW F \in SUBSET Pages, NEW D \in Holdings, NEW N \in Holdings, Divided(F, D, N),
         NEW p \in Procs, NEW k
  PROVE  /\ k \subseteq D[p] => Divided(F \cup k, [D EXCEPT ![p] = @ \ k], N)
         /\ k \subseteq N[p] => Divided(F \cup k, D, [N EXCEPT ![p] = @ \ k])
BY DEF Divided, Holdings

\* A page in hand goes into the page table of the process.
LEMMA PutIn ==
  ASSUME NEW F \in SUBSET Pages, NEW D \in Holdings, NEW N \in Holdings, Divided(F, D, N),
         NEW p \in Procs, NEW g \in N[p]
  PROVE  Divided(F, [D EXCEPT ![p] = @ \cup {g}], [N EXCEPT ![p] = @ \ {g}])
BY DEF Divided, Holdings

\* The page table p has made goes to c.
LEMMA HandOver ==
  ASSUME NEW F \in SUBSET Pages, NEW D \in Holdings, NEW N \in Holdings, Divided(F, D, N),
         NEW p \in Procs, NEW c \in Procs, D[c] = {}
  PROVE  Divided(F, [D EXCEPT ![c] = N[p]], [N EXCEPT ![p] = {}])
BY DEF Divided, Holdings

-----------------------------------------------------------------------------
(* User memory: steps.                                                      *)

LEMMA HoldingsType ==
  ASSUME VmType
  PROVE  /\ Held \in Holdings /\ Making \in Holdings
         /\ \A p \in Procs : Held[p] = PagesOf(pgdir[p]) /\ Making[p] = Made(new[p], job[p])
<1>1. ASSUME NEW p \in Procs PROVE PagesOf(pgdir[p]) \subseteq Pages /\ Made(new[p], job[p]) \subseteq Pages
  <2>1. PagesOf(pgdir[p]) \subseteq Pages /\ PagesOf(new[p]) \subseteq Pages
    BY PagesOfSubset DEF VmType
  <2>2. job[p].page \in Pages \cup {NoPage}
    BY DEF VmType, JobType
  <2> QED
    BY <2>1, <2>2 DEF Made
<1> QED
  BY <1>1 DEF Held, Making, Holdings

\* A call with no page in hand.
LEMMA NoneInHand ==
  /\ \A n, j : j.page = NoPage => Made(n, j) = PagesOf(n)
  /\ Nothing.page = NoPage /\ Made(NoSpace, Nothing) = {}
<1>1. \A n, j : j.page = NoPage => Made(n, j) = PagesOf(n)
  BY DEF Made
<1>2. Nothing.page = NoPage
  BY DEF Nothing
<1> QED
  BY <1>1, <1>2, NoSpaceEmpty

\* A step of a living process that changes what is its own.
LEMMA OwnStep ==
  ASSUME VmInv, NEW p \in Procs, pgdir[p] # NoSpace,
         NEW F \in SUBSET Pages, NEW d \in SpaceType, NEW n \in SpaceType,
         NEW z \in 0 .. KERNBASE, NEW j \in JobType,
         Apart(d), Apart(n), Progress(j, d, n, z), Calling(j, d, n, z),
         free' = F, pgdir' = [pgdir EXCEPT ![p] = d], new' = [new EXCEPT ![p] = n],
         sz' = [sz EXCEPT ![p] = z], job' = [job EXCEPT ![p] = j],
         Divided(F, [Held EXCEPT ![p] = PagesOf(d)], [Making EXCEPT ![p] = Made(n, j)]),
         j.call = "fork" =>
           /\ pgdir[j.child] = NoSpace
           /\ \A q \in Procs \ {p} : job[q].call = "fork" => job[q].child # j.child
  PROVE  VmInv'
<1> USE DEF VmInv
<1>1. VmType'
  BY DEF VmType
<1>2. TablesApart'
  BY DEF TablesApart, VmType
<1>3. Held' = [Held EXCEPT ![p] = PagesOf(d)] /\ Making' = [Making EXCEPT ![p] = Made(n, j)]
  BY DEF Held, Making, VmType
<1>4. PagesDivided'
  BY <1>3 DEF PagesDivided
<1>5. ASSUME NEW q \in Procs
      PROVE  /\ Progress(job'[q], pgdir'[q], new'[q], sz'[q])
             /\ Calling(job'[q], pgdir'[q], new'[q], sz'[q])
  <2>1. CASE q = p
    BY <2>1 DEF VmType
  <2>2. CASE q # p
    BY <2>2 DEF VmType
  <2> QED
    BY <2>1, <2>2
<1>6. ChildrenFree'
  <2>1. SUFFICES ASSUME NEW q \in Procs, job'[q].call = "fork"
                 PROVE  /\ pgdir'[job'[q].child] = NoSpace
                        /\ \A r \in Procs \ {q} : job'[r].call = "fork" => job'[r].child # job'[q].child
    BY DEF ChildrenFree
  <2>2. job'[q] = (IF q = p THEN j ELSE job[q]) /\ job'[q].child \in Procs
    BY DEF VmType, JobType
  <2>3. pgdir[job'[q].child] = NoSpace
    BY <2>1, <2>2 DEF ChildrenFree
  <2>4. job'[q].child # p
    BY <2>3
  <2>5. pgdir'[job'[q].child] = NoSpace
    BY <2>2, <2>3, <2>4 DEF VmType
  <2>6. ASSUME NEW r \in Procs \ {q}, job'[r].call = "fork" PROVE job'[r].child # job'[q].child
    <3>1. job'[r] = IF r = p THEN j ELSE job[r]
      BY DEF VmType
    <3> QED
      BY <2>1, <2>2, <2>6, <3>1 DEF ChildrenFree
  <2> QED
    BY <2>5, <2>6
<1> HIDE DEF VmInv
<1> QED
  BY <1>1, <1>2, <1>4, <1>5, <1>6 DEF VmInv

\* What the invariant says of one process.
LEMMA OneProcess ==
  ASSUME VmInv, NEW p \in Procs
  PROVE  /\ free \in SUBSET Pages /\ IsFiniteSet(free) /\ Cardinality(free) \in Nat
         /\ pgdir[p] \in SpaceType /\ new[p] \in SpaceType /\ sz[p] \in 0 .. KERNBASE /\ job[p] \in JobType
         /\ sz[p] \in Nat /\ job[p].at \in Nat /\ job[p].to \in Nat /\ job[p].child \in Procs
         /\ job[p].page \in Pages \cup {NoPage}
         /\ Apart(pgdir[p]) /\ Apart(new[p])
         /\ Held[p] = PagesOf(pgdir[p]) /\ Making[p] = Made(new[p], job[p])
         /\ PagesOf(pgdir[p]) \cap free = {} /\ PagesOf(new[p]) \cap free = {} /\ Made(new[p], job[p]) \cap free = {}
         /\ PagesOf(pgdir[p]) \cap Made(new[p], job[p]) = {}
         /\ Divided(free, Held, Making)
         /\ Progress(job[p], pgdir[p], new[p], sz[p]) /\ Calling(job[p], pgdir[p], new[p], sz[p])
         /\ pgdir = [pgdir EXCEPT ![p] = pgdir[p]] /\ new = [new EXCEPT ![p] = new[p]]
         /\ sz = [sz EXCEPT ![p] = sz[p]] /\ job = [job EXCEPT ![p] = job[p]]
         /\ Held = [Held EXCEPT ![p] = PagesOf(pgdir[p])] /\ Making = [Making EXCEPT ![p] = Made(new[p], job[p])]
         /\ Held \in Holdings /\ Making \in Holdings
<1>1. VmType /\ TablesApart /\ PagesDivided
  BY DEF VmInv
<1>2. /\ free \in SUBSET Pages /\ pgdir[p] \in SpaceType /\ new[p] \in SpaceType /\ sz[p] \in 0 .. KERNBASE
      /\ job[p] \in JobType
  BY <1>1 DEF VmType
<1>3. IsFiniteSet(free) /\ Cardinality(free) \in Nat
  BY <1>2, FS_Subset, FS_CardinalityType
<1>4. sz[p] \in Nat /\ job[p].at \in Nat /\ job[p].to \in Nat /\ job[p].child \in Procs
      /\ job[p].page \in Pages \cup {NoPage}
  BY <1>2, VmSizes DEF JobType
<1>5. Held \in Holdings /\ Making \in Holdings /\ Held[p] = PagesOf(pgdir[p]) /\ Making[p] = Made(new[p], job[p])
  BY <1>1, HoldingsType
<1>6. Divided(free, Held, Making)
  BY <1>1 DEF PagesDivided
<1>7. PagesOf(pgdir[p]) \cap free = {} /\ PagesOf(new[p]) \cap free = {} /\ Made(new[p], job[p]) \cap free = {}
      /\ PagesOf(pgdir[p]) \cap Made(new[p], job[p]) = {}
  <2>1. PagesOf(new[p]) \subseteq Made(new[p], job[p])
    BY DEF Made
  <2> QED
    BY <1>5, <1>6, <2>1 DEF Divided
<1>8. /\ Held = [Held EXCEPT ![p] = PagesOf(pgdir[p])] /\ Making = [Making EXCEPT ![p] = Made(new[p], job[p])]
  BY <1>5 DEF Holdings
<1>9. /\ pgdir = [pgdir EXCEPT ![p] = pgdir[p]] /\ new = [new EXCEPT ![p] = new[p]]
      /\ sz = [sz EXCEPT ![p] = sz[p]] /\ job = [job EXCEPT ![p] = job[p]]
  BY <1>1 DEF VmType
<1>10. Apart(pgdir[p]) /\ Apart(new[p])
  BY <1>1 DEF TablesApart
<1>11. Progress(job[p], pgdir[p], new[p], sz[p]) /\ Calling(job[p], pgdir[p], new[p], sz[p])
  BY DEF VmInv
<1> QED
  BY <1>2, <1>3, <1>4, <1>5, <1>6, <1>7, <1>8, <1>9, <1>10, <1>11

\* A call under way, and who may begin one.
LEMMA Callers ==
  ASSUME VmInv, NEW p \in Procs
  PROVE  /\ job[p].call # "none" => pgdir[p] # NoSpace
         /\ Ready(p) => pgdir[p] # NoSpace /\ job[p] = Nothing /\ new[p] = NoSpace
         /\ Ready(p) => Made(new[p], job[p]) = {}
         /\ Nothing \in JobType /\ Nothing.call = "none"
<1>1. Nothing \in JobType /\ Nothing.call = "none"
  BY DEF Nothing, JobType
<1>2. Calling(job[p], pgdir[p], new[p], sz[p])
  BY OneProcess
<1> QED
  BY <1>1, <1>2, NoneInHand DEF Calling, Ready, Lives

LEMMA KallocTakes ==
  ASSUME NEW S, S # {}
  PROVE  Kalloc(S) \in S
BY DEF Kalloc

\* There are as many pages as setupkvm() asks for.
LEMMA SubsetOfSize ==
  ASSUME NEW S, IsFiniteSet(S), NEW n \in Nat, n <= Cardinality(S)
  PROVE  \E x \in SUBSET S : Cardinality(x) = n
<1> DEFINE m == Cardinality(S)
<1>1. m \in Nat /\ ExistsBijection(1 .. m, S)
  BY FS_CardinalityType
<1>2. PICK f \in Bijection(1 .. m, S) : TRUE
  BY <1>1 DEF ExistsBijection
<1> HIDE DEF m
<1> DEFINE x == {f[i] : i \in 1 .. n}
           h == [i \in 1 .. n |-> f[i]]
<1>3. f \in [1 .. m -> S] /\ \A i, k \in 1 .. m : f[i] = f[k] => i = k
  BY <1>2 DEF Bijection, Injection, IsInjective
<1>4. n <= m /\ 1 .. n \subseteq 1 .. m
  BY <1>1 DEF m
<1>5. x \subseteq S
  BY <1>3, <1>4
<1>6. h \in Bijection(1 .. n, x)
  <2>1. h \in [1 .. n -> x]
    OBVIOUS
  <2>2. \A i, k \in 1 .. n : h[i] = h[k] => i = k
    BY <1>3, <1>4
  <2>3. \A y \in x : \E i \in 1 .. n : h[i] = y
    OBVIOUS
  <2> QED
    BY <2>1, <2>2, <2>3 DEF Bijection, Injection, Surjection, IsInjective
<1>7. Cardinality(x) = n
  BY <1>6, FS_CountingElements DEF ExistsBijection
<1> QED
  BY <1>5, <1>7

\* A call that extends a page table goes on at the first page it does not have.
LEMMA ExtendingFacts ==
  ASSUME VmInv, NEW p \in Procs, Extending(p) \/ job[p].page # NoPage
  PROVE  /\ job[p].call \in {"sbrk", "fork", "exec", "stack"}
         /\ job[p].at \in VPNs /\ job[p].at + 1 <= PGROUNDUP(job[p].to)
         /\ job[p].to \in 0 .. KERNBASE
         /\ Extended(p) \in SpaceType /\ Apart(Extended(p)) /\ Within(Extended(p), job[p].at)
         /\ IF job[p].call = "sbrk" THEN 0 < job[p].at ELSE Mapped(Extended(p), job[p].at)
         /\ PagesOf(Extended(p)) \cap free = {} /\ pgdir[p] # NoSpace
<1> DEFINE j == job[p]
           s == Extended(p)
<1>1. /\ j \in JobType /\ j.at \in Nat /\ j.to \in Nat /\ pgdir[p] \in SpaceType /\ new[p] \in SpaceType
      /\ Apart(pgdir[p]) /\ Apart(new[p]) /\ sz[p] \in Nat
      /\ PagesOf(pgdir[p]) \cap free = {} /\ PagesOf(new[p]) \cap free = {}
      /\ Progress(j, pgdir[p], new[p], sz[p]) /\ Calling(j, pgdir[p], new[p], sz[p])
  BY OneProcess
<1>2. j.call \in {"sbrk", "fork", "exec", "stack"} /\ (j.at * PGSIZE < j.to \/ j.page # NoPage)
  BY <1>1 DEF Extending, Progress
<1>3. pgdir[p] # NoSpace
  BY <1>2, Callers
<1> HIDE DEF j
<1>4. s = IF j.call = "sbrk" THEN pgdir[p] ELSE new[p]
  BY DEF Extended, j
<1>5. j.to <= KERNBASE
  BY <1>1, <1>2 DEF Progress
<1>6. j.to \in 0 .. KERNBASE
  BY <1>1, <1>5, VmSizes
<1>7. PGROUNDUP(j.to) \in 0 .. NPD * NPT /\ j.at < PGROUNDUP(j.to)
  <2>1. j.page # NoPage => j.at < PGROUNDUP(j.to)
    BY <1>1 DEF Progress
  <2> QED
    BY <1>1, <1>2, <1>6, <2>1, RoundUp, RoundUpBound
<1>8. j.at \in VPNs /\ j.at + 1 <= PGROUNDUP(j.to)
  BY <1>1, <1>7, VmSizes DEF VPNs
<1>9. Within(s, j.at) /\ IF j.call = "sbrk" THEN 0 < j.at ELSE Mapped(s, j.at)
  <2>1. CASE j.call = "sbrk"
    <3>1. j.at \in PGROUNDUP(sz[p]) .. PGROUNDUP(j.to) /\ Within(pgdir[p], j.at) /\ 0 < sz[p]
      BY <1>1, <1>3, <2>1 DEF Progress, Calling
    <3>2. PGROUNDUP(sz[p]) \in Nat /\ (0 * PGSIZE < sz[p] <=> 0 < PGROUNDUP(sz[p]))
      BY <1>1, RoundUp
    <3>3. 0 * PGSIZE = 0
      OBVIOUS
    <3> QED
      BY <1>1, <1>4, <1>7, <2>1, <3>1, <3>2, <3>3
  <2>2. CASE j.call # "sbrk"
    <3>1. Mapped(s, j.at)
      BY <1>1, <1>2, <1>4, <2>2 DEF Progress
    <3> QED
      BY <1>1, <2>2, <3>1, WithinMapped
  <2> QED
    BY <2>1, <2>2
<1> QED
  BY <1>1, <1>2, <1>3, <1>4, <1>6, <1>8, <1>9 DEF j

\* A kalloc() of setupkvm().
LEMMA SetupStep ==
  ASSUME VmInv, NEW p \in Procs, Setupkvm(p)
  PROVE  VmInv'
<1> DEFINE j == job[p]
           g == Kalloc(free)
           n == [new[p] EXCEPT !.kvm = @ \cup {g}]
<1>1. /\ j.call \in {"fork", "exec"} /\ free # {} /\ free' = free \ {g}
      /\ new' = [new EXCEPT ![p] = n] /\ pgdir' = pgdir /\ sz' = sz /\ job' = job
  BY DEF Setupkvm, Setting
<1>2. g \in free
  BY <1>1, KallocTakes
<1> HIDE DEF g, j
<1>3. /\ free \in SUBSET Pages /\ new[p] \in SpaceType /\ Apart(new[p]) /\ pgdir[p] \in SpaceType
      /\ Apart(pgdir[p]) /\ sz[p] \in 0 .. KERNBASE /\ j \in JobType
      /\ PagesOf(new[p]) \cap free = {} /\ Made(new[p], j) \cap free = {}
      /\ Progress(j, pgdir[p], new[p], sz[p]) /\ Calling(j, pgdir[p], new[p], sz[p])
  BY OneProcess DEF j
<1>4. g \in Pages /\ g \notin PagesOf(new[p]) /\ g \notin Made(new[p], j)
  BY <1>2, <1>3
<1>5. /\ n \in SpaceType /\ Apart(n) /\ PagesOf(n) = PagesOf(new[p]) \cup {g}
      /\ \A m : Mapped(new[p], m) => Mapped(n, m)
  BY <1>3, <1>4, KernelPage
<1> HIDE DEF n
<1>6. Progress(j, pgdir[p], n, sz[p])
  <2>1. j.page # NoPage => j.page \notin PagesOf(n)
    BY <1>3, <1>4, <1>5 DEF Progress, Made
  <2> QED
    BY <1>1, <1>3, <1>5, <2>1 DEF Progress
<1>7. Calling(j, pgdir[p], n, sz[p]) /\ pgdir[p] # NoSpace
  <2>1. pgdir[p] # NoSpace
    BY <1>1, Callers DEF j
  <2> QED
    BY <1>1, <1>3, <2>1 DEF Calling
<1>8. Divided(free \ {g}, [Held EXCEPT ![p] = PagesOf(pgdir[p])], [Making EXCEPT ![p] = Made(n, j)])
  <2>1. Divided(free \ {g}, Held, [Making EXCEPT ![p] = @ \cup {g}])
    <3>1. {g} \in SUBSET free
      BY <1>2
    <3> QED
      BY <1>3, <3>1, OneProcess, TakeHeld
  <2>2. Making[p] \cup {g} = Made(n, j)
    <3>1. Making[p] = Made(new[p], j)
      BY OneProcess DEF j
    <3> QED
      BY <3>1, <1>5 DEF Made
  <2> QED
    BY <2>1, <2>2, OneProcess
<1>9. /\ pgdir' = [pgdir EXCEPT ![p] = pgdir[p]] /\ sz' = [sz EXCEPT ![p] = sz[p]]
      /\ job' = [job EXCEPT ![p] = j] /\ free \ {g} \in SUBSET Pages
  BY <1>1, <1>3, OneProcess DEF j
<1>10. j.call = "fork" => /\ pgdir[j.child] = NoSpace
                          /\ \A q \in Procs \ {p} : job[q].call = "fork" => job[q].child # j.child
  BY DEF VmInv, ChildrenFree, j
<1>11. free' = free \ {g} /\ new' = [new EXCEPT ![p] = n]
  BY <1>1
<1> QED
  BY <1>3, <1>5, <1>6, <1>7, <1>8, <1>9, <1>10, <1>11, OwnStep

\* kalloc() in allocuvm() and copyuvm().
LEMMA TakePageStep ==
  ASSUME VmInv, NEW p \in Procs, TakePage(p)
  PROVE  VmInv'
<1> DEFINE j == job[p]
           g == Kalloc(free)
           i == [j EXCEPT !.page = g]
<1>1. /\ Extending(p) /\ j.page = NoPage /\ Copyable(p) /\ free # {} /\ free' = free \ {g}
      /\ job' = [job EXCEPT ![p] = i] /\ pgdir' = pgdir /\ sz' = sz /\ new' = new
  BY DEF TakePage, NeedsPage
<1>2. g \in free
  BY <1>1, KallocTakes
<1>3. /\ free \in SUBSET Pages /\ new[p] \in SpaceType /\ Apart(new[p]) /\ pgdir[p] \in SpaceType
      /\ Apart(pgdir[p]) /\ sz[p] \in 0 .. KERNBASE /\ j \in JobType /\ j.at \in Nat
      /\ PagesOf(new[p]) \cap free = {}
      /\ Progress(j, pgdir[p], new[p], sz[p]) /\ Calling(j, pgdir[p], new[p], sz[p])
      /\ Making[p] = Made(new[p], j)
  BY OneProcess
<1>4. /\ j.call \in {"sbrk", "fork", "exec", "stack"} /\ j.at \in VPNs /\ j.at + 1 <= PGROUNDUP(j.to)
      /\ j.to \in 0 .. KERNBASE /\ pgdir[p] # NoSpace
  BY <1>1, ExtendingFacts
<1>5. j.call = "fork" => Whole(pgdir[p])
  <2>1. ASSUME j.call = "fork" PROVE pgdir[p].pte[j.at] # NoPage /\ (0 < j.at => Whole(pgdir[p]))
    BY <1>1, <1>3, <2>1 DEF Copyable, Progress
  <2> QED
    BY <1>3, <2>1 DEF Whole
<1>6. g \in Pages /\ g # NoPage /\ g \notin PagesOf(new[p])
  BY <1>2, <1>3
<1> HIDE DEF g
<1>7. /\ i \in JobType /\ i.call = j.call /\ i.at = j.at /\ i.to = j.to /\ i.prog = j.prog
      /\ i.child = j.child /\ i.page = g
  BY <1>3, <1>6 DEF JobType
<1> HIDE DEF i, j
<1>8. Progress(i, pgdir[p], new[p], sz[p])
  <2>1. j.at < PGROUNDUP(j.to)
    <3>1. PGROUNDUP(j.to) \in Nat
      BY <1>4, VmSizes, RoundUp
    <3> QED
      BY <1>3, <1>4, <3>1
  <2> QED
    BY <1>3, <1>4, <1>5, <1>6, <1>7, <2>1 DEF Progress
<1>9. Calling(i, pgdir[p], new[p], sz[p])
  BY <1>3, <1>4, <1>7 DEF Calling
<1>10. Divided(free \ {g}, [Held EXCEPT ![p] = PagesOf(pgdir[p])], [Making EXCEPT ![p] = Made(new[p], i)])
  <2>1. Divided(free \ {g}, Held, [Making EXCEPT ![p] = @ \cup {g}])
    <3>1. {g} \in SUBSET free
      BY <1>2
    <3> QED
      BY <1>3, <3>1, OneProcess, TakeHeld
  <2>2. Making[p] \cup {g} = Made(new[p], i)
    BY <1>1, <1>3, <1>6, <1>7 DEF Made, j
  <2> QED
    BY <2>1, <2>2, OneProcess
<1>11. /\ pgdir' = [pgdir EXCEPT ![p] = pgdir[p]] /\ sz' = [sz EXCEPT ![p] = sz[p]]
       /\ new' = [new EXCEPT ![p] = new[p]] /\ free \ {g} \in SUBSET Pages
  BY <1>1, <1>3, OneProcess
<1>12. i.call = "fork" => /\ pgdir[i.child] = NoSpace
                          /\ \A q \in Procs \ {p} : job[q].call = "fork" => job[q].child # i.child
  BY <1>7 DEF VmInv, ChildrenFree, j
<1> QED
  BY <1>1, <1>3, <1>4, <1>7, <1>8, <1>9, <1>10, <1>11, <1>12, OwnStep

\* What mappages() does to the page table a call extends.
LEMMA MapPageSpace ==
  ASSUME VmInv, NEW p \in Procs, MapPage(p), NEW j, j = job[p], NEW s, s = Extended(p)
  PROVE  \E r \in SpaceType, k \in SUBSET free :
           /\ SetExtended(p, r) /\ free' = free \ k
           /\ j.page \in Pages /\ j.page \notin PagesOf(s) /\ j.page \notin free
           /\ Apart(r) /\ r.kvm = s.kvm /\ PagesOf(r) = PagesOf(s) \cup {j.page} \cup k
           /\ r.pte = [s.pte EXCEPT ![j.at] = j.page]
           /\ IF j.call = "sbrk" THEN Within(r, j.at + 1) ELSE Mapped(r, j.at + 1)
<1> DEFINE v == j.at
           g == j.page
           t == Kalloc(free)
           u == IF NeedsTable(p) THEN t ELSE s.pde[PDX(v)]
           k == {u} \cap free
           G == IF j.call = "fork" /\ v \in pgdir[p].guard THEN s.guard \cup {v} ELSE s.guard
           r == [s EXCEPT !.pte[v] = g, !.pde[PDX(v)] = u, !.guard = G]
<1>1. /\ g # NoPage /\ (NeedsTable(p) => free # {})
      /\ free' = (IF NeedsTable(p) THEN free \ {t} ELSE free)
      /\ SetExtended(p, r)
  BY DEF MapPage
<1>2. /\ v \in VPNs /\ s \in SpaceType /\ Apart(s) /\ Within(s, v) /\ PagesOf(s) \cap free = {}
      /\ IF j.call = "sbrk" THEN 0 < v ELSE Mapped(s, v)
  BY <1>1, ExtendingFacts
<1>3. NeedsTable(p) <=> s.pde[PDX(v)] = NoPage
  BY <1>1 DEF NeedsTable
<1>4. NeedsTable(p) => t \in free
  BY <1>1, KallocTakes
<1>5. /\ free \in SUBSET Pages /\ g \in Pages /\ v \in Nat /\ g \notin free /\ g \notin PagesOf(s)
  <2>1. /\ free \in SUBSET Pages /\ g \in Pages \cup {NoPage} /\ v \in Nat
        /\ Made(new[p], j) \cap free = {} /\ PagesOf(pgdir[p]) \cap Made(new[p], j) = {}
        /\ Progress(j, pgdir[p], new[p], sz[p])
    BY OneProcess
  <2>2. g \in Made(new[p], j) /\ g \notin PagesOf(new[p])
    BY <1>1, <2>1 DEF Made, Progress
  <2> QED
    BY <1>1, <2>1, <2>2 DEF Extended
<1> HIDE DEF v, g, t
<1>6. G \in SUBSET Int
  <2>1. s.guard \in SUBSET Int
    BY <1>2 DEF SpaceType
  <2> QED
    BY <2>1, <1>5
<1>7. /\ PDX(v) \in Tables /\ u \in Pages
      /\ \/ s.pde[PDX(v)] = u /\ u \in PagesOf(s) /\ free' = free
         \/ s.pde[PDX(v)] = NoPage /\ u \in free /\ free' = free \ {u}
  <2>1. PDX(v) \in Tables
    BY <1>2, TableOf
  <2>2. s.pde[PDX(v)] \in Pages \cup {NoPage}
    BY <1>2, <2>1 DEF SpaceType
  <2>3. s.pde[PDX(v)] # NoPage => s.pde[PDX(v)] \in PagesOf(s)
    BY <1>2, <2>1, InPagesOf
  <2> QED
    BY <1>1, <1>3, <1>4, <1>5, <2>1, <2>2, <2>3
<1> HIDE DEF u, G
<1>8. k \in SUBSET free /\ free' = free \ k
  BY <1>2, <1>7
<1>9. /\ r \in SpaceType /\ r.kvm = s.kvm
      /\ r.pte = [s.pte EXCEPT ![v] = g] /\ r.pde = [s.pde EXCEPT ![PDX(v)] = u]
  BY <1>2, <1>5, <1>6, <1>7 DEF SpaceType
<1> HIDE DEF r
<1>10. \/ s.pde[PDX(v)] = u
       \/ s.pde[PDX(v)] = NoPage /\ u \notin PagesOf(s) /\ u # g
  BY <1>2, <1>5, <1>7
<1>11. /\ Apart(r) /\ PagesOf(r) = PagesOf(s) \cup {g, u}
       /\ (Mapped(s, v) => Mapped(r, v + 1)) /\ (0 < v => Within(r, v + 1))
  BY <1>2, <1>5, <1>7, <1>9, <1>10, ExtendSpace
<1>12. PagesOf(s) \cup {g, u} = PagesOf(s) \cup {g} \cup k
  BY <1>7
<1>13. IF j.call = "sbrk" THEN Within(r, v + 1) ELSE Mapped(r, v + 1)
  BY <1>2, <1>11
<1> HIDE DEF k
<1>14. PagesOf(r) = PagesOf(s) \cup {g} \cup k
  BY <1>11, <1>12
<1> QED
  BY <1>1, <1>5, <1>8, <1>9, <1>11, <1>13, <1>14 DEF v, g

LEMMA MapPageStep ==
  ASSUME VmInv, NEW p \in Procs, MapPage(p)
  PROVE  VmInv'
<1> DEFINE j == job[p]
           s == Extended(p)
           i == [j EXCEPT !.at = @ + 1, !.page = NoPage]
<1>1. j.page # NoPage /\ job' = [job EXCEPT ![p] = i] /\ sz' = sz
  BY DEF MapPage
<1>2. PICK r \in SpaceType, k \in SUBSET free :
        /\ SetExtended(p, r) /\ free' = free \ k
        /\ j.page \in Pages /\ j.page \notin PagesOf(s) /\ j.page \notin free
        /\ Apart(r) /\ r.kvm = s.kvm /\ PagesOf(r) = PagesOf(s) \cup {j.page} \cup k
        /\ r.pte = [s.pte EXCEPT ![j.at] = j.page]
        /\ IF j.call = "sbrk" THEN Within(r, j.at + 1) ELSE Mapped(r, j.at + 1)
  BY MapPageSpace
<1>3. /\ j.call \in {"sbrk", "fork", "exec", "stack"} /\ j.at \in VPNs /\ j.at + 1 <= PGROUNDUP(j.to)
      /\ j.to \in 0 .. KERNBASE /\ pgdir[p] # NoSpace /\ s \in SpaceType
  BY <1>1, ExtendingFacts
<1>4. /\ free \in SUBSET Pages /\ new[p] \in SpaceType /\ Apart(new[p]) /\ pgdir[p] \in SpaceType
      /\ Apart(pgdir[p]) /\ sz[p] \in 0 .. KERNBASE /\ sz[p] \in Nat /\ j \in JobType /\ j.at \in Nat
      /\ Progress(j, pgdir[p], new[p], sz[p]) /\ Calling(j, pgdir[p], new[p], sz[p])
      /\ Making[p] = Made(new[p], j) /\ Held[p] = PagesOf(pgdir[p])
      /\ Held \in Holdings /\ Making \in Holdings /\ Divided(free, Held, Making)
  BY OneProcess
<1>5. /\ i \in JobType /\ i.call = j.call /\ i.to = j.to /\ i.prog = j.prog /\ i.child = j.child
      /\ i.at = j.at + 1 /\ i.page = NoPage
  <2> DEFINE m == [j EXCEPT !.at = @ + 1]
  <2>1. j \in JobType /\ j.at + 1 \in Nat
    BY <1>4
  <2>2. /\ m \in JobType /\ m.call = j.call /\ m.to = j.to /\ m.prog = j.prog /\ m.child = j.child
        /\ m.at = j.at + 1
    BY <2>1 DEF JobType
  <2>3. i = [m EXCEPT !.page = NoPage]
    BY <2>1 DEF JobType
  <2> HIDE DEF m, i
  <2> QED
    BY <2>2, <2>3 DEF JobType
<1>6. free \ k \in SUBSET Pages /\ sz' = [sz EXCEPT ![p] = sz[p]]
  BY <1>1, <1>4, OneProcess
<1>7. s = IF j.call = "sbrk" THEN pgdir[p] ELSE new[p]
  BY DEF Extended
<1>8. \A n : Made(n, i) = PagesOf(n)
  BY <1>5, NoneInHand
<1> HIDE DEF i, j, s
<1>9. CASE j.call = "sbrk"
  <2>1. pgdir' = [pgdir EXCEPT ![p] = r] /\ new' = new /\ new' = [new EXCEPT ![p] = new[p]]
    BY <1>2, <1>9, OneProcess DEF SetExtended, j
  <2>2. Divided(free \ k, [Held EXCEPT ![p] = PagesOf(r)], [Making EXCEPT ![p] = Made(new[p], i)])
    <3> DEFINE D == [Held EXCEPT ![p] = @ \cup {j.page}]
               N == [Making EXCEPT ![p] = @ \ {j.page}]
    <3>1. j.page \in Making[p]
      BY <1>1, <1>4 DEF Made, j
    <3>2. Divided(free, D, N)
      BY <1>4, <3>1, PutIn
    <3>3. D \in Holdings /\ N \in Holdings /\ D[p] = PagesOf(pgdir[p]) \cup {j.page}
      BY <1>2, <1>4 DEF Holdings
    <3>4. new[p] = NoSpace
      BY <1>4, <1>9 DEF Calling
    <3>5. N = [Making EXCEPT ![p] = Made(new[p], i)]
      <4>1. Making[p] \ {j.page} = Made(new[p], i)
        BY <1>4, <1>8, <3>4, NoSpaceEmpty DEF Made
      <4> QED
        BY <4>1
    <3> HIDE DEF D, N
    <3>6. Divided(free \ k, [D EXCEPT ![p] = @ \cup k], N)
      BY <1>4, <3>2, <3>3, TakeHeld
    <3>7. [D EXCEPT ![p] = @ \cup k] = [Held EXCEPT ![p] = PagesOf(r)]
      <4>1. D[p] \cup k = PagesOf(r)
        BY <1>2, <1>7, <1>9, <3>3
      <4>2. [D EXCEPT ![p] = PagesOf(r)] = [Held EXCEPT ![p] = PagesOf(r)]
        BY <1>4 DEF D, Holdings
      <4> QED
        BY <4>1, <4>2
    <3> QED
      BY <3>5, <3>6, <3>7
  <2>3. Progress(i, r, new[p], sz[p])
    <3>1. PGROUNDUP(sz[p]) \in Nat /\ PGROUNDUP(j.to) \in Nat /\ j.to \in Nat
      BY <1>3, <1>4, RoundUp, VmSizes
    <3>2. /\ sz[p] < j.to /\ j.to <= KERNBASE /\ j.at \in PGROUNDUP(sz[p]) .. PGROUNDUP(j.to)
          /\ \A v \in VPNs : PGROUNDUP(sz[p]) <= v /\ v < j.at => pgdir[p].pte[v] # NoPage
      BY <1>4, <1>9 DEF Progress
    <3>3. j.at + 1 \in PGROUNDUP(sz[p]) .. PGROUNDUP(j.to)
      BY <1>3, <1>4, <3>1, <3>2
    <3>4. ASSUME NEW v \in VPNs, PGROUNDUP(sz[p]) <= v, v < j.at + 1 PROVE r.pte[v] # NoPage
      <4>1. v \in Nat /\ (v < j.at \/ v = j.at)
        <5>1. v \in Nat
          BY VmSizes
        <5> QED
          BY <1>4, <3>4, <5>1
      <4>2. r.pte[v] = IF v = j.at THEN j.page ELSE pgdir[p].pte[v]
        BY <1>2, <1>3, <1>4, <1>7, <1>9 DEF SpaceType
      <4> QED
        BY <1>2, <3>2, <3>4, <4>1, <4>2
    <3> QED
      BY <1>2, <1>5, <1>9, <3>2, <3>3, <3>4 DEF Progress
  <2>4. Calling(i, r, new[p], sz[p])
    <3>1. r # NoSpace /\ r.kvm # {}
      BY <1>2, <1>3, <1>4, <1>7, <1>9, NoSpaceEmpty DEF Calling
    <3> QED
      BY <3>1, <1>3, <1>4, <1>5, <1>9 DEF Calling
  <2>5. i.call # "fork"
    BY <1>5, <1>9
  <2> QED
    BY <1>1, <1>2, <1>3, <1>4, <1>5, <1>6, <2>1, <2>2, <2>3, <2>4, <2>5, OwnStep
<1>10. CASE j.call # "sbrk"
  <2>1. new' = [new EXCEPT ![p] = r] /\ pgdir' = pgdir /\ pgdir' = [pgdir EXCEPT ![p] = pgdir[p]]
    BY <1>2, <1>10, OneProcess DEF SetExtended, j
  <2>2. Divided(free \ k, [Held EXCEPT ![p] = PagesOf(pgdir[p])], [Making EXCEPT ![p] = Made(r, i)])
    <3>1. Divided(free \ k, Held, [Making EXCEPT ![p] = @ \cup k])
      BY <1>4, TakeHeld
    <3>2. Making[p] \cup k = Made(r, i)
      BY <1>2, <1>4, <1>7, <1>8, <1>10 DEF Made
    <3> QED
      BY <3>1, <3>2, OneProcess
  <2>3. Progress(i, pgdir[p], r, sz[p])
    <3>1. j.call = "stack" => ProgPages(j.prog) \in Nat
      BY <1>4, RoundUp, FS_CardinalityType, ProgramsAssumption DEF ProgPages, Progress
    <3>2. j.call = "stack" => ProgPages(j.prog) <= j.at + 1
      BY <1>4, <3>1 DEF Progress
    <3>3. j.to <= KERNBASE
      BY <1>3, VmSizes
    <3>4. j.call = "fork" => Whole(pgdir[p])
      BY <1>1, <1>4 DEF Progress, j
    <3> QED
      BY <1>2, <1>3, <1>4, <1>5, <1>10, <3>2, <3>3, <3>4 DEF Progress
  <2>4. Calling(i, pgdir[p], r, sz[p])
    BY <1>2, <1>3, <1>4, <1>5, <1>7, <1>10 DEF Calling
  <2>5. i.call = "fork" =>
           /\ pgdir[i.child] = NoSpace
           /\ \A q \in Procs \ {p} : job[q].call = "fork" => job[q].child # i.child
    BY <1>5 DEF VmInv, ChildrenFree, j
  <2> QED
    BY <1>1, <1>2, <1>3, <1>4, <1>5, <1>6, <2>1, <2>2, <2>3, <2>4, <2>5, OwnStep
<1> QED
  BY <1>9, <1>10

\* Nothing is under way.
LEMMA AtRest ==
  ASSUME VmInv, NEW d \in SpaceType, NEW z \in 0 .. KERNBASE, Within(d, PGROUNDUP(z))
  PROVE  /\ Progress(Nothing, d, NoSpace, z)
         /\ d.kvm # {} /\ 0 < z => Calling(Nothing, d, NoSpace, z)
<1>1. Nothing.call = "none" /\ Nothing.page = NoPage
  BY DEF Nothing
<1> QED
  BY <1>1, NoSpaceEmpty DEF Progress, Calling

\* A living process has memory, and with it a first page number.
LEMMA Sized ==
  ASSUME VmInv, NEW p \in Procs, pgdir[p] # NoSpace
  PROVE  0 < sz[p] /\ 0 < PGROUNDUP(sz[p]) /\ PGROUNDUP(sz[p]) \in 0 .. NPD * NPT /\ pgdir[p].kvm # {}
<1>1. 0 < sz[p] /\ sz[p] \in Nat /\ sz[p] \in 0 .. KERNBASE /\ pgdir[p].kvm # {}
  BY OneProcess DEF Calling
<1>2. 0 * PGSIZE = 0
  OBVIOUS
<1>3. 0 < PGROUNDUP(sz[p])
  BY <1>1, <1>2, RoundUp
<1> QED
  BY <1>1, <1>3, RoundUpBound

\* deallocuvm() and the error path of allocuvm().
LEMMA ShrinkTo ==
  ASSUME VmInv, NEW p \in Procs, pgdir[p] # NoSpace, job[p].call \in {"none", "sbrk"},
         NEW z \in 0 .. KERNBASE, 0 < z, NEW a \in {0, z}, NEW b \in Nat, NEW m \in Nat,
         Within(pgdir[p], m), PGROUNDUP(a) <= m, m <= PGROUNDUP(b),
         free' = free \cup (Released(pgdir[p], a, b) \cup InHand(p)),
         pgdir' = [pgdir EXCEPT ![p] = Dealloc(@, a, b)], new' = new,
         sz' = [sz EXCEPT ![p] = z], job' = [job EXCEPT ![p] = Nothing]
  PROVE  VmInv'
<1> DEFINE d == Dealloc(pgdir[p], a, b)
           k == Released(pgdir[p], a, b)
           h == InHand(p)
<1>1. z \in Nat /\ a \in Nat /\ pgdir[p] \in SpaceType /\ Apart(pgdir[p]) /\ free \in SUBSET Pages
  BY OneProcess, VmSizes
<1>2. /\ d \in SpaceType /\ Apart(d) /\ Within(d, PGROUNDUP(a)) /\ d.kvm = pgdir[p].kvm
      /\ k \subseteq PagesOf(pgdir[p]) /\ PagesOf(d) = PagesOf(pgdir[p]) \ k
  BY <1>1, DeallocSpace
<1> HIDE DEF d, k
<1>3. Within(d, PGROUNDUP(z))
  <2>1. 0 * PGSIZE = 0
    OBVIOUS
  <2>2. PGROUNDUP(0) = 0 /\ PGROUNDUP(z) \in Nat
    BY <1>1, <2>1, RoundUpWhole, RoundUp
  <2> QED
    BY <1>2, <2>2, WithinMapped
<1>4. new[p] = NoSpace /\ d.kvm # {} /\ new' = [new EXCEPT ![p] = NoSpace]
  BY <1>2, OneProcess DEF Calling
<1>5. Making[p] = h /\ h \subseteq Pages
  <2>1. Making[p] = Made(NoSpace, job[p]) /\ job[p].page \in Pages \cup {NoPage}
    BY <1>4, OneProcess
  <2>2. PagesOf(NoSpace) = {}
    BY NoSpaceEmpty
  <2> QED
    BY <2>1, <2>2 DEF Made, InHand
<1> HIDE DEF h
<1>6. Divided(free \cup k \cup h, [Held EXCEPT ![p] = PagesOf(d)], [Making EXCEPT ![p] = Made(NoSpace, Nothing)])
  <2> DEFINE D == [Held EXCEPT ![p] = @ \ k]
  <2>1. /\ Held \in Holdings /\ Making \in Holdings
        /\ Divided(free, Held, Making) /\ Held[p] = PagesOf(pgdir[p])
    BY OneProcess
  <2>2. Divided(free \cup k, D, Making)
    <3>1. k \subseteq Held[p]
      BY <1>2, <2>1
    <3> QED
      BY <1>1, <2>1, <3>1, GiveBack
  <2>3. D \in Holdings /\ D = [Held EXCEPT ![p] = PagesOf(d)] /\ free \cup k \in SUBSET Pages
    BY <1>1, <1>2, <2>1, PagesOfSubset DEF Holdings
  <2> HIDE DEF D
  <2>4. Divided(free \cup k \cup h, D, [Making EXCEPT ![p] = @ \ h])
    BY <1>5, <2>1, <2>2, <2>3, GiveBack
  <2>5. Making[p] \ h = Made(NoSpace, Nothing)
    BY <1>5, NoneInHand
  <2> QED
    BY <2>3, <2>4, <2>5
<1>7. Progress(Nothing, d, NoSpace, z) /\ Calling(Nothing, d, NoSpace, z)
  BY <1>2, <1>3, <1>4, AtRest
<1>8. free \cup k \cup h \in SUBSET Pages
  BY <1>1, <1>2, <1>5, PagesOfSubset
<1>9. pgdir' = [pgdir EXCEPT ![p] = d] /\ free' = free \cup k \cup h
  BY DEF d, k, h
<1>10. Nothing \in JobType /\ Nothing.call # "fork"
  BY Callers
<1> QED
  BY <1>2, <1>4, <1>6, <1>7, <1>8, <1>9, <1>10, NoSpaceEmpty, OwnStep

\* freevm() of a page table that was being made.
LEMMA DropNew ==
  ASSUME VmInv, NEW p \in Procs, job[p].call \in {"fork", "exec", "stack", "bad"},
         free' = free \cup (PagesOf(new[p]) \cup InHand(p)), new' = [new EXCEPT ![p] = NoSpace],
         pgdir' = pgdir, sz' = sz, job' = [job EXCEPT ![p] = Nothing]
  PROVE  VmInv'
<1> DEFINE d == pgdir[p]
           k == Made(new[p], job[p])
<1>1. /\ d \in SpaceType /\ Apart(d) /\ free \in SUBSET Pages /\ k \subseteq Pages /\ sz[p] \in 0 .. KERNBASE
      /\ pgdir' = [pgdir EXCEPT ![p] = d] /\ sz' = [sz EXCEPT ![p] = sz[p]]
  BY OneProcess, HoldingsType DEF Holdings
<1>2. d # NoSpace /\ d.kvm # {} /\ 0 < sz[p] /\ Within(d, PGROUNDUP(sz[p]))
  BY OneProcess, Callers DEF Calling, Progress
<1>3. Divided(free \cup k, [Held EXCEPT ![p] = PagesOf(d)], [Making EXCEPT ![p] = Made(NoSpace, Nothing)])
  <2>1. Divided(free \cup k, Held, [Making EXCEPT ![p] = @ \ k])
    BY OneProcess, GiveBack
  <2>2. [Making EXCEPT ![p] = @ \ k] = [Making EXCEPT ![p] = Made(NoSpace, Nothing)]
    <3>1. Making[p] \ k = Made(NoSpace, Nothing)
      BY OneProcess, NoneInHand
    <3> QED
      BY <3>1
  <2>3. Held = [Held EXCEPT ![p] = PagesOf(d)]
    BY OneProcess
  <2> QED
    BY <2>1, <2>2, <2>3
<1>4. Progress(Nothing, d, NoSpace, sz[p]) /\ Calling(Nothing, d, NoSpace, sz[p])
  BY <1>1, <1>2, AtRest
<1>5. Nothing \in JobType /\ Nothing.call # "fork" /\ free \cup k \in SUBSET Pages
  BY <1>1, Callers
<1>6. k = PagesOf(new[p]) \cup InHand(p)
  BY DEF Made, InHand
<1> HIDE DEF k, d
<1>7. free' = free \cup k /\ pgdir[p] # NoSpace
  BY <1>2, <1>6 DEF d
<1> QED
  BY <1>1, <1>3, <1>4, <1>5, <1>7, NoSpaceEmpty, OwnStep

\* Out of memory in setupkvm(), allocuvm(), copyuvm() or walkpgdir().
LEMMA AllocFailsStep ==
  ASSUME VmInv, NEW p \in Procs, AllocFails(p)
  PROVE  VmInv'
<1>1. /\ job[p].call \in {"sbrk", "fork", "exec", "stack"}
      /\ job' = [job EXCEPT ![p] = Nothing] /\ sz' = sz /\ pgdir[p] # NoSpace
  <2>1. job[p].call \in {"sbrk", "fork", "exec", "stack"}
    BY ExtendingFacts DEF AllocFails, Setting, NeedsPage, NeedsTable
  <2> QED
    BY <2>1, Callers DEF AllocFails
<1>2. CASE job[p].call = "sbrk"
  <2>1. /\ free' = free \cup (Released(pgdir[p], sz[p], job[p].to) \cup InHand(p))
        /\ pgdir' = [pgdir EXCEPT ![p] = Dealloc(@, sz[p], job[p].to)] /\ new' = new
    BY <1>2 DEF AllocFails, Kfree
  <2>2. /\ Within(pgdir[p], job[p].at) /\ PGROUNDUP(sz[p]) <= job[p].at
        /\ job[p].at <= PGROUNDUP(job[p].to) /\ job[p].at \in Nat /\ job[p].to \in Nat
    <3>1. /\ Progress(job[p], pgdir[p], new[p], sz[p]) /\ sz[p] \in Nat /\ job[p].to \in Nat
          /\ job[p].at \in Nat
      BY OneProcess
    <3>2. PGROUNDUP(sz[p]) \in Nat /\ PGROUNDUP(job[p].to) \in Nat
      BY <3>1, RoundUp
    <3> QED
      BY <1>2, <3>1, <3>2 DEF Progress
  <2>3. sz' = [sz EXCEPT ![p] = sz[p]] /\ sz[p] \in 0 .. KERNBASE /\ 0 < sz[p]
    BY <1>1, OneProcess, Sized
  <2> QED
    BY <1>1, <1>2, <2>1, <2>2, <2>3, ShrinkTo
<1>3. CASE job[p].call # "sbrk"
  <2>1. /\ free' = free \cup (PagesOf(new[p]) \cup InHand(p)) /\ new' = [new EXCEPT ![p] = NoSpace]
        /\ pgdir' = pgdir
    BY <1>3 DEF AllocFails, Kfree
  <2> QED
    BY <1>1, <1>3, <2>1, DropNew
<1> QED
  BY <1>2, <1>3

LEMMA ExecBadStep ==
  ASSUME VmInv, NEW p \in Procs, ExecBad(p)
  PROVE  VmInv'
<1>1. InHand(p) = {}
  BY DEF ExecBad, InHand
<1>2. free' = free \cup (PagesOf(new[p]) \cup InHand(p))
  BY <1>1 DEF ExecBad, Kfree
<1> QED
  BY <1>2, DropNew DEF ExecBad

\* growproc(n), n < 0.
LEMMA ShrinkStep ==
  ASSUME VmInv, NEW p \in Procs, NEW n \in Increments, Shrink(p, n)
  PROVE  VmInv'
<1> DEFINE z == sz[p] + n
<1>1. n \in Int /\ n < 0 /\ z > 0 /\ sz[p] \in 0 .. KERNBASE /\ sz[p] \in Nat
  BY OneProcess DEF Shrink
<1>2. z \in 0 .. KERNBASE /\ z \in Nat /\ z <= sz[p]
  BY <1>1, VmSizes
<1>3. Ready(p) /\ pgdir[p] # NoSpace /\ job[p] = Nothing /\ job[p].call = "none"
  BY Callers DEF Shrink
<1>4. Within(pgdir[p], PGROUNDUP(sz[p]))
  BY <1>3, OneProcess DEF Progress
<1>5. PGROUNDUP(z) <= PGROUNDUP(sz[p]) /\ PGROUNDUP(sz[p]) \in Nat /\ PGROUNDUP(sz[p]) <= PGROUNDUP(sz[p])
  BY <1>1, <1>2, RoundUpMonotone, RoundUp
<1>6. /\ free' = free \cup (Released(pgdir[p], z, sz[p]) \cup InHand(p))
      /\ pgdir' = [pgdir EXCEPT ![p] = Dealloc(@, z, sz[p])] /\ new' = new
      /\ sz' = [sz EXCEPT ![p] = z]
  BY <1>3, NoneInHand DEF Shrink, Kfree, InHand
<1>7. job' = [job EXCEPT ![p] = Nothing]
  BY <1>3, OneProcess DEF Shrink
<1> HIDE DEF z
<1> QED
  BY <1>1, <1>2, <1>3, <1>4, <1>5, <1>6, <1>7, ShrinkTo

\* growproc(n), n = -sz.
LEMMA GiveUpAllStep ==
  ASSUME VmInv, NEW p \in Procs, NEW n \in Increments, GiveUpAll(p, n)
  PROVE  VmInv'
<1>1. Ready(p) /\ pgdir[p] # NoSpace /\ job[p] = Nothing /\ job[p].call = "none"
  BY Callers DEF GiveUpAll
<1>2. /\ sz[p] \in 0 .. KERNBASE /\ sz[p] \in Nat /\ 0 < sz[p] /\ Within(pgdir[p], PGROUNDUP(sz[p]))
      /\ PGROUNDUP(sz[p]) \in Nat
  BY <1>1, OneProcess, Sized, RoundUp DEF Progress
<1>3. PGROUNDUP(0) <= PGROUNDUP(sz[p]) /\ PGROUNDUP(sz[p]) <= PGROUNDUP(sz[p])
  BY <1>2, RoundUpMonotone
<1>4. /\ free' = free \cup (Released(pgdir[p], 0, sz[p]) \cup InHand(p))
      /\ pgdir' = [pgdir EXCEPT ![p] = Dealloc(@, 0, sz[p])] /\ new' = new
  BY <1>1, NoneInHand DEF GiveUpAll, Kfree, InHand
<1>5. job' = [job EXCEPT ![p] = Nothing] /\ sz' = [sz EXCEPT ![p] = sz[p]]
  BY <1>1, OneProcess DEF GiveUpAll
<1> QED
  BY <1>1, <1>2, <1>3, <1>4, <1>5, ShrinkTo

\* A call begins.
LEMMA CallStep ==
  ASSUME VmInv, NEW p \in Procs, Ready(p), NEW j \in JobType, j.call \in {"sbrk", "fork", "exec"},
         j.page = NoPage, Progress(j, pgdir[p], NoSpace, sz[p]),
         j.call = "fork" =>
           /\ pgdir[j.child] = NoSpace
           /\ \A q \in Procs \ {p} : job[q].call = "fork" => job[q].child # j.child,
         job' = [job EXCEPT ![p] = j], free' = free, pgdir' = pgdir, sz' = sz, new' = new
  PROVE  VmInv'
<1>1. pgdir[p] # NoSpace /\ job[p] = Nothing /\ new[p] = NoSpace
  BY Callers
<1>2. Calling(j, pgdir[p], NoSpace, sz[p])
  BY <1>1, OneProcess DEF Calling
<1>3. Making[p] = {} /\ Made(NoSpace, j) = {}
  BY <1>1, OneProcess, NoneInHand, NoSpaceEmpty
<1>4. /\ pgdir' = [pgdir EXCEPT ![p] = pgdir[p]] /\ sz' = [sz EXCEPT ![p] = sz[p]]
      /\ new' = [new EXCEPT ![p] = NoSpace] /\ free \in SUBSET Pages /\ sz[p] \in 0 .. KERNBASE
      /\ pgdir[p] \in SpaceType /\ Apart(pgdir[p])
  BY <1>1, OneProcess
<1>5. Divided(free, [Held EXCEPT ![p] = PagesOf(pgdir[p])], [Making EXCEPT ![p] = Made(NoSpace, j)])
  <2>1. /\ Divided(free, Held, Making) /\ Held = [Held EXCEPT ![p] = PagesOf(pgdir[p])]
        /\ Making \in Holdings
    BY OneProcess
  <2>2. Making = [Making EXCEPT ![p] = Made(NoSpace, j)]
    BY <1>3, <2>1 DEF Holdings
  <2> QED
    BY <2>1, <2>2
<1> QED
  BY <1>1, <1>2, <1>4, <1>5, NoSpaceEmpty, OwnStep

\* growproc(n), n > 0, begins.
LEMMA GrowStep ==
  ASSUME VmInv, NEW p \in Procs, NEW n \in Increments, Grow(p, n)
  PROVE  VmInv'
<1> DEFINE j == [Nothing EXCEPT !.call = "sbrk", !.at = PGROUNDUP(sz[p]), !.to = sz[p] + n]
<1>1. n \in Int /\ n > 0 /\ sz[p] + n < KERNBASE /\ sz[p] \in Nat /\ sz[p] \in 0 .. KERNBASE
  BY OneProcess DEF Grow
<1>2. Ready(p) /\ pgdir[p] # NoSpace /\ job[p] = Nothing /\ Nothing \in JobType
      /\ Nothing.call = "none"
  BY Callers DEF Grow
<1>3. PGROUNDUP(sz[p]) \in Nat /\ PGROUNDUP(sz[p] + n) \in Nat /\ PGROUNDUP(sz[p]) <= PGROUNDUP(sz[p] + n)
      /\ sz[p] + n \in Nat
  BY <1>1, RoundUp, RoundUpMonotone
<1>4. j \in JobType /\ j.call = "sbrk" /\ j.at = PGROUNDUP(sz[p]) /\ j.to = sz[p] + n /\ j.page = NoPage
  BY <1>2, <1>3 DEF JobType, Nothing
<1>5. job' = [job EXCEPT ![p] = j] /\ free' = free /\ pgdir' = pgdir /\ sz' = sz /\ new' = new
  BY DEF Grow
<1> HIDE DEF j
<1>6. Progress(j, pgdir[p], NoSpace, sz[p])
  <2>1. Within(pgdir[p], PGROUNDUP(sz[p]))
    BY <1>2, OneProcess DEF Progress
  <2>2. \A v \in VPNs : ~(PGROUNDUP(sz[p]) <= v /\ v < PGROUNDUP(sz[p]))
    BY <1>3, VmSizes
  <2> QED
    BY <1>1, <1>3, <1>4, <2>1, <2>2, VmSizes DEF Progress
<1>7. j.call # "fork"
  BY <1>4
<1> QED
  BY <1>2, <1>4, <1>5, <1>6, <1>7, CallStep

\* A call that has extended its page table is at the end.
LEMMA DoneAt ==
  ASSUME VmInv, NEW p \in Procs, job[p].call \in {"sbrk", "fork", "exec", "stack"},
         ~Setting(p), ~Extending(p)
  PROVE  /\ job[p].at = PGROUNDUP(job[p].to) /\ job[p].to \in 0 .. KERNBASE /\ job[p].page = NoPage
         /\ Made(new[p], job[p]) = PagesOf(new[p])
         /\ job[p].call # "sbrk" => new[p].kvm # {}
<1>1. /\ Progress(job[p], pgdir[p], new[p], sz[p]) /\ job[p].to \in Nat /\ job[p].at \in Nat /\ sz[p] \in Nat
      /\ Calling(job[p], pgdir[p], new[p], sz[p])
  BY OneProcess
<1>2. /\ PGROUNDUP(job[p].to) \in Nat /\ PGROUNDUP(sz[p]) \in Nat
      /\ (job[p].at * PGSIZE < job[p].to <=> job[p].at < PGROUNDUP(job[p].to))
  BY <1>1, RoundUp
<1>3. job[p].at <= PGROUNDUP(job[p].to) /\ job[p].to <= KERNBASE
  BY <1>1, <1>2 DEF Progress
<1>4. ~(job[p].at * PGSIZE < job[p].to)
  BY DEF Extending
<1>5. job[p].at = PGROUNDUP(job[p].to) /\ job[p].to \in 0 .. KERNBASE
  BY <1>1, <1>2, <1>3, <1>4, VmSizes
<1>6. job[p].page = NoPage
  <2>1. job[p].page # NoPage => job[p].at < PGROUNDUP(job[p].to)
    BY <1>1 DEF Progress
  <2> QED
    BY <1>2, <1>4, <2>1
<1>7. job[p].call # "sbrk" => new[p].kvm # {}
  <2>1. Cardinality({}) = 0
    BY FS_EmptySet
  <2>2. 0 < KVM
    OBVIOUS
  <2>3. ASSUME job[p].call \in {"fork", "exec"}, new[p].kvm = {} PROVE FALSE
    <3>1. Cardinality(new[p].kvm) = 0
      BY <2>1, <2>3
    <3> QED
      BY <2>2, <2>3, <3>1 DEF Setting
  <2> QED
    BY <1>1, <2>3 DEF Calling
<1> QED
  BY <1>5, <1>6, <1>7, NoneInHand

LEMMA GrownStep ==
  ASSUME VmInv, NEW p \in Procs, Grown(p)
  PROVE  VmInv'
<1>1. job[p].call = "sbrk" /\ ~Extending(p) /\ job' = [job EXCEPT ![p] = Nothing] /\ ~Setting(p)
      /\ sz' = [sz EXCEPT ![p] = job[p].to] /\ free' = free /\ pgdir' = pgdir /\ new' = new
  BY DEF Grown, Setting
<1>2. job[p].at = PGROUNDUP(job[p].to) /\ job[p].to \in 0 .. KERNBASE /\ Made(new[p], job[p]) = PagesOf(new[p])
  BY <1>1, DoneAt
<1>3. /\ pgdir[p] # NoSpace /\ new[p] = NoSpace /\ pgdir[p].kvm # {} /\ Within(pgdir[p], PGROUNDUP(job[p].to))
      /\ sz[p] < job[p].to
  BY <1>1, <1>2, OneProcess, Callers DEF Calling, Progress
<1>4. 0 < job[p].to
  BY <1>3, OneProcess
<1>5. /\ pgdir' = [pgdir EXCEPT ![p] = pgdir[p]]
      /\ new' = [new EXCEPT ![p] = NoSpace] /\ free \in SUBSET Pages
      /\ pgdir[p] \in SpaceType /\ Apart(pgdir[p])
      /\ Divided(free, [Held EXCEPT ![p] = PagesOf(pgdir[p])], [Making EXCEPT ![p] = Made(NoSpace, Nothing)])
  <2>1. Made(new[p], job[p]) = Made(NoSpace, Nothing)
    BY <1>2, <1>3, NoneInHand, NoSpaceEmpty
  <2> QED
    BY <1>1, <1>3, <2>1, OneProcess
<1>6. Progress(Nothing, pgdir[p], NoSpace, job[p].to) /\ Calling(Nothing, pgdir[p], NoSpace, job[p].to)
  BY <1>2, <1>3, <1>4, <1>5, AtRest
<1>7. Nothing \in JobType /\ Nothing.call # "fork"
  BY Callers
<1> QED
  BY <1>1, <1>2, <1>3, <1>5, <1>6, <1>7, NoSpaceEmpty, OwnStep

LEMMA ForkStep ==
  ASSUME VmInv, NEW p \in Procs, NEW c \in Procs, Fork(p, c)
  PROVE  VmInv'
<1> DEFINE j == [Nothing EXCEPT !.call = "fork", !.to = sz[p], !.child = c]
<1>1. /\ Ready(p) /\ ~Claimed(c) /\ job' = [job EXCEPT ![p] = j]
      /\ free' = free /\ pgdir' = pgdir /\ sz' = sz /\ new' = new
  BY DEF Fork
<1>2. sz[p] \in 0 .. KERNBASE /\ sz[p] \in Nat /\ PGROUNDUP(sz[p]) \in Nat
  BY OneProcess, RoundUp
<1>3. /\ j \in JobType /\ j.call = "fork" /\ j.at = 0 /\ j.to = sz[p] /\ j.child = c
      /\ j.page = NoPage
  BY <1>2 DEF JobType, Nothing
<1> HIDE DEF j
<1>4. pgdir[c] = NoSpace /\ \A q \in Procs : job[q].call = "fork" => job[q].child # c
  BY <1>1 DEF Claimed, Lives
<1>5. Within(pgdir[p], PGROUNDUP(sz[p]))
  BY <1>1, OneProcess, Callers DEF Progress
<1>6. Progress(j, pgdir[p], NoSpace, sz[p])
  BY <1>2, <1>3, <1>5, NoSpaceEmpty, VmSizes DEF Progress
<1> QED
  BY <1>1, <1>3, <1>4, <1>6, CallStep

LEMMA ExecStartStep ==
  ASSUME VmInv, NEW p \in Procs, NEW f \in Programs, ExecStart(p, f)
  PROVE  VmInv'
<1> DEFINE j == [Nothing EXCEPT !.call = "exec", !.to = Cardinality(DOMAIN f), !.prog = f]
<1>1. /\ Ready(p) /\ job' = [job EXCEPT ![p] = j]
      /\ free' = free /\ pgdir' = pgdir /\ sz' = sz /\ new' = new
  BY DEF ExecStart
<1>2. Cardinality(DOMAIN f) \in Nat /\ Cardinality(DOMAIN f) \in 0 .. KERNBASE
      /\ PGROUNDUP(Cardinality(DOMAIN f)) \in Nat
  BY FS_CardinalityType, VmSizes, ProgramsAssumption, RoundUp
<1>3. /\ j \in JobType /\ j.call = "exec" /\ j.at = 0 /\ j.to = Cardinality(DOMAIN f) /\ j.prog = f
      /\ j.page = NoPage
  BY <1>2 DEF JobType, Nothing
<1> HIDE DEF j
<1>4. Within(pgdir[p], PGROUNDUP(sz[p]))
  BY <1>1, OneProcess, Callers DEF Progress
<1>5. Progress(j, pgdir[p], NoSpace, sz[p])
  BY <1>2, <1>3, <1>4, NoSpaceEmpty, VmSizes DEF Progress
<1>6. j.call # "fork"
  BY <1>3
<1> QED
  BY <1>1, <1>3, <1>5, <1>6, CallStep

LEMMA ExitedStep ==
  ASSUME VmInv, NEW p \in Procs, Exited(p)
  PROVE  VmInv'
<1> DEFINE k == PagesOf(pgdir[p])
<1>1. /\ Ready(p) /\ free' = free \cup k /\ pgdir' = [pgdir EXCEPT ![p] = NoSpace]
      /\ sz' = [sz EXCEPT ![p] = 0] /\ new' = new /\ job' = job
  BY DEF Exited, Kfree
<1>2. pgdir[p] # NoSpace /\ job[p] = Nothing /\ new[p] = NoSpace /\ Nothing \in JobType /\ Nothing.call = "none"
  BY <1>1, Callers
<1>3. /\ free \in SUBSET Pages /\ k \subseteq Pages /\ new' = [new EXCEPT ![p] = NoSpace]
      /\ job' = [job EXCEPT ![p] = Nothing]
  BY <1>1, <1>2, OneProcess, PagesOfSubset
<1>4. Divided(free \cup k, [Held EXCEPT ![p] = PagesOf(NoSpace)], [Making EXCEPT ![p] = Made(NoSpace, Nothing)])
  <2>1. /\ Held \in Holdings /\ Making \in Holdings /\ Divided(free, Held, Making)
        /\ Held[p] = k /\ Making = [Making EXCEPT ![p] = Made(new[p], job[p])]
    BY OneProcess
  <2>2. Divided(free \cup k, [Held EXCEPT ![p] = @ \ k], Making)
    BY <1>3, <2>1, GiveBack
  <2>3. Held[p] \ k = PagesOf(NoSpace)
    BY <2>1, NoSpaceEmpty
  <2> QED
    BY <1>2, <2>1, <2>2, <2>3
<1>5. Progress(Nothing, NoSpace, NoSpace, 0) /\ Calling(Nothing, NoSpace, NoSpace, 0)
  <2>1. PGROUNDUP(0) = 0
    <3>1. 0 * PGSIZE = 0
      OBVIOUS
    <3> QED
      BY <3>1, RoundUpWhole
  <2> QED
    BY <1>2, <2>1, NoSpaceEmpty, NoneInHand, WithinMapped DEF Progress, Calling
<1>6. 0 \in 0 .. KERNBASE /\ free \cup k \in SUBSET Pages
  BY <1>3, VmSizes
<1>7. Nothing.call # "fork"
  BY <1>2
<1> HIDE DEF k
<1> QED
  BY <1>1, <1>2, <1>3, <1>4, <1>5, <1>6, <1>7, NoSpaceEmpty, OwnStep

\* loaduvm() is done.
LEMMA ExecLoadStep ==
  ASSUME VmInv, NEW p \in Procs, ExecLoad(p)
  PROVE  VmInv'
<1> DEFINE end == PGROUNDUP(job[p].to)
           fits == (end + 2) * PGSIZE < KERNBASE
           j == [job[p] EXCEPT !.call = IF fits THEN "stack" ELSE "bad", !.at = end, !.to = (end + 2) * PGSIZE]
<1>1. /\ job[p].call = "exec" /\ ~Setting(p) /\ ~Extending(p) /\ job' = [job EXCEPT ![p] = j]
      /\ free' = free /\ pgdir' = pgdir /\ sz' = sz /\ new' = new
  BY DEF ExecLoad
<1>2. job[p] \in JobType /\ job[p].to \in Nat /\ end \in Nat /\ job[p].at = end
      /\ job[p].page = NoPage /\ new[p].kvm # {} /\ Made(new[p], job[p]) = PagesOf(new[p])
  BY <1>1, OneProcess, DoneAt, RoundUp
<1>3. end + 2 \in Nat /\ (end + 2) * PGSIZE \in Nat
  BY <1>2
<1> HIDE DEF end
<1>4. /\ j \in JobType /\ j.call = (IF fits THEN "stack" ELSE "bad") /\ j.at = end
      /\ j.to = (end + 2) * PGSIZE /\ j.prog = job[p].prog /\ j.page = NoPage
  <2> DEFINE i == [job[p] EXCEPT !.call = IF fits THEN "stack" ELSE "bad"]
             m == [i EXCEPT !.at = end]
  <2>1. /\ i \in JobType /\ i.call = (IF fits THEN "stack" ELSE "bad") /\ i.prog = job[p].prog
        /\ i.page = NoPage
    BY <1>2 DEF JobType
  <2>2. j = [m EXCEPT !.to = (end + 2) * PGSIZE]
    BY <1>2 DEF JobType
  <2> HIDE DEF i, j
  <2>3. /\ m \in JobType /\ m.call = i.call /\ m.prog = i.prog /\ m.page = i.page /\ m.at = end
    BY <1>2, <2>1 DEF JobType
  <2> HIDE DEF m
  <2>4. /\ j \in JobType /\ j.call = m.call /\ j.prog = m.prog /\ j.page = m.page /\ j.at = m.at
        /\ j.to = (end + 2) * PGSIZE
    BY <1>3, <2>2, <2>3 DEF JobType
  <2> QED
    BY <2>1, <2>3, <2>4
<1> HIDE DEF j
<1>5. /\ Progress(job[p], pgdir[p], new[p], sz[p]) /\ Calling(job[p], pgdir[p], new[p], sz[p])
      /\ pgdir[p] # NoSpace
  BY <1>1, OneProcess, Callers
<1>6. /\ Mapped(new[p], end) /\ Within(pgdir[p], PGROUNDUP(sz[p])) /\ job[p].prog \in Programs
      /\ end = ProgPages(job[p].prog)
  BY <1>1, <1>2, <1>5 DEF Progress, ProgPages, end
<1>7. Progress(j, pgdir[p], new[p], sz[p])
  <2>1. CASE fits
    <3>1. end + 2 < NPD * NPT
      BY <1>3, <2>1, MulLess, VmSizes DEF KERNBASE
    <3>2. PGROUNDUP((end + 2) * PGSIZE) = end + 2
      BY <1>3, RoundUpWhole
    <3>3. j.to <= KERNBASE /\ j.at <= PGROUNDUP(j.to)
      BY <1>2, <1>3, <1>4, <2>1, <3>2, VmSizes
    <3> QED
      BY <1>2, <1>4, <1>6, <2>1, <3>1, <3>3 DEF Progress
  <2>2. CASE ~fits
    BY <1>4, <1>6, <2>2 DEF Progress
  <2> QED
    BY <2>1, <2>2
<1>8. Calling(j, pgdir[p], new[p], sz[p])
  BY <1>1, <1>2, <1>4, <1>5 DEF Calling
<1>9. /\ pgdir' = [pgdir EXCEPT ![p] = pgdir[p]] /\ sz' = [sz EXCEPT ![p] = sz[p]]
      /\ new' = [new EXCEPT ![p] = new[p]] /\ free \in SUBSET Pages
      /\ pgdir[p] \in SpaceType /\ new[p] \in SpaceType /\ Apart(pgdir[p]) /\ Apart(new[p])
      /\ Divided(free, [Held EXCEPT ![p] = PagesOf(pgdir[p])], [Making EXCEPT ![p] = Made(new[p], j)])
      /\ sz[p] \in 0 .. KERNBASE
  <2>1. Made(new[p], j) = Made(new[p], job[p])
    BY <1>2, <1>4, NoneInHand
  <2> QED
    BY <1>1, <2>1, OneProcess
<1>10. j.call # "fork"
  BY <1>4
<1> QED
  BY <1>1, <1>4, <1>5, <1>7, <1>8, <1>9, <1>10, OwnStep

\* The new page table replaces the old one.
LEMMA ExecCommitStep ==
  ASSUME VmInv, NEW p \in Procs, NEW x \in Vals, ExecCommit(p, x)
  PROVE  VmInv'
<1> DEFINE G == {job[p].to \div PGSIZE - 2}
           d == [new[p] EXCEPT !.guard = G]
           k == PagesOf(pgdir[p])
<1>1. /\ job[p].call = "stack" /\ ~Setting(p) /\ ~Extending(p) /\ free' = free \cup k
      /\ pgdir' = [pgdir EXCEPT ![p] = d] /\ sz' = [sz EXCEPT ![p] = job[p].to]
      /\ new' = [new EXCEPT ![p] = NoSpace] /\ job' = [job EXCEPT ![p] = Nothing]
  BY DEF ExecCommit, Setting
<1>2. /\ job[p].to \in Nat /\ job[p].at = PGROUNDUP(job[p].to) /\ job[p].to \in 0 .. KERNBASE
      /\ new[p] \in SpaceType /\ Apart(new[p]) /\ free \in SUBSET Pages /\ k \subseteq Pages
      /\ Made(new[p], job[p]) = PagesOf(new[p]) /\ new[p].kvm # {}
  BY <1>1, OneProcess, DoneAt, PagesOfSubset
<1>3. /\ Mapped(new[p], PGROUNDUP(job[p].to)) /\ pgdir[p] # NoSpace
      /\ 0 < job[p].to
  <2>1. Progress(job[p], pgdir[p], new[p], sz[p]) /\ pgdir[p] # NoSpace
    BY <1>1, OneProcess, Callers
  <2>2. job[p].prog \in Programs /\ job[p].to = (ProgPages(job[p].prog) + 2) * PGSIZE
    BY <1>1, <2>1 DEF Progress
  <2>3. ProgPages(job[p].prog) \in Nat
    BY <2>2, RoundUp, FS_CardinalityType, ProgramsAssumption DEF ProgPages
  <2> DEFINE m == ProgPages(job[p].prog) + 2
  <2>4. m \in Int /\ 0 < m /\ 0 * PGSIZE = 0
    BY <2>3
  <2> HIDE DEF m
  <2>5. 0 < m * PGSIZE
    BY <2>4, MulLess
  <2> QED
    BY <1>1, <1>2, <2>1, <2>2, <2>5 DEF Progress, m
<1>4. G \in SUBSET Int
  BY <1>2
<1> HIDE DEF G, k
<1>5. /\ d \in SpaceType /\ PagesOf(d) = PagesOf(new[p]) /\ Apart(d) /\ d.kvm # {}
      /\ Mapped(d, PGROUNDUP(job[p].to))
  BY <1>2, <1>3, <1>4, GuardSpace
<1> HIDE DEF d
<1>6. Divided(free \cup k, [Held EXCEPT ![p] = PagesOf(d)], [Making EXCEPT ![p] = Made(NoSpace, Nothing)])
  <2> DEFINE D == [Held EXCEPT ![p] = @ \ k]
  <2>1. /\ Held \in Holdings /\ Making \in Holdings /\ Divided(free, Held, Making)
        /\ Held[p] = k /\ Making[p] = PagesOf(new[p])
    BY <1>2, OneProcess DEF k
  <2>2. Divided(free \cup k, D, Making)
    BY <1>2, <2>1, GiveBack
  <2>3. D \in Holdings /\ D[p] = {} /\ [D EXCEPT ![p] = Making[p]] = [Held EXCEPT ![p] = Making[p]]
    BY <2>1 DEF Holdings
  <2> HIDE DEF D
  <2>4. Divided(free \cup k, [D EXCEPT ![p] = Making[p]], [Making EXCEPT ![p] = {}])
    BY <1>2, <2>1, <2>2, <2>3, HandOver
  <2> QED
    BY <1>5, <2>1, <2>3, <2>4, NoneInHand
<1>7. Progress(Nothing, d, NoSpace, job[p].to) /\ Calling(Nothing, d, NoSpace, job[p].to)
  <2>1. Within(d, PGROUNDUP(job[p].to))
    BY <1>2, <1>5, WithinMapped, RoundUp
  <2> QED
    BY <1>2, <1>3, <1>5, <2>1, AtRest
<1>8. Nothing \in JobType /\ Nothing.call # "fork" /\ free \cup k \in SUBSET Pages
  BY <1>2, Callers
<1> QED
  BY <1>1, <1>2, <1>3, <1>5, <1>6, <1>7, <1>8, NoSpaceEmpty, OwnStep

\* The child gets the page table its parent has made.
LEMMA ForkedStep ==
  ASSUME VmInv, NEW p \in Procs, Forked(p)
  PROVE  VmInv'
<1> DEFINE c == job[p].child
<1>1. /\ job[p].call = "fork" /\ ~Setting(p) /\ ~Extending(p)
      /\ pgdir' = [pgdir EXCEPT ![c] = new[p]] /\ sz' = [sz EXCEPT ![c] = sz[p]]
      /\ new' = [new EXCEPT ![p] = NoSpace] /\ job' = [job EXCEPT ![p] = Nothing] /\ free' = free
  BY DEF Forked
<1>2. VmType /\ TablesApart /\ PagesDivided /\ ChildrenFree
  BY DEF VmInv
<1>3. c \in Procs /\ pgdir[c] = NoSpace /\ pgdir[p] # NoSpace /\ c # p
  BY <1>1, <1>2, OneProcess, Callers DEF ChildrenFree
<1>4. job[c] = Nothing /\ new[c] = NoSpace /\ Nothing \in JobType /\ Nothing.call = "none"
  BY <1>3, OneProcess, Callers DEF Calling
<1>5. /\ new[p] \in SpaceType /\ Apart(new[p]) /\ new[p].kvm # {} /\ sz[p] \in 0 .. KERNBASE
      /\ pgdir[p] \in SpaceType /\ pgdir[p].kvm # {} /\ 0 < sz[p]
      /\ Within(new[p], PGROUNDUP(sz[p])) /\ Within(pgdir[p], PGROUNDUP(sz[p]))
      /\ Made(new[p], job[p]) = PagesOf(new[p])
  <2>1. /\ job[p].at = PGROUNDUP(sz[p]) /\ new[p].kvm # {}
        /\ Made(new[p], job[p]) = PagesOf(new[p])
    BY <1>1, DoneAt, OneProcess DEF Progress
  <2>2. Mapped(new[p], PGROUNDUP(sz[p])) /\ PGROUNDUP(sz[p]) \in Nat
    BY <1>1, <2>1, OneProcess, RoundUp DEF Progress
  <2> QED
    BY <1>1, <1>3, <2>1, <2>2, OneProcess, WithinMapped, Sized DEF Progress
<1> HIDE DEF c
<1>6. VmType'
  BY <1>1, <1>2, <1>3, <1>4, <1>5, NoSpaceEmpty DEF VmType
<1>7. /\ \A q \in Procs : pgdir'[q] = IF q = c THEN new[p] ELSE pgdir[q]
      /\ \A q \in Procs : sz'[q] = IF q = c THEN sz[p] ELSE sz[q]
      /\ \A q \in Procs : new'[q] = IF q = p THEN NoSpace ELSE new[q]
      /\ \A q \in Procs : job'[q] = IF q = p THEN Nothing ELSE job[q]
  BY <1>1, <1>2, <1>3 DEF VmType
<1>8. TablesApart'
  BY <1>2, <1>5, <1>7, NoSpaceEmpty DEF TablesApart
<1>9. PagesDivided'
  <2>1. /\ Held \in Holdings /\ Making \in Holdings /\ Divided(free, Held, Making) /\ free \in SUBSET Pages
        /\ Making[p] = PagesOf(new[p])
    BY <1>5, OneProcess
  <2>2. Held[c] = {}
    BY <1>3, OneProcess, NoSpaceEmpty
  <2>3. Held' = [Held EXCEPT ![c] = Making[p]] /\ Making' = [Making EXCEPT ![p] = {}]
    <3>1. \A q \in Procs : PagesOf(pgdir'[q]) = IF q = c THEN Making[p] ELSE PagesOf(pgdir[q])
      BY <1>7, <2>1
    <3>2. \A q \in Procs : Made(new'[q], job'[q]) = IF q = p THEN {} ELSE Made(new[q], job[q])
      BY <1>7, NoneInHand
    <3> QED
      BY <1>3, <3>1, <3>2 DEF Held, Making
  <2>4. Divided(free, [Held EXCEPT ![c] = Making[p]], [Making EXCEPT ![p] = {}])
    BY <1>3, <2>1, <2>2, HandOver
  <2> QED
    BY <1>1, <2>3, <2>4 DEF PagesDivided
<1>10. ASSUME NEW q \in Procs
       PROVE  /\ Progress(job'[q], pgdir'[q], new'[q], sz'[q])
              /\ Calling(job'[q], pgdir'[q], new'[q], sz'[q])
  <2>1. CASE q = c
    BY <2>1, <1>3, <1>4, <1>5, <1>7, AtRest
  <2>2. CASE q = p
    BY <2>2, <1>3, <1>5, <1>7, AtRest
  <2>3. CASE q # p /\ q # c
    BY <2>3, <1>7, OneProcess
  <2> QED
    BY <2>1, <2>2, <2>3
<1>11. ChildrenFree'
  <2>1. SUFFICES ASSUME NEW q \in Procs, job'[q].call = "fork"
                 PROVE  /\ pgdir'[job'[q].child] = NoSpace
                        /\ \A r \in Procs \ {q} : job'[r].call = "fork" => job'[r].child # job'[q].child
    BY DEF ChildrenFree
  <2>2. q # p /\ job'[q] = job[q] /\ job[q].child \in Procs
    BY <2>1, <1>4, <1>7, OneProcess
  <2>3. job[q].child # c /\ pgdir[job[q].child] = NoSpace
    BY <2>1, <2>2, <1>1, <1>2 DEF ChildrenFree, c
  <2>4. \A r \in Procs \ {q} : job'[r].call = "fork" => job'[r].child # job[q].child
    BY <2>1, <2>2, <1>2, <1>4, <1>7 DEF ChildrenFree
  <2> QED
    BY <2>2, <2>3, <2>4, <1>7
<1> QED
  BY <1>6, <1>8, <1>9, <1>10, <1>11 DEF VmInv

\* A store leaves page tables alone.
LEMMA StoreStep ==
  ASSUME VmInv, UNCHANGED <<free, pgdir, sz, new, job>>
  PROVE  VmInv'
<1>1. VmType' /\ TablesApart' /\ Held' = Held /\ Making' = Making /\ ChildrenFree'
  BY DEF VmInv, VmType, TablesApart, Held, Making, ChildrenFree
<1> QED
  BY <1>1 DEF VmInv, PagesDivided

\* kinit(), userinit() and inituvm().
LEMMA VmInvInit ==
  ASSUME VmInit
  PROVE  VmInv /\ Mapped(pgdir[InitProc], 1)
<1> DEFINE k == CHOOSE x \in SUBSET Pages : Cardinality(x) = KVM
           t == CHOOSE x \in Pages \ k : TRUE
           m == CHOOSE x \in Pages \ (k \cup {t}) : TRUE
           e == [NoSpace EXCEPT !.kvm = k]
           d == [NoSpace EXCEPT !.kvm = k, !.pde[0] = t, !.pte[0] = m]
<1>1. /\ free = Pages \ (k \cup {t, m})
      /\ pgdir = [p \in Procs |-> IF p # InitProc THEN NoSpace ELSE d]
      /\ sz = [p \in Procs |-> IF p = InitProc THEN PGSIZE ELSE 0]
      /\ new = [p \in Procs |-> NoSpace] /\ job = [p \in Procs |-> Nothing]
  BY DEF VmInit
<1>2. k \in SUBSET Pages /\ Cardinality(k) = KVM
  <2>1. Cardinality(Pages) \in Nat
    BY FS_CardinalityType
  <2>2. \E x \in SUBSET Pages : Cardinality(x) = KVM
    BY <2>1, SubsetOfSize
  <2> QED
    BY <2>2
<1> HIDE DEF k
<1>3. k # {} /\ IsFiniteSet(k)
  BY <1>2, FS_EmptySet, FS_Subset
<1>4. t \in Pages /\ t \notin k
  <2>1. Cardinality(Pages) # Cardinality(k)
    BY <1>2, FS_CardinalityType
  <2>2. Pages # k
    BY <2>1
  <2>3. Pages \ k # {}
    BY <1>2, <2>2
  <2> QED
    BY <2>3
<1> HIDE DEF t
<1>5. m \in Pages /\ m \notin k /\ m # t
  <2>1. IsFiniteSet(k \cup {t}) /\ Cardinality(k \cup {t}) = KVM + 1
    BY <1>2, <1>3, <1>4, FS_AddElement
  <2>2. Cardinality(Pages) # Cardinality(k \cup {t}) /\ k \cup {t} \subseteq Pages
    BY <1>2, <1>4, <2>1, FS_CardinalityType
  <2>3. Pages \ (k \cup {t}) # {}
    BY <2>2
  <2> QED
    BY <2>3
<1> HIDE DEF m
<1>6. e \in SpaceType /\ PagesOf(e) = k /\ Apart(e) /\ Mapped(e, 0) /\ e.kvm = k
  BY <1>2, <1>3, OnlyKernel
<1>7. /\ d \in SpaceType /\ d.kvm = e.kvm /\ d.pte = [e.pte EXCEPT ![0] = m]
      /\ d.pde = [e.pde EXCEPT ![0] = t] /\ e.pde[0] = NoPage
  BY <1>2, <1>4, <1>5, VmSizes DEF SpaceType, NoSpace, Tables
<1> HIDE DEF d, e
<1>8. Apart(d) /\ Mapped(d, 1) /\ PagesOf(d) = k \cup {m, t}
  <2>1. PDX(0) = 0
    BY DEF PDX
  <2>2. Within(e, 0)
    BY <1>6, WithinMapped
  <2>3. Apart(d) /\ Mapped(d, 0 + 1) /\ PagesOf(d) = PagesOf(e) \cup {m, t}
    BY <1>4, <1>5, <1>6, <1>7, <2>1, <2>2, VmSizes, ExtendSpace
  <2> QED
    BY <1>6, <2>3
<1>9. PGROUNDUP(PGSIZE) = 1 /\ PGROUNDUP(0) = 0
  <2>1. 1 * PGSIZE = PGSIZE /\ 0 * PGSIZE = 0
    OBVIOUS
  <2> QED
    BY <2>1, RoundUpWhole
<1>10. Nothing \in JobType /\ Nothing.call = "none"
  BY DEF Nothing, JobType
<1>11. VmType
  BY <1>1, <1>7, <1>10, NoSpaceEmpty, VmSizes DEF VmType
<1>12. TablesApart /\ ChildrenFree
  BY <1>1, <1>8, <1>10, NoSpaceEmpty DEF TablesApart, ChildrenFree
<1>13. PagesDivided
  <2>1. \A p \in Procs : Held[p] = (IF p = InitProc THEN k \cup {m, t} ELSE {}) /\ Making[p] = {}
    BY <1>1, <1>8, NoneInHand, NoSpaceEmpty DEF Held, Making
  <2> QED
    BY <1>1, <2>1 DEF PagesDivided, Divided
<1>14. ASSUME NEW p \in Procs
       PROVE  Progress(job[p], pgdir[p], new[p], sz[p]) /\ Calling(job[p], pgdir[p], new[p], sz[p])
  <2>1. d # NoSpace /\ d.kvm # {}
    BY <1>3, <1>6, <1>7, NoSpaceEmpty
  <2>2. /\ pgdir[p] = (IF p # InitProc THEN NoSpace ELSE d) /\ sz[p] = (IF p = InitProc THEN PGSIZE ELSE 0)
        /\ new[p] = NoSpace /\ job[p] = Nothing
    BY <1>1
  <2> QED
    <3>1. Within(d, 1) /\ Within(NoSpace, 0)
      BY <1>8, NoSpaceEmpty, WithinMapped
    <3> QED
      BY <1>9, <1>10, <2>1, <2>2, <3>1, NoSpaceEmpty, NoneInHand DEF Progress, Calling
<1>15. pgdir[InitProc] = d
  BY <1>1
<1> QED
  BY <1>8, <1>11, <1>12, <1>13, <1>14, <1>15 DEF VmInv

\* The inductive invariant of user memory.
THEOREM VmInvariance == VmSpec => []VmInv
<1>1. VmInv /\ [VmNext]_vmVars => VmInv'
  <2> SUFFICES ASSUME VmInv, [VmNext]_vmVars PROVE VmInv'
    OBVIOUS
  <2>1. CASE UNCHANGED vmVars
    BY <2>1, StoreStep DEF vmVars
  <2>2. CASE VmNext
    <3>1. PICK p \in Procs :
            \/ Setupkvm(p) \/ TakePage(p) \/ MapPage(p) \/ AllocFails(p)
            \/ Grown(p) \/ Forked(p) \/ Exited(p) \/ ExecLoad(p) \/ ExecBad(p)
            \/ \E n \in Increments : Grow(p, n) \/ Shrink(p, n) \/ GiveUpAll(p, n)
            \/ \E c \in Procs : Fork(p, c)
            \/ \E f \in Programs : ExecStart(p, f)
            \/ \E x \in Vals : ExecCommit(p, x)
            \/ \E a \in Targets, x \in Vals : Store(p, a, x)
      BY <2>2 DEF VmNext
    <3>2. CASE \E a \in Targets, x \in Vals : Store(p, a, x)
      BY <3>2, StoreStep DEF Store
    <3> QED
      BY <3>1, <3>2, SetupStep, TakePageStep, MapPageStep, AllocFailsStep, GrownStep, ForkedStep,
         ExitedStep, ExecLoadStep, ExecBadStep, GrowStep, ShrinkStep, GiveUpAllStep, ForkStep,
         ExecStartStep, ExecCommitStep
  <2> QED
    BY <2>1, <2>2
<1> QED
  BY <1>1, VmInvInit, PTL DEF VmSpec

-----------------------------------------------------------------------------
(* User memory: every page in one place.                                    *)

\* The pages in the slots T of a table, each in one.
LEMMA PlacesCounted ==
  ASSUME NEW T, IsFiniteSet(T), NEW f \in [T -> Pages \cup {NoPage}],
         \A a, b \in T : f[a] = f[b] /\ f[a] # NoPage => a = b
  PROVE  LET S == {f[a] : a \in T} \ {NoPage} IN
         IsFiniteSet(S) /\ Cardinality(S) = Cardinality({a \in T : f[a] # NoPage})
<1> DEFINE S == {f[a] : a \in T} \ {NoPage}
           U == {a \in T : f[a] # NoPage}
           h == [a \in U |-> f[a]]
<1>1. IsFiniteSet(U)
  BY FS_Subset
<1>2. h \in Bijection(U, S)
  <2>1. h \in [U -> S]
    OBVIOUS
  <2>2. \A a, b \in U : h[a] = h[b] => a = b
    OBVIOUS
  <2>3. \A y \in S : \E a \in U : h[a] = y
    OBVIOUS
  <2> QED
    BY <2>1, <2>2, <2>3 DEF Bijection, Injection, Surjection, IsInjective
<1>3. ExistsBijection(U, S)
  BY <1>2 DEF ExistsBijection
<1> HIDE DEF U, S, h
<1>4. IsFiniteSet(S) /\ Cardinality(S) = Cardinality(U)
  BY <1>1, <1>3, FS_Bijection
<1> QED
  BY <1>4 DEF S, U

LEMMA SpaceCounted ==
  ASSUME NEW s \in SpaceType, Apart(s)
  PROVE  Cardinality(PagesOf(s)) = UsedBy(s)
<1> DEFINE A == {s.pde[d] : d \in Tables} \ {NoPage}
           B == {s.pte[v] : v \in VPNs} \ {NoPage}
           a == Cardinality({d \in Tables : s.pde[d] # NoPage})
           b == Cardinality({v \in VPNs : s.pte[v] # NoPage})
<1>1. IsFiniteSet(Tables) /\ IsFiniteSet(VPNs)
  BY FS_Interval, VmSizes DEF Tables, VPNs
<1>2. s.pde \in [Tables -> Pages \cup {NoPage}] /\ s.pte \in [VPNs -> Pages \cup {NoPage}]
      /\ s.kvm \in SUBSET Pages
  BY DEF SpaceType
<1>3. IsFiniteSet(A) /\ Cardinality(A) = a
  BY <1>1, <1>2, PlacesCounted DEF Apart
<1>4. IsFiniteSet(B) /\ Cardinality(B) = b
  BY <1>1, <1>2, PlacesCounted DEF Apart
<1>5. IsFiniteSet(s.kvm)
  BY <1>2, FS_Subset
<1>6. PagesOf(s) = s.kvm \cup (A \cup B)
  BY DEF PagesOf, Tables
<1>7. A \cap B = {} /\ s.kvm \cap (A \cup B) = {}
  BY DEF Apart
<1>8. UsedBy(s) = Cardinality(s.kvm) + a + b
  BY DEF UsedBy, Tables
<1> HIDE DEF A, B, a, b
<1>9. IsFiniteSet(A \cup B) /\ Cardinality(A \cup B) = a + b - 0
  BY <1>3, <1>4, <1>7, FS_Union, FS_EmptySet
<1>10. Cardinality(s.kvm \cup (A \cup B)) = Cardinality(s.kvm) + Cardinality(A \cup B) - 0
  BY <1>5, <1>7, <1>9, FS_Union, FS_EmptySet
<1>11. a \in Nat /\ b \in Nat /\ Cardinality(s.kvm) \in Nat
  BY <1>3, <1>4, <1>5, FS_CardinalityType
<1> QED
  BY <1>6, <1>8, <1>9, <1>10, <1>11

\* setupkvm(), allocuvm(), deallocuvm(), copyuvm(), freevm() and exec() (vm.c, exec.c)
\* keep every page in one place and every process with the pages of its size,
\* wherever memory runs out, for any number of processes and pages.
THEOREM VmMemorySound == VmSpec => []MemorySound
<1>1. ASSUME VmInv PROVE MemorySound
  <2>1. VmType /\ PagesDivided /\ TablesApart
    BY <1>1 DEF VmInv
  <2>2. Divided(free, Held, Making) /\ \A p \in Procs : Held[p] = PagesOf(pgdir[p]) /\ Making[p] = PagesOf(new[p]) \cup InHand(p)
    BY <2>1, HoldingsType DEF PagesDivided, Made, InHand
  <2>3. ASSUME NEW x \in Spaces
        PROVE  \E p \in Procs : \/ x = <<p, "pgdir">> /\ SpaceOf(x) = pgdir[p]
                                \/ x = <<p, "new">> /\ SpaceOf(x) = new[p]
    BY DEF Spaces, SpaceOf
  <2>4. ASSUME NEW p \in Procs
        PROVE  /\ <<p, "pgdir">> \in Spaces /\ SpaceOf(<<p, "pgdir">>) = pgdir[p]
               /\ <<p, "new">> \in Spaces /\ SpaceOf(<<p, "new">>) = new[p]
    BY DEF Spaces, SpaceOf
  <2>5. ASSUME NEW x \in Spaces
        PROVE  /\ PagesOf(SpaceOf(x)) \cap free = {}
               /\ Cardinality(PagesOf(SpaceOf(x))) = UsedBy(SpaceOf(x))
               /\ PagesOf(SpaceOf(x)) \subseteq Pages
               /\ \A y \in Spaces \ {x} : PagesOf(SpaceOf(x)) \cap PagesOf(SpaceOf(y)) = {}
               /\ \A p \in Procs : PagesOf(SpaceOf(x)) \cap InHand(p) = {}
    <3>1. SpaceOf(x) \in SpaceType /\ Apart(SpaceOf(x))
      BY <2>1, <2>3 DEF VmType, TablesApart
    <3>2. PagesOf(SpaceOf(x)) \cap free = {}
      BY <2>2, <2>3 DEF Divided
    <3>3. ASSUME NEW y \in Spaces \ {x} PROVE PagesOf(SpaceOf(x)) \cap PagesOf(SpaceOf(y)) = {}
      <4>1. PICK p \in Procs : \/ x = <<p, "pgdir">> /\ SpaceOf(x) = pgdir[p]
                               \/ x = <<p, "new">> /\ SpaceOf(x) = new[p]
        BY <2>3
      <4>2. PICK q \in Procs : \/ y = <<q, "pgdir">> /\ SpaceOf(y) = pgdir[q]
                               \/ y = <<q, "new">> /\ SpaceOf(y) = new[q]
        BY <2>3
      <4> QED
        BY <4>1, <4>2, <2>2 DEF Divided
    <3>4. ASSUME NEW p \in Procs PROVE PagesOf(SpaceOf(x)) \cap InHand(p) = {}
      <4>1. PICK q \in Procs : \/ x = <<q, "pgdir">> /\ SpaceOf(x) = pgdir[q]
                               \/ x = <<q, "new">> /\ SpaceOf(x) = new[q]
        BY <2>3
      <4>2. CASE SpaceOf(x) = pgdir[q]
        BY <4>2, <2>2 DEF Divided
      <4>3. CASE SpaceOf(x) = new[q] /\ q # p
        BY <4>3, <2>2 DEF Divided
      <4>4. CASE SpaceOf(x) = new[q] /\ q = p
        <5>1. job[p].page # NoPage => job[p].page \notin PagesOf(new[p])
          BY <1>1, OneProcess DEF Progress
        <5> QED
          BY <4>4, <5>1 DEF InHand
      <4> QED
        BY <4>1, <4>2, <4>3, <4>4
    <3> QED
      BY <3>1, <3>2, <3>3, <3>4, SpaceCounted, PagesOfSubset
  <2>6. ASSUME NEW g
        PROVE  g \in Pages <=> \/ g \in free
                               \/ \E x \in Spaces : g \in PagesOf(SpaceOf(x))
                               \/ \E p \in Procs : g \in InHand(p)
    <3>1. ASSUME g \in Pages, g \notin free
          PROVE  \/ \E x \in Spaces : g \in PagesOf(SpaceOf(x))
                 \/ \E p \in Procs : g \in InHand(p)
      <4>1. PICK p \in Procs : g \in PagesOf(pgdir[p]) \/ g \in PagesOf(new[p]) \/ g \in InHand(p)
        BY <2>2, <3>1 DEF Divided
      <4> QED
        BY <4>1, <2>4
    <3>2. \A p \in Procs : InHand(p) \subseteq Pages
      BY <1>1, OneProcess DEF InHand
    <3> QED
      BY <2>1, <2>5, <3>1, <3>2 DEF VmType
  <2>7. PagesOnce
    <3>1. Pages = free \cup (UNION {PagesOf(SpaceOf(x)) : x \in Spaces}) \cup (UNION {InHand(p) : p \in Procs})
      BY <2>6
    <3>2. /\ \A p \in Procs : InHand(p) \cap free = {}
          /\ \A p, q \in Procs : p # q => InHand(p) \cap InHand(q) = {}
      BY <2>2 DEF Divided
    <3> QED
      BY <2>5, <3>1, <3>2 DEF PagesOnce
  <2>8. SizeMapped
    <3>1. SUFFICES ASSUME NEW p \in Procs
                   PROVE  /\ job[p].call # "sbrk" => \A v \in VPNs :
                               /\ pgdir[p].pte[v] # NoPage => v * PGSIZE < sz[p]
                               /\ v * PGSIZE < sz[p] => pgdir[p].pte[v] # NoPage \/ pgdir[p].pte[0] = NoPage
                          /\ Extending(p) => Extended(p).pte[job[p].at] = NoPage
      BY DEF SizeMapped
    <3>2. Progress(job[p], pgdir[p], new[p], sz[p]) /\ sz[p] \in Nat
      BY <1>1, OneProcess
    <3>3. ASSUME NEW v \in VPNs, job[p].call # "sbrk"
          PROVE  /\ pgdir[p].pte[v] # NoPage => v * PGSIZE < sz[p]
                 /\ v * PGSIZE < sz[p] => pgdir[p].pte[v] # NoPage \/ pgdir[p].pte[0] = NoPage
      BY <3>2, <3>3, RoundUp, VmSizes DEF Progress, Within, Whole
    <3>4. ASSUME Extending(p) PROVE Extended(p).pte[job[p].at] = NoPage
      <4>1. job[p].at \in VPNs /\ Within(Extended(p), job[p].at)
        BY <1>1, <3>4, ExtendingFacts
      <4> DEFINE s == Extended(p)
                 v == job[p].at
      <4>2. v \in VPNs /\ v \in Nat /\ Within(s, v)
        BY <4>1, VmSizes
      <4> HIDE DEF s, v
      <4>3. ~(v < v)
        BY <4>2
      <4>4. s.pte[v] = NoPage
        BY <4>2, <4>3 DEF Within
      <4> QED
        BY <4>4 DEF s, v
    <3> QED
      BY <3>3, <3>4
  <2> QED
    BY <2>7, <2>8 DEF MemorySound
<1> QED
  BY <1>1, VmInvariance, PTL

-----------------------------------------------------------------------------
(* User memory: contents.                                                   *)

Contents == [Pages -> [Offsets -> Vals \cup {Junk}]]

\* What the pages of a call under way hold, in memory M: zeroes, a copy of the
\* parent's page, or the program.
Filling(j, d, n, z, M) ==
  /\ j.call = "sbrk" => \A v \in VPNs : PGROUNDUP(z) <= v /\ v < j.at => M[d.pte[v]] = Zeroes
  /\ j.call = "fork" => \A v \in VPNs : v < j.at => M[n.pte[v]] = M[d.pte[v]]
  /\ j.call = "exec" => \A v \in VPNs : v < j.at => M[n.pte[v]] = Zeroes
  /\ j.call = "stack" => \A v \in VPNs :
       /\ v < ProgPages(j.prog) => M[n.pte[v]] = Loaded(Zeroes, j.prog, v)
       /\ ProgPages(j.prog) <= v /\ v < j.at => M[n.pte[v]] = Zeroes
  /\ j.page # NoPage => M[j.page] = IF j.call = "fork" THEN M[d.pte[j.at]] ELSE Zeroes

VmData ==
  /\ mem \in Contents
  /\ \A p \in Procs : Filling(job[p], pgdir[p], new[p], sz[p], mem)

\* What a process sees.
ImageIn(M, d, z) == [a \in Shows(d, z) |-> M[d.pte[a \div PGSIZE]][a % PGSIZE]]
ShownOf(M, d, z) == IF d # NoSpace THEN ImageIn(M, d, z) ELSE NoImage
Shown == [p \in Procs |-> IF Lives(p) THEN Image(p) ELSE NoImage]

\* Page and offset of an address.
LEMMA AddrSplit ==
  ASSUME NEW n \in 0 .. NPD * NPT, NEW a \in 0 .. n * PGSIZE - 1
  PROVE  /\ a \div PGSIZE \in VPNs /\ a \div PGSIZE < n /\ a % PGSIZE \in Offsets
         /\ a \in Nat /\ a = (a \div PGSIZE) * PGSIZE + (a % PGSIZE)
<1> DEFINE q == a \div PGSIZE
           r == a % PGSIZE
<1>1. n * PGSIZE \in Int
  BY VmSizes
<1>2. a \in Nat /\ a < n * PGSIZE
  BY <1>1
<1>3. a = PGSIZE * q + r /\ q \in Int /\ r \in 0 .. PGSIZE - 1 /\ q >= 0
  BY <1>2
<1> HIDE DEF q, r
<1>4. PGSIZE * q = q * PGSIZE /\ q * PGSIZE \in Int
  BY <1>3
<1>5. q * PGSIZE < n * PGSIZE
  BY <1>1, <1>2, <1>3, <1>4
<1>6. q < n
  BY <1>3, <1>5, MulLess
<1>7. q \in VPNs
  BY <1>3, <1>6, VmSizes DEF VPNs
<1>8. q \in VPNs /\ q < n /\ r \in Offsets /\ a \in Nat /\ a = q * PGSIZE + r
  BY <1>2, <1>3, <1>4, <1>6, <1>7 DEF Offsets
<1> QED
  BY <1>8 DEF q, r

\* Two page tables with the same contents below a size show the same.
LEMMA SameImage ==
  ASSUME NEW z \in 0 .. KERNBASE, NEW d, NEW e, NEW M, NEW N,
         \A v \in VPNs : v < PGROUNDUP(z) => /\ d.pte[v] = NoPage <=> e.pte[v] = NoPage
                                             /\ d.pte[v] # NoPage => M[d.pte[v]] = N[e.pte[v]]
  PROVE  ImageIn(M, d, z) = ImageIn(N, e, z)
<1>1. PGROUNDUP(z) \in 0 .. NPD * NPT
  BY RoundUpBound
<1>2. Shows(d, z) = Shows(e, z)
  BY <1>1, AddrSplit DEF Shows
<1>3. ASSUME NEW a \in Shows(d, z)
      PROVE  M[d.pte[a \div PGSIZE]][a % PGSIZE] = N[e.pte[a \div PGSIZE]][a % PGSIZE]
  <2>1. a \in 0 .. PGROUNDUP(z) * PGSIZE - 1 /\ d.pte[a \div PGSIZE] # NoPage
    BY DEF Shows
  <2>2. a \div PGSIZE \in VPNs /\ a \div PGSIZE < PGROUNDUP(z)
    BY <1>1, <2>1, AddrSplit
  <2> QED
    BY <2>1, <2>2
<1> QED
  BY <1>2, <1>3 DEF ImageIn

\* A page table with the first page shows everything below the size.
LEMMA WholeShows ==
  ASSUME NEW z \in 0 .. KERNBASE, NEW d, NEW n \in Nat, Within(d, n), PGROUNDUP(z) <= n
  PROVE  /\ Whole(d) => Shows(d, z) = 0 .. PGROUNDUP(z) * PGSIZE - 1
         /\ ~Whole(d) => 0 \notin Shows(d, z)
<1>1. PGROUNDUP(z) \in 0 .. NPD * NPT /\ PGROUNDUP(z) \in Nat
  BY RoundUpBound, VmSizes
<1>2. ASSUME Whole(d), NEW a \in 0 .. PGROUNDUP(z) * PGSIZE - 1 PROVE d.pte[a \div PGSIZE] # NoPage
  <2>1. a \div PGSIZE \in VPNs /\ a \div PGSIZE < PGROUNDUP(z)
    BY <1>1, AddrSplit
  <2>2. a \div PGSIZE < n
    BY <1>1, <2>1, VmSizes
  <2> QED
    BY <1>2, <2>1, <2>2 DEF Within
<1>3. 0 \div PGSIZE = 0
  OBVIOUS
<1> QED
  BY <1>2, <1>3 DEF Shows, Whole

\* An image is a function, no NoImage.
LEMMA ImageType ==
  ASSUME NEW z \in 0 .. KERNBASE, NEW d \in SpaceType, NEW M \in Contents
  PROVE  /\ ImageIn(M, d, z) \in [Shows(d, z) -> Vals \cup {Junk}]
         /\ ImageIn(M, d, z) # NoImage
<1> DEFINE n == PGROUNDUP(z)
<1>1. n \in 0 .. NPD * NPT /\ n \in Nat
  BY RoundUpBound, VmSizes
<1>2. ASSUME NEW a \in Shows(d, z)
      PROVE  M[d.pte[a \div PGSIZE]][a % PGSIZE] \in Vals \cup {Junk}
  <2>1. a \in 0 .. n * PGSIZE - 1 /\ d.pte[a \div PGSIZE] # NoPage
    BY DEF Shows
  <2>2. a \div PGSIZE \in VPNs /\ a % PGSIZE \in Offsets
    BY <1>1, <2>1, AddrSplit
  <2>3. d.pte[a \div PGSIZE] \in Pages
    BY <2>1, <2>2 DEF SpaceType
  <2> QED
    BY <2>2, <2>3 DEF Contents
<1>3. ImageIn(M, d, z) \in [Shows(d, z) -> Vals \cup {Junk}]
  BY <1>2 DEF ImageIn
<1>4. Shows(d, z) \in SUBSET (0 .. KERNBASE - 1)
  <2>1. 0 .. n * PGSIZE - 1 \subseteq 0 .. KERNBASE - 1
    <3>1. n * PGSIZE \in Nat /\ KERNBASE \in Nat /\ NPD * NPT \in Nat
      BY <1>1, VmSizes
    <3> HIDE DEF n
    <3>2. n = NPD * NPT \/ n < NPD * NPT
      BY <1>1, <3>1
    <3>3. n * PGSIZE <= KERNBASE
      BY <1>1, <3>1, <3>2, MulLess DEF KERNBASE
    <3> QED
      BY <3>1, <3>3
  <2> QED
    BY <2>1 DEF Shows
<1>5. ImageIn(M, d, z) # NoImage
  BY <1>3, <1>4, ProgramsAssumption
<1> QED
  BY <1>3, <1>5

\* Mapped pages of a page table.
LEMMA MappedPages ==
  ASSUME NEW d \in SpaceType, NEW n \in Nat, Mapped(d, n), NEW v \in VPNs, v < n
  PROVE  d.pte[v] \in Pages /\ d.pte[v] \in PagesOf(d)
<1>1. d.pte[v] # NoPage /\ d.pte[v] \in Pages \cup {NoPage}
  BY DEF Mapped, SpaceType
<1> QED
  BY <1>1, InPagesOf

\* Filling and images depend on the pages of the process only.
LEMMA FillingKept ==
  ASSUME NEW d \in SpaceType, NEW n \in SpaceType, NEW z \in 0 .. KERNBASE, NEW j \in JobType,
         Progress(j, d, n, z), NEW M, NEW N,
         \A g \in PagesOf(d) \cup Made(n, j) : M[g] = N[g], Filling(j, d, n, z, M)
  PROVE  Filling(j, d, n, z, N)
<1>1. j.at \in Nat /\ z \in Nat /\ PGROUNDUP(z) \in Nat /\ PGROUNDUP(z) \in 0 .. NPD * NPT
  BY RoundUp, RoundUpBound, VmSizes DEF JobType
<1>2. \A g \in PagesOf(n) : M[g] = N[g]
  BY DEF Made
<1>3. CASE j.call = "sbrk"
  <2>1. ASSUME NEW v \in VPNs, PGROUNDUP(z) <= v, v < j.at PROVE M[d.pte[v]] = N[d.pte[v]]
    <3>1. d.pte[v] # NoPage
      BY <1>3, <2>1 DEF Progress
    <3> QED
      BY <2>1, <3>1, InPagesOf
  <2>2. j.page # NoPage => M[j.page] = N[j.page]
    BY DEF Made
  <2> QED
    BY <1>3, <2>1, <2>2 DEF Filling
<1>4. CASE j.call = "fork"
  <2>1. Within(d, PGROUNDUP(z)) /\ Mapped(n, j.at) /\ j.at <= PGROUNDUP(z) /\ (0 < j.at => Whole(d))
    BY <1>4 DEF Progress
  <2>2. ASSUME NEW v \in VPNs, v < PGROUNDUP(z), Whole(d) PROVE M[d.pte[v]] = N[d.pte[v]]
    <3>1. Mapped(d, PGROUNDUP(z))
      BY <1>1, <2>1, <2>2, WithinMapped
    <3> QED
      BY <1>1, <2>2, <3>1, MappedPages
  <2>3. ASSUME NEW v \in VPNs, v < j.at PROVE N[n.pte[v]] = N[d.pte[v]]
    <3>1. v < PGROUNDUP(z) /\ 0 < j.at
      BY <1>1, <2>1, <2>3, VmSizes
    <3>2. M[n.pte[v]] = N[n.pte[v]]
      BY <1>1, <1>2, <2>1, <2>3, MappedPages
    <3>3. M[n.pte[v]] = M[d.pte[v]]
      BY <1>4, <2>3 DEF Filling
    <3> QED
      BY <2>1, <2>2, <3>1, <3>2, <3>3
  <2>4. ASSUME j.page # NoPage PROVE N[j.page] = N[d.pte[j.at]]
    <3>1. j.at < PGROUNDUP(z) /\ Whole(d)
      BY <1>4, <2>4 DEF Progress
    <3>2. j.at \in VPNs
      BY <1>1, <3>1, VmSizes DEF VPNs
    <3>3. M[j.page] = N[j.page]
      BY <2>4 DEF Made
    <3>4. M[j.page] = M[d.pte[j.at]]
      BY <1>4, <2>4 DEF Filling
    <3> QED
      BY <2>2, <3>1, <3>2, <3>3, <3>4
  <2> QED
    BY <1>4, <2>3, <2>4 DEF Filling
<1>5. CASE j.call \in {"exec", "stack"}
  <2>1. Mapped(n, j.at) /\ (j.call = "stack" => ProgPages(j.prog) <= j.at /\ j.prog \in Programs)
    BY <1>5 DEF Progress
  <2>2. ASSUME NEW v \in VPNs, v < j.at PROVE M[n.pte[v]] = N[n.pte[v]]
    BY <1>1, <1>2, <2>1, <2>2, MappedPages
  <2>3. j.call = "stack" => ProgPages(j.prog) \in Nat
    BY <2>1, RoundUp, FS_CardinalityType, ProgramsAssumption DEF ProgPages
  <2>4. j.call = "stack" => \A v \in VPNs : v < ProgPages(j.prog) => v < j.at
    BY <1>1, <2>1, <2>3, VmSizes
  <2>5. j.page # NoPage => M[j.page] = N[j.page]
    BY DEF Made
  <2> QED
    BY <1>5, <2>2, <2>4, <2>5 DEF Filling
<1>6. CASE j.call \in {"none", "bad"}
  <2>1. j.page = NoPage
    BY <1>6 DEF Progress
  <2> QED
    BY <1>6, <2>1 DEF Filling
<1> QED
  BY <1>3, <1>4, <1>5, <1>6 DEF JobType

LEMMA ShownIs ==
  ASSUME VmType
  PROVE  \A p \in Procs : Shown[p] = ShownOf(mem, pgdir[p], sz[p])
BY DEF Shown, ShownOf, ImageIn, Image, Lives

\* A step of process p writes to free pages and its own.
WritesOwn(p) ==
  \A g \in Pages : g \in free \/ g \in PagesOf(pgdir[p]) \/ g \in Made(new[p], job[p]) \/ mem'[g] = mem[g]

\* A step of a process that changes what is its own does not show elsewhere.
OwnChange(p, d, n, z, j) ==
  /\ d \in SpaceType /\ n \in SpaceType /\ z \in 0 .. KERNBASE /\ j \in JobType
  /\ pgdir' = [pgdir EXCEPT ![p] = d] /\ new' = [new EXCEPT ![p] = n]
  /\ sz' = [sz EXCEPT ![p] = z] /\ job' = [job EXCEPT ![p] = j]
  /\ mem' \in Contents /\ WritesOwn(p) /\ Filling(j, d, n, z, mem')

LEMMA OthersSame ==
  ASSUME VmInv, VmData, VmInv', NEW p \in Procs, NEW d, NEW n, NEW z, NEW j, OwnChange(p, d, n, z, j)
  PROVE  VmData' /\ Shown' = [Shown EXCEPT ![p] = ShownOf(mem', d, z)]
<1> USE DEF OwnChange
<1>1. VmType /\ VmType' /\ Divided(free, Held, Making)
  BY DEF VmInv, PagesDivided
<1>2. /\ \A q \in Procs : pgdir'[q] = IF q = p THEN d ELSE pgdir[q]
      /\ \A q \in Procs : new'[q] = IF q = p THEN n ELSE new[q]
      /\ \A q \in Procs : sz'[q] = IF q = p THEN z ELSE sz[q]
      /\ \A q \in Procs : job'[q] = IF q = p THEN j ELSE job[q]
  BY <1>1 DEF VmType
<1>3. ASSUME NEW q \in Procs, q # p
      PROVE  /\ Filling(job[q], pgdir[q], new[q], sz[q], mem')
             /\ ShownOf(mem', pgdir[q], sz[q]) = ShownOf(mem, pgdir[q], sz[q])
  <2>1. /\ pgdir[q] \in SpaceType /\ new[q] \in SpaceType /\ sz[q] \in 0 .. KERNBASE /\ job[q] \in JobType
        /\ Progress(job[q], pgdir[q], new[q], sz[q])
        /\ Held[q] = PagesOf(pgdir[q]) /\ Making[q] = Made(new[q], job[q])
        /\ Held[p] = PagesOf(pgdir[p]) /\ Making[p] = Made(new[p], job[p])
    BY OneProcess
  <2>2. PagesOf(pgdir[q]) \subseteq Pages /\ Made(new[q], job[q]) \subseteq Pages
    BY <1>1, <2>1, HoldingsType DEF Holdings
  <2>3. ASSUME NEW g \in PagesOf(pgdir[q]) \cup Made(new[q], job[q]) PROVE mem[g] = mem'[g]
    <3>1. g \in Pages /\ g \notin free /\ g \notin PagesOf(pgdir[p]) /\ g \notin Made(new[p], job[p])
      BY <1>1, <1>3, <2>1, <2>2 DEF Divided
    <3> QED
      BY <3>1 DEF WritesOwn
  <2>4. Filling(job[q], pgdir[q], new[q], sz[q], mem)
    BY DEF VmData
  <2>5. Filling(job[q], pgdir[q], new[q], sz[q], mem')
    BY <2>1, <2>3, <2>4, FillingKept
  <2>6. \A v \in VPNs : pgdir[q].pte[v] # NoPage => mem'[pgdir[q].pte[v]] = mem[pgdir[q].pte[v]]
    <3>1. ASSUME NEW v \in VPNs, pgdir[q].pte[v] # NoPage PROVE pgdir[q].pte[v] \in PagesOf(pgdir[q])
      BY <2>1, <3>1, InPagesOf
    <3> QED
      BY <2>3, <3>1
  <2>7. ImageIn(mem', pgdir[q], sz[q]) = ImageIn(mem, pgdir[q], sz[q])
    BY <2>1, <2>6, SameImage
  <2> QED
    BY <2>5, <2>7 DEF ShownOf
<1>4. VmData'
  <2>1. ASSUME NEW q \in Procs PROVE Filling(job'[q], pgdir'[q], new'[q], sz'[q], mem')
    BY <1>2, <1>3
  <2> QED
    BY <2>1 DEF VmData
<1>5. Shown' = [Shown EXCEPT ![p] = ShownOf(mem', d, z)]
  <2>1. \A q \in Procs : Shown'[q] = ShownOf(mem', pgdir'[q], sz'[q])
    BY DEF Shown, ShownOf, ImageIn, Image, Lives
  <2>2. \A q \in Procs : Shown'[q] = IF q = p THEN ShownOf(mem', d, z) ELSE Shown[q]
    BY <2>1, <1>1, <1>2, <1>3, ShownIs
  <2> QED
    BY <2>2 DEF Shown
<1> QED
  BY <1>4, <1>5

\* What nobody sees.
UserStutters == VmData' /\ Shown' = Shown

LEMMA Unseen ==
  ASSUME VmInv, NEW p \in Procs, VmData', NEW x,
         Shown' = [Shown EXCEPT ![p] = x], x = ShownOf(mem, pgdir[p], sz[p])
  PROVE  UserStutters
<1>1. Shown[p] = x
  BY ShownIs DEF VmInv
<1> QED
  BY <1>1 DEF UserStutters, Shown

\* What kfree() does to memory.
LEMMA KfreeContents ==
  ASSUME NEW S, VmData, mem' = [g \in Pages |-> IF g \in S THEN Filled ELSE mem[g]]
  PROVE  mem' \in Contents /\ \A g \in Pages : g \in S \/ mem'[g] = mem[g]
<1>1. Filled \in [Offsets -> Vals \cup {Junk}]
  BY DEF Filled
<1> HIDE DEF Filled
<1> QED
  BY <1>1 DEF VmData, Contents

LEMMA NothingFills ==
  ASSUME NEW d, NEW n, NEW z, NEW M
  PROVE  Filling(Nothing, d, n, z, M)
BY NoneInHand DEF Filling, Nothing

\* The page table of the process stays, and the pages of it are not written to.
LEMMA QuietData ==
  ASSUME VmInv, VmData, VmInv', NEW p \in Procs, NEW n \in SpaceType, NEW j \in JobType,
         pgdir' = pgdir, sz' = sz, new' = [new EXCEPT ![p] = n], job' = [job EXCEPT ![p] = j],
         mem' \in Contents,
         \A g \in Pages : g \in free \/ g \in Made(new[p], job[p]) \/ mem'[g] = mem[g],
         Filling(j, pgdir[p], n, sz[p], mem')
  PROVE  UserStutters
<1>1. /\ pgdir[p] \in SpaceType /\ sz[p] \in 0 .. KERNBASE
      /\ pgdir' = [pgdir EXCEPT ![p] = pgdir[p]] /\ sz' = [sz EXCEPT ![p] = sz[p]]
  BY OneProcess
<1>2. WritesOwn(p)
  BY DEF WritesOwn
<1>3. VmData' /\ Shown' = [Shown EXCEPT ![p] = ShownOf(mem', pgdir[p], sz[p])]
  <2>1. OwnChange(p, pgdir[p], n, sz[p], j)
    BY <1>1, <1>2 DEF OwnChange
  <2> QED
    BY <2>1, OthersSame
<1>4. ASSUME NEW v \in VPNs, pgdir[p].pte[v] # NoPage PROVE mem'[pgdir[p].pte[v]] = mem[pgdir[p].pte[v]]
  <2>1. pgdir[p].pte[v] \in PagesOf(pgdir[p]) /\ pgdir[p].pte[v] \in Pages
    BY <1>1, <1>4, InPagesOf, PagesOfSubset
  <2>2. PagesOf(pgdir[p]) \cap Made(new[p], job[p]) = {} /\ PagesOf(pgdir[p]) \cap free = {}
    BY OneProcess
  <2> QED
    BY <2>1, <2>2
<1>5. ImageIn(mem', pgdir[p], sz[p]) = ImageIn(mem, pgdir[p], sz[p])
  BY <1>1, <1>4, SameImage
<1>6. ShownOf(mem', pgdir[p], sz[p]) = ShownOf(mem, pgdir[p], sz[p])
  BY <1>5 DEF ShownOf
<1> QED
  BY <1>3, <1>6, Unseen

LEMMA SetupData ==
  ASSUME VmInv, VmData, VmInv', NEW p \in Procs, Setupkvm(p)
  PROVE  UserStutters
<1> DEFINE n == [new[p] EXCEPT !.kvm = @ \cup {Kalloc(free)}]
<1>1. new' = [new EXCEPT ![p] = n] /\ job' = job /\ pgdir' = pgdir /\ sz' = sz /\ mem' = mem
  BY DEF Setupkvm
<1>2. n \in SpaceType /\ n.pte = new[p].pte
  <2>1. n \in SpaceType
    BY <1>1 DEF VmInv, VmType
  <2> QED
    BY <2>1, OneProcess DEF SpaceType
<1> HIDE DEF n
<1>3. Filling(job[p], pgdir[p], new[p], sz[p], mem)
  BY DEF VmData
<1>4. Filling(job[p], pgdir[p], n, sz[p], mem')
  BY <1>1, <1>2, <1>3 DEF Filling
<1>5. job[p] \in JobType /\ job' = [job EXCEPT ![p] = job[p]] /\ mem' \in Contents
  BY <1>1, OneProcess DEF VmData
<1> QED
  BY <1>1, <1>2, <1>4, <1>5, QuietData

\* The page in hand is filled.
LEMMA TakePageData ==
  ASSUME VmInv, VmData, VmInv', NEW p \in Procs, TakePage(p)
  PROVE  UserStutters
<1> DEFINE j == job[p]
           g == Kalloc(free)
           i == [j EXCEPT !.page = g]
           c == Fresh(p, g)
<1>1. /\ Extending(p) /\ j.page = NoPage /\ Copyable(p) /\ free # {}
      /\ mem' = [mem EXCEPT ![g] = c]
      /\ job' = [job EXCEPT ![p] = i] /\ pgdir' = pgdir /\ sz' = sz /\ new' = new
  BY DEF TakePage, NeedsPage
<1>2. g \in free
  BY <1>1, KallocTakes
<1>3. /\ free \in SUBSET Pages /\ new[p] \in SpaceType /\ pgdir[p] \in SpaceType
      /\ sz[p] \in 0 .. KERNBASE /\ j \in JobType /\ new = [new EXCEPT ![p] = new[p]]
      /\ PagesOf(pgdir[p]) \cap free = {} /\ Made(new[p], j) \cap free = {}
      /\ Progress(j, pgdir[p], new[p], sz[p])
  BY OneProcess
<1>4. j.at \in VPNs
  BY <1>1, ExtendingFacts
<1>5. mem \in Contents /\ Filling(j, pgdir[p], new[p], sz[p], mem)
  BY DEF VmData
<1>6. g \in Pages /\ g \notin PagesOf(pgdir[p]) /\ g \notin Made(new[p], j)
  BY <1>2, <1>3
<1>7. /\ c = IF j.call = "fork" THEN mem[pgdir[p].pte[j.at]] ELSE Zeroes
      /\ j.call = "fork" => pgdir[p].pte[j.at] # NoPage
  BY <1>1 DEF Fresh, Copyable
<1>8. j.call = "fork" => pgdir[p].pte[j.at] \in Pages /\ pgdir[p].pte[j.at] # g
  BY <1>3, <1>4, <1>6, <1>7, InPagesOf, PagesOfSubset
<1> HIDE DEF c, g
<1>9. /\ i \in JobType /\ i.call = j.call /\ i.at = j.at /\ i.to = j.to /\ i.prog = j.prog /\ i.page = g
  BY <1>3, <1>6 DEF JobType
<1> HIDE DEF i, j
<1>10. c \in [Offsets -> Vals \cup {Junk}]
  <2>1. Zeroes \in [Offsets -> Vals \cup {Junk}]
    BY DEF Zeroes
  <2> QED
    BY <1>5, <1>7, <1>8, <2>1 DEF Contents
<1>11. mem' \in Contents /\ mem'[g] = c /\ \A h \in Pages : h # g => mem'[h] = mem[h]
  BY <1>1, <1>5, <1>6, <1>10 DEF Contents
<1>12. Filling(j, pgdir[p], new[p], sz[p], mem')
  <2>1. PagesOf(pgdir[p]) \subseteq Pages /\ Made(new[p], j) \subseteq Pages
    BY HoldingsType DEF VmInv, Holdings, j
  <2>2. \A h \in PagesOf(pgdir[p]) \cup Made(new[p], j) : mem[h] = mem'[h]
    BY <1>6, <1>11, <2>1
  <2> QED
    BY <1>3, <1>5, <2>2, FillingKept
<1>13. Filling(i, pgdir[p], new[p], sz[p], mem')
  <2>1. mem'[g] = IF j.call = "fork" THEN mem'[pgdir[p].pte[j.at]] ELSE Zeroes
    BY <1>7, <1>8, <1>11
  <2> QED
    BY <1>9, <1>12, <2>1 DEF Filling
<1>14. \A h \in Pages : h \in free \/ h \in Made(new[p], job[p]) \/ mem'[h] = mem[h]
  BY <1>2, <1>11
<1>15. new' = [new EXCEPT ![p] = new[p]]
  BY <1>1, <1>3
<1> QED
  BY <1>1, <1>3, <1>9, <1>11, <1>13, <1>14, <1>15, QuietData

\* mappages() does not show before the size grows.
LEMMA MapPageData ==
  ASSUME VmInv, VmData, VmInv', NEW p \in Procs, MapPage(p)
  PROVE  UserStutters
<1> DEFINE j == job[p]
           s == Extended(p)
           v == j.at
           g == j.page
           i == [j EXCEPT !.at = @ + 1, !.page = NoPage]
<1>1. g # NoPage /\ job' = [job EXCEPT ![p] = i] /\ sz' = sz /\ mem' = mem
  BY DEF MapPage
<1>2. PICK r \in SpaceType : /\ SetExtended(p, r) /\ g \in Pages
                             /\ r.pte = [s.pte EXCEPT ![v] = g] /\ r.kvm = s.kvm
  BY MapPageSpace
<1>3. /\ j.call \in {"sbrk", "fork", "exec", "stack"} /\ v \in VPNs /\ pgdir[p] # NoSpace /\ s \in SpaceType
  BY <1>1, ExtendingFacts
<1>4. /\ new[p] \in SpaceType /\ pgdir[p] \in SpaceType /\ sz[p] \in 0 .. KERNBASE /\ sz[p] \in Nat
      /\ j \in JobType /\ v \in Nat /\ sz = [sz EXCEPT ![p] = sz[p]]
      /\ pgdir = [pgdir EXCEPT ![p] = pgdir[p]] /\ new = [new EXCEPT ![p] = new[p]]
      /\ Progress(j, pgdir[p], new[p], sz[p]) /\ Calling(j, pgdir[p], new[p], sz[p])
  BY OneProcess
<1>5. i \in JobType
  BY <1>1, <1>4 DEF VmInv, VmType
<1>6. i.call = j.call /\ i.prog = j.prog /\ i.at = v + 1 /\ i.page = NoPage
  <2>1. j \in JobType
    BY <1>4
  <2> QED
    BY <2>1 DEF JobType
<1>7. s = IF j.call = "sbrk" THEN pgdir[p] ELSE new[p]
  BY DEF Extended
<1>8. mem \in Contents /\ Filling(j, pgdir[p], new[p], sz[p], mem)
  BY DEF VmData
<1>9. IF j.call = "sbrk" THEN pgdir' = [pgdir EXCEPT ![p] = r] /\ new' = new
      ELSE new' = [new EXCEPT ![p] = r] /\ pgdir' = pgdir
  BY <1>2 DEF SetExtended
<1>10. mem[g] = IF j.call = "fork" THEN mem[pgdir[p].pte[v]] ELSE Zeroes
  BY <1>1, <1>8 DEF Filling
<1> HIDE DEF i, s, g
<1>11. \A w \in VPNs : /\ r.pte[w] = (IF w = v THEN g ELSE s.pte[w])
                       /\ w < v + 1 => w < v \/ w = v
  <2>1. \A w \in VPNs : w \in Nat
    BY VmSizes
  <2>2. s.pte \in [VPNs -> Pages \cup {NoPage}]
    BY <1>3 DEF SpaceType
  <2> QED
    BY <1>2, <1>3, <1>4, <2>1, <2>2
<1> HIDE DEF j
<1>12. CASE j.call = "sbrk"
  <2>1. PGROUNDUP(sz[p]) \in Nat /\ PGROUNDUP(sz[p]) <= v
    <3>1. PGROUNDUP(sz[p]) \in Nat
      BY <1>4, RoundUp
    <3> QED
      BY <1>4, <1>12, <3>1 DEF Progress
  <2>2. Filling(i, r, new[p], sz[p], mem')
    <3>1. ASSUME NEW w \in VPNs, PGROUNDUP(sz[p]) <= w, w < v + 1 PROVE mem[r.pte[w]] = Zeroes
      <4>1. CASE w < v
        BY <1>4, <1>7, <1>8, <1>11, <1>12, <3>1, <4>1, VmSizes DEF Filling
      <4>2. CASE w = v
        BY <1>10, <1>11, <1>12, <4>2
      <4> QED
        BY <1>11, <3>1, <4>1, <4>2
    <3> QED
      BY <1>1, <1>6, <1>12, <3>1 DEF Filling
  <2>3. VmData' /\ Shown' = [Shown EXCEPT ![p] = ShownOf(mem', r, sz[p])]
    <3>1. WritesOwn(p) /\ mem' \in Contents
      BY <1>1, <1>8 DEF WritesOwn
    <3>2. OwnChange(p, r, new[p], sz[p], i)
      BY <1>1, <1>2, <1>4, <1>5, <1>9, <1>12, <2>2, <3>1 DEF OwnChange
    <3> QED
      BY <3>2, OthersSame
  <2>4. ShownOf(mem', r, sz[p]) = ShownOf(mem, pgdir[p], sz[p])
    <3>1. ASSUME NEW w \in VPNs, w < PGROUNDUP(sz[p]) PROVE r.pte[w] = pgdir[p].pte[w]
      <4>1. w \in Nat /\ w # v
        BY <1>4, <2>1, <3>1, VmSizes
      <4> QED
        BY <1>7, <1>11, <1>12, <4>1
    <3>2. ImageIn(mem', r, sz[p]) = ImageIn(mem, pgdir[p], sz[p])
      BY <1>1, <1>4, <3>1, SameImage
    <3>3. r # NoSpace
      BY <1>2, <1>3, <1>4, <1>7, <1>12, NoSpaceEmpty DEF Calling
    <3> QED
      BY <1>3, <3>2, <3>3 DEF ShownOf
  <2> QED
    BY <2>3, <2>4, Unseen
<1>13. CASE j.call # "sbrk"
  <2>1. Filling(i, pgdir[p], r, sz[p], mem')
    <3>1. CASE j.call = "fork"
      <4>1. ASSUME NEW w \in VPNs, w < v + 1 PROVE mem[r.pte[w]] = mem[pgdir[p].pte[w]]
        <5>1. CASE w < v
          BY <1>4, <1>7, <1>8, <1>11, <3>1, <5>1, VmSizes DEF Filling
        <5>2. CASE w = v
          BY <1>10, <1>11, <3>1, <5>2
        <5> QED
          BY <1>11, <4>1, <5>1, <5>2
      <4> QED
        BY <1>1, <1>6, <3>1, <4>1 DEF Filling
    <3>2. CASE j.call = "exec"
      <4>1. ASSUME NEW w \in VPNs, w < v + 1 PROVE mem[r.pte[w]] = Zeroes
        <5>1. CASE w < v
          BY <1>4, <1>7, <1>8, <1>11, <3>2, <5>1, VmSizes DEF Filling
        <5>2. CASE w = v
          BY <1>10, <1>11, <3>2, <5>2
        <5> QED
          BY <1>11, <4>1, <5>1, <5>2
      <4> QED
        BY <1>1, <1>6, <3>2, <4>1 DEF Filling
    <3>3. CASE j.call = "stack"
      <4>1. ProgPages(j.prog) <= v /\ ProgPages(j.prog) \in Nat
        BY <3>3, <1>4, RoundUp, FS_CardinalityType, ProgramsAssumption DEF Progress, ProgPages
      <4>2. ASSUME NEW w \in VPNs, w < v + 1
            PROVE  /\ w < ProgPages(j.prog) => mem[r.pte[w]] = Loaded(Zeroes, j.prog, w)
                   /\ ProgPages(j.prog) <= w => mem[r.pte[w]] = Zeroes
        <5>1. CASE w < v
          BY <1>4, <1>7, <1>8, <1>11, <3>3, <5>1, VmSizes DEF Filling
        <5>2. CASE w = v
          BY <1>4, <1>10, <1>11, <3>3, <4>1, <5>2
        <5> QED
          BY <1>11, <4>2, <5>1, <5>2
      <4>3. \A w \in VPNs : w < ProgPages(j.prog) => w < v + 1
        BY <1>4, <4>1, VmSizes
      <4> QED
        BY <1>1, <1>6, <3>3, <4>2, <4>3 DEF Filling
    <3> QED
      BY <1>3, <1>13, <3>1, <3>2, <3>3
  <2>2. mem' \in Contents /\ \A h \in Pages : mem'[h] = mem[h]
    BY <1>1, <1>8
  <2> QED
    BY <1>1, <1>2, <1>5, <1>9, <1>13, <2>1, <2>2, QuietData
<1> QED
  BY <1>12, <1>13

\* freevm() of a page table that was being made does not show.
LEMMA DropNewData ==
  ASSUME VmInv, VmData, VmInv', NEW p \in Procs, job[p].call \in {"fork", "exec", "stack", "bad"},
         Kfree(PagesOf(new[p]) \cup InHand(p)), new' = [new EXCEPT ![p] = NoSpace],
         pgdir' = pgdir, sz' = sz, job' = [job EXCEPT ![p] = Nothing]
  PROVE  UserStutters
<1>1. PagesOf(new[p]) \cup InHand(p) = Made(new[p], job[p])
  BY DEF Made, InHand
<1>2. mem' \in Contents /\ \A g \in Pages : g \in Made(new[p], job[p]) \/ mem'[g] = mem[g]
  BY <1>1, KfreeContents DEF Kfree
<1>3. Filling(Nothing, pgdir[p], NoSpace, sz[p], mem') /\ Nothing \in JobType /\ NoSpace \in SpaceType
  BY NothingFills, Callers, NoSpaceEmpty
<1> QED
  BY <1>2, <1>3, QuietData

\* deallocuvm() leaves what is below the bound it is given.
LEMMA ShrinkData ==
  ASSUME VmInv, VmData, VmInv', NEW p \in Procs, pgdir[p] # NoSpace, job[p].call \in {"none", "sbrk"},
         NEW z \in 0 .. KERNBASE, NEW a \in {0, z}, NEW b \in Nat, NEW m \in Nat, Within(pgdir[p], m),
         PGROUNDUP(a) <= m, m <= PGROUNDUP(b), Kfree(Released(pgdir[p], a, b) \cup InHand(p)),
         pgdir' = [pgdir EXCEPT ![p] = Dealloc(@, a, b)], new' = new,
         sz' = [sz EXCEPT ![p] = z], job' = [job EXCEPT ![p] = Nothing]
  PROVE  VmData' /\ Shown' = [Shown EXCEPT ![p] = ImageIn(mem, pgdir[p], a)]
<1> DEFINE d == Dealloc(pgdir[p], a, b)
           k == Released(pgdir[p], a, b)
<1>1. /\ z \in Nat /\ a \in Nat /\ pgdir[p] \in SpaceType /\ new[p] \in SpaceType /\ Apart(pgdir[p])
      /\ PGROUNDUP(z) \in Nat /\ new' = [new EXCEPT ![p] = new[p]]
      /\ PagesOf(pgdir[p]) \cap Made(new[p], job[p]) = {}
  <2>1. z \in Nat /\ a \in Nat
    BY VmSizes
  <2>2. PGROUNDUP(z) \in Nat
    BY <2>1, RoundUp
  <2> QED
    BY <2>1, <2>2, OneProcess
<1>2. /\ d \in SpaceType /\ d.kvm = pgdir[p].kvm
      /\ k \subseteq PagesOf(pgdir[p]) /\ PagesOf(d) = PagesOf(pgdir[p]) \ k
      /\ \A v \in VPNs : d.pte[v] = IF v < PGROUNDUP(a) THEN pgdir[p].pte[v] ELSE NoPage
  BY <1>1, DeallocSpace
<1>3. mem' \in Contents /\ \A g \in Pages : g \in k \/ g \in InHand(p) \/ mem'[g] = mem[g]
  BY KfreeContents DEF Kfree
<1> HIDE DEF d, k
<1>4. InHand(p) \subseteq Made(new[p], job[p])
  BY DEF InHand, Made
<1>5. WritesOwn(p)
  BY <1>2, <1>3, <1>4 DEF WritesOwn
<1>6. Nothing \in JobType /\ Filling(Nothing, d, new[p], z, mem') /\ pgdir' = [pgdir EXCEPT ![p] = d]
  BY Callers, NothingFills DEF d
<1>7. VmData' /\ Shown' = [Shown EXCEPT ![p] = ShownOf(mem', d, z)]
  <2>1. OwnChange(p, d, new[p], z, Nothing)
    BY <1>1, <1>2, <1>3, <1>5, <1>6 DEF OwnChange
  <2> QED
    BY <2>1, OthersSame
<1>8. ASSUME NEW v \in VPNs, d.pte[v] # NoPage PROVE mem'[d.pte[v]] = mem[d.pte[v]]
  <2>1. d.pte[v] \in PagesOf(d) /\ d.pte[v] \in Pages
    BY <1>2, <1>8, InPagesOf, PagesOfSubset
  <2> QED
    BY <1>1, <1>2, <1>3, <1>4, <2>1
<1>9. ImageIn(mem', d, z) = ImageIn(mem, pgdir[p], a)
  <2>1. CASE a = z
    <3>1. \A v \in VPNs : v < PGROUNDUP(z) => d.pte[v] = pgdir[p].pte[v]
      BY <1>2, <2>1
    <3> QED
      BY <1>8, <2>1, <3>1, SameImage
  <2>2. CASE a = 0
    <3>1. 0 * PGSIZE = 0
      OBVIOUS
    <3>2. PGROUNDUP(0) = 0 /\ ~(\E x \in Nat : x \in 0 .. 0 - 1)
      BY <3>1, RoundUpWhole
    <3>3. Shows(pgdir[p], 0) = {}
      BY <3>1, <3>2 DEF Shows
    <3>4. \A v \in VPNs : d.pte[v] = NoPage
      BY <1>2, <2>2, <3>2, VmSizes
    <3>5. ASSUME NEW x \in Shows(d, z) PROVE FALSE
      <4>1. PGROUNDUP(z) \in 0 .. NPD * NPT
        BY RoundUpBound
      <4>2. x \in 0 .. PGROUNDUP(z) * PGSIZE - 1 /\ d.pte[x \div PGSIZE] # NoPage
        BY DEF Shows
      <4>3. x \div PGSIZE \in VPNs
        BY <4>1, <4>2, AddrSplit
      <4> QED
        BY <3>4, <4>2, <4>3
    <3>6. Shows(d, z) = {}
      BY <3>5
    <3> QED
      BY <2>2, <3>3, <3>6 DEF ImageIn
  <2> QED
    BY <2>1, <2>2
<1>10. d # NoSpace
  <2>1. pgdir[p].kvm # {}
    BY OneProcess DEF Calling
  <2> QED
    BY <1>2, <2>1, NoSpaceEmpty
<1> QED
  BY <1>7, <1>9, <1>10 DEF ShownOf

LEMMA AllocFailsData ==
  ASSUME VmInv, VmData, VmInv', NEW p \in Procs, AllocFails(p)
  PROVE  UserStutters
<1>1. /\ job[p].call \in {"sbrk", "fork", "exec", "stack"}
      /\ job' = [job EXCEPT ![p] = Nothing] /\ sz' = sz /\ pgdir[p] # NoSpace
  <2>1. job[p].call \in {"sbrk", "fork", "exec", "stack"}
    BY ExtendingFacts DEF AllocFails, Setting, NeedsPage, NeedsTable
  <2> QED
    BY <2>1, Callers DEF AllocFails
<1>2. CASE job[p].call = "sbrk"
  <2>1. /\ Kfree(Released(pgdir[p], sz[p], job[p].to) \cup InHand(p))
        /\ pgdir' = [pgdir EXCEPT ![p] = Dealloc(@, sz[p], job[p].to)] /\ new' = new
    BY <1>2 DEF AllocFails
  <2>2. /\ Within(pgdir[p], job[p].at) /\ PGROUNDUP(sz[p]) <= job[p].at
        /\ job[p].at <= PGROUNDUP(job[p].to) /\ job[p].at \in Nat /\ job[p].to \in Nat
    <3>1. /\ Progress(job[p], pgdir[p], new[p], sz[p]) /\ sz[p] \in Nat /\ job[p].to \in Nat
          /\ job[p].at \in Nat
      BY OneProcess
    <3>2. PGROUNDUP(sz[p]) \in Nat /\ PGROUNDUP(job[p].to) \in Nat
      BY <3>1, RoundUp
    <3> QED
      BY <1>2, <3>1, <3>2 DEF Progress
  <2>3. sz' = [sz EXCEPT ![p] = sz[p]] /\ sz[p] \in 0 .. KERNBASE
    BY <1>1, OneProcess
  <2>4. VmData' /\ Shown' = [Shown EXCEPT ![p] = ImageIn(mem, pgdir[p], sz[p])]
    BY <1>1, <1>2, <2>1, <2>2, <2>3, ShrinkData
  <2>5. ImageIn(mem, pgdir[p], sz[p]) = ShownOf(mem, pgdir[p], sz[p])
    BY <1>1 DEF ShownOf
  <2> QED
    BY <2>4, <2>5, Unseen
<1>3. CASE job[p].call # "sbrk"
  <2>1. Kfree(PagesOf(new[p]) \cup InHand(p)) /\ new' = [new EXCEPT ![p] = NoSpace] /\ pgdir' = pgdir
    BY <1>3 DEF AllocFails
  <2> QED
    BY <1>1, <1>3, <2>1, DropNewData
<1> QED
  BY <1>2, <1>3

LEMMA ExecBadData ==
  ASSUME VmInv, VmData, VmInv', NEW p \in Procs, ExecBad(p)
  PROVE  UserStutters
<1>1. PagesOf(new[p]) \cup InHand(p) = PagesOf(new[p])
  BY DEF ExecBad, InHand
<1>2. Kfree(PagesOf(new[p]) \cup InHand(p))
  BY <1>1 DEF ExecBad
<1> QED
  BY <1>2, DropNewData DEF ExecBad

\* A call begins, with nothing filled.
LEMMA CallData ==
  ASSUME VmInv, VmData, VmInv', NEW p \in Procs, NEW j \in JobType, j.page = NoPage,
         j.call = "sbrk" => j.at = PGROUNDUP(sz[p]),
         j.call # "sbrk" => j.call \in {"fork", "exec"} /\ j.at = 0,
         job' = [job EXCEPT ![p] = j], mem' = mem, pgdir' = pgdir, sz' = sz, new' = new
  PROVE  UserStutters
<1>1. /\ new[p] \in SpaceType /\ new' = [new EXCEPT ![p] = new[p]] /\ PGROUNDUP(sz[p]) \in Nat
      /\ mem' \in Contents
  BY OneProcess, RoundUp DEF VmData
<1>2. \A v \in VPNs : ~(PGROUNDUP(sz[p]) <= v /\ v < PGROUNDUP(sz[p])) /\ ~(v < 0)
  BY <1>1, VmSizes
<1>3. Filling(j, pgdir[p], new[p], sz[p], mem')
  BY <1>2 DEF Filling
<1> QED
  BY <1>1, <1>3, QuietData

LEMMA GrowData ==
  ASSUME VmInv, VmData, VmInv', NEW p \in Procs, NEW n \in Increments, Grow(p, n)
  PROVE  UserStutters
<1> DEFINE j == [Nothing EXCEPT !.call = "sbrk", !.at = PGROUNDUP(sz[p]), !.to = sz[p] + n]
<1>1. n \in Int /\ n > 0 /\ sz[p] \in Nat
  BY OneProcess DEF Grow
<1>2. PGROUNDUP(sz[p]) \in Nat /\ sz[p] + n \in Nat
  BY <1>1, RoundUp
<1>3. j \in JobType /\ j.call = "sbrk" /\ j.at = PGROUNDUP(sz[p]) /\ j.page = NoPage
  BY <1>2 DEF JobType, Nothing
<1>4. job' = [job EXCEPT ![p] = j] /\ pgdir' = pgdir /\ sz' = sz /\ new' = new /\ mem' = mem
  BY DEF Grow
<1> HIDE DEF j
<1> QED
  BY <1>3, <1>4, CallData

LEMMA ForkData ==
  ASSUME VmInv, VmData, VmInv', NEW p \in Procs, NEW c \in Procs, Fork(p, c)
  PROVE  UserStutters
<1> DEFINE j == [Nothing EXCEPT !.call = "fork", !.to = sz[p], !.child = c]
<1>1. job' = [job EXCEPT ![p] = j] /\ pgdir' = pgdir /\ sz' = sz /\ new' = new /\ mem' = mem
  BY DEF Fork
<1>2. j \in JobType /\ j.call = "fork" /\ j.at = 0 /\ j.page = NoPage
  BY OneProcess DEF JobType, Nothing
<1> HIDE DEF j
<1> QED
  BY <1>1, <1>2, CallData

LEMMA ExecStartData ==
  ASSUME VmInv, VmData, VmInv', NEW p \in Procs, NEW f \in Programs, ExecStart(p, f)
  PROVE  UserStutters
<1> DEFINE j == [Nothing EXCEPT !.call = "exec", !.to = Cardinality(DOMAIN f), !.prog = f]
<1>1. job' = [job EXCEPT ![p] = j] /\ pgdir' = pgdir /\ sz' = sz /\ new' = new /\ mem' = mem
  BY DEF ExecStart
<1>2. Cardinality(DOMAIN f) \in Nat
  BY FS_CardinalityType, ProgramsAssumption
<1>3. j \in JobType /\ j.call = "exec" /\ j.at = 0 /\ j.page = NoPage
  BY <1>2 DEF JobType, Nothing
<1> HIDE DEF j
<1> QED
  BY <1>1, <1>3, CallData

-----------------------------------------------------------------------------
(* User memory: what shows.                                                 *)

\* A step of the abstract memory.
UserMoves == VmData' /\ User!MemoryNext

LEMMA PageBelow ==
  ASSUME NEW n \in 0 .. NPD * NPT, NEW a \in 0 .. n * PGSIZE - 1, NEW m \in Nat
  PROVE  a < m * PGSIZE <=> a \div PGSIZE < m
<1> DEFINE q == a \div PGSIZE
           r == a % PGSIZE
<1>1. q \in Nat /\ r \in 0 .. PGSIZE - 1 /\ a \in Nat /\ a = q * PGSIZE + r
  BY AddrSplit, VmSizes DEF Offsets
<1> HIDE DEF q, r
<1>2. q * PGSIZE \in Nat /\ m * PGSIZE \in Nat
  BY <1>1
<1>3. CASE q < m
  <2>1. (q + 1) * PGSIZE = q * PGSIZE + PGSIZE /\ q + 1 \in Nat
    BY <1>1
  <2>2. q + 1 = m \/ q + 1 < m
    BY <1>1, <1>3
  <2>3. (q + 1) * PGSIZE <= m * PGSIZE
    BY <1>2, <2>1, <2>2, MulLess
  <2>4. a < m * PGSIZE
    BY <1>1, <1>2, <2>1, <2>3
  <2> QED
    BY <1>3, <2>4 DEF q
<1>4. CASE ~(q < m)
  <2>1. m * PGSIZE <= q * PGSIZE
    BY <1>1, <1>4, MulLess
  <2>2. ~(a < m * PGSIZE)
    BY <1>1, <1>2, <2>1
  <2> QED
    BY <1>4, <2>2 DEF q
<1> QED
  BY <1>3, <1>4

\* The image of a living process.
LEMMA LivesShown ==
  ASSUME VmInv, VmData, NEW p \in Procs, pgdir[p] # NoSpace
  PROVE  /\ Shown[p] = ImageIn(mem, pgdir[p], sz[p]) /\ Shown[p] # NoImage
         /\ Shown[p] \in [Shows(pgdir[p], sz[p]) -> Vals \cup {Junk}]
<1>1. Shown[p] = ImageIn(mem, pgdir[p], sz[p])
  BY ShownIs DEF VmInv, ShownOf
<1>2. pgdir[p] \in SpaceType /\ sz[p] \in 0 .. KERNBASE /\ mem \in Contents
  BY OneProcess DEF VmData
<1> QED
  BY <1>1, <1>2, ImageType

\* An image that grows by the pages from m to n, all of them zeroes.
GrownBy(I, m, n) ==
  [a \in DOMAIN I \cup (m * PGSIZE .. n * PGSIZE - 1) |-> IF a \in DOMAIN I THEN I[a] ELSE 0]

LEMMA GrownImage ==
  ASSUME NEW y \in 0 .. KERNBASE, NEW z \in 0 .. KERNBASE, NEW d, NEW M,
         PGROUNDUP(y) <= PGROUNDUP(z),
         \A v \in VPNs : PGROUNDUP(y) <= v /\ v < PGROUNDUP(z) => d.pte[v] # NoPage /\ M[d.pte[v]] = Zeroes
  PROVE  ImageIn(M, d, z) = GrownBy(ImageIn(M, d, y), PGROUNDUP(y), PGROUNDUP(z))
<1> DEFINE m == PGROUNDUP(y)
           n == PGROUNDUP(z)
           I == ImageIn(M, d, y)
           V(a) == M[d.pte[a \div PGSIZE]][a % PGSIZE]
<1>1. m \in 0 .. NPD * NPT /\ n \in 0 .. NPD * NPT /\ m \in Nat /\ n \in Nat /\ m <= n
  BY RoundUpBound, VmSizes
<1>2. /\ Shows(d, y) = {a \in 0 .. m * PGSIZE - 1 : d.pte[a \div PGSIZE] # NoPage}
      /\ Shows(d, z) = {a \in 0 .. n * PGSIZE - 1 : d.pte[a \div PGSIZE] # NoPage}
  BY DEF Shows
<1>3. /\ DOMAIN I = Shows(d, y) /\ \A a \in Shows(d, y) : I[a] = V(a)
      /\ ImageIn(M, d, z) = [a \in Shows(d, z) |-> V(a)]
  BY DEF ImageIn
<1>4. \A v \in VPNs : m <= v /\ v < n => d.pte[v] # NoPage /\ M[d.pte[v]] = Zeroes
  OBVIOUS
<1>5. m * PGSIZE \in Nat /\ n * PGSIZE \in Nat /\ m * PGSIZE <= n * PGSIZE
  <2>1. m * PGSIZE \in Nat /\ n * PGSIZE \in Nat
    BY <1>1
  <2> HIDE DEF m, n
  <2>2. ~(n * PGSIZE < m * PGSIZE)
    BY <1>1, MulLess
  <2> QED
    BY <2>1, <2>2
<1> HIDE DEF m, n, I
<1>6. ASSUME NEW a \in m * PGSIZE .. n * PGSIZE - 1
      PROVE  a \in 0 .. n * PGSIZE - 1 /\ d.pte[a \div PGSIZE] # NoPage /\ V(a) = 0
  <2>1. a \in 0 .. n * PGSIZE - 1 /\ a \in Nat /\ ~(a < m * PGSIZE)
    BY <1>5
  <2>2. a \div PGSIZE \in VPNs /\ a \div PGSIZE < n /\ a % PGSIZE \in Offsets
    BY <1>1, <2>1, AddrSplit
  <2>3. ~(a \div PGSIZE < m)
    BY <1>1, <2>1, PageBelow
  <2>4. m <= a \div PGSIZE
    BY <1>1, <2>2, <2>3, VmSizes
  <2>5. d.pte[a \div PGSIZE] # NoPage /\ M[d.pte[a \div PGSIZE]] = Zeroes
    BY <1>4, <2>2, <2>4
  <2>6. Zeroes[a % PGSIZE] = 0
    BY <2>2 DEF Zeroes
  <2> QED
    BY <2>1, <2>5, <2>6
<1>7. ASSUME NEW a PROVE a \in Shows(d, z) <=> a \in Shows(d, y) \/ a \in m * PGSIZE .. n * PGSIZE - 1
  <2>1. ASSUME a \in 0 .. n * PGSIZE - 1 PROVE a \in 0 .. m * PGSIZE - 1 \/ a \in m * PGSIZE .. n * PGSIZE - 1
    BY <1>5, <2>1
  <2>2. ASSUME a \in 0 .. m * PGSIZE - 1 PROVE a \in 0 .. n * PGSIZE - 1
    BY <1>5, <2>2
  <2> QED
    BY <1>2, <1>6, <2>1, <2>2
<1>8. Shows(d, z) = DOMAIN I \cup (m * PGSIZE .. n * PGSIZE - 1)
  BY <1>3, <1>7
<1>9. ASSUME NEW a \in Shows(d, z) PROVE V(a) = IF a \in DOMAIN I THEN I[a] ELSE 0
  BY <1>3, <1>6, <1>7
<1>10. ImageIn(M, d, z) = [a \in DOMAIN I \cup (m * PGSIZE .. n * PGSIZE - 1) |->
                             IF a \in DOMAIN I THEN I[a] ELSE 0]
  BY <1>3, <1>8, <1>9
<1> QED
  BY <1>10 DEF m, n, I, GrownBy

LEMMA GrownData ==
  ASSUME VmInv, VmData, VmInv', NEW p \in Procs, Grown(p)
  PROVE  UserMoves
<1> DEFINE m == PGROUNDUP(sz[p])
           n == PGROUNDUP(job[p].to)
           I == Shown[p]
<1>1. job[p].call = "sbrk" /\ ~Extending(p) /\ job' = [job EXCEPT ![p] = Nothing] /\ ~Setting(p)
      /\ sz' = [sz EXCEPT ![p] = job[p].to] /\ mem' = mem /\ pgdir' = pgdir /\ new' = new
  BY DEF Grown, Setting
<1>2. job[p].at = n /\ job[p].to \in 0 .. KERNBASE /\ pgdir[p] # NoSpace
  BY <1>1, DoneAt, Callers
<1>3. OwnChange(p, pgdir[p], new[p], job[p].to, Nothing)
  <2>1. /\ pgdir[p] \in SpaceType /\ new[p] \in SpaceType /\ Nothing \in JobType
        /\ pgdir' = [pgdir EXCEPT ![p] = pgdir[p]] /\ new' = [new EXCEPT ![p] = new[p]]
    BY <1>1, OneProcess, Callers
  <2>2. mem' \in Contents /\ WritesOwn(p) /\ Filling(Nothing, pgdir[p], new[p], job[p].to, mem')
    BY <1>1, NothingFills DEF VmData, WritesOwn
  <2> QED
    BY <1>1, <1>2, <2>1, <2>2 DEF OwnChange
<1>4. VmData' /\ Shown' = [Shown EXCEPT ![p] = ShownOf(mem', pgdir[p], job[p].to)]
  BY <1>3, OthersSame
<1>5. ShownOf(mem', pgdir[p], job[p].to) = ImageIn(mem, pgdir[p], job[p].to)
  BY <1>1, <1>2 DEF ShownOf
<1>6. /\ I = ImageIn(mem, pgdir[p], sz[p]) /\ I # NoImage /\ DOMAIN I = Shows(pgdir[p], sz[p])
      /\ sz[p] \in 0 .. KERNBASE
  BY <1>2, LivesShown, OneProcess
<1>7. m \in 0 .. NPD * NPT /\ n \in 0 .. NPD * NPT /\ m \in Nat /\ n \in Nat
  BY <1>2, <1>6, RoundUpBound, VmSizes
<1>8. /\ m <= n /\ Within(pgdir[p], n)
      /\ \A v \in VPNs : m <= v /\ v < n => pgdir[p].pte[v] # NoPage /\ mem[pgdir[p].pte[v]] = Zeroes
  <2>1. Progress(job[p], pgdir[p], new[p], sz[p]) /\ Filling(job[p], pgdir[p], new[p], sz[p], mem)
    BY OneProcess DEF VmData
  <2>2. m <= n
    BY <1>1, <1>2, <1>7, <2>1 DEF Progress
  <2> QED
    BY <1>1, <1>2, <2>1, <2>2 DEF Progress, Filling
<1>9. ImageIn(mem, pgdir[p], job[p].to) =
        [a \in DOMAIN I \cup (m * PGSIZE .. n * PGSIZE - 1) |-> IF a \in DOMAIN I THEN I[a] ELSE 0]
  <2>1. ImageIn(mem, pgdir[p], job[p].to) = GrownBy(I, m, n)
    BY <1>2, <1>6, <1>8, GrownImage
  <2> HIDE DEF I, m, n
  <2> QED
    BY <2>1 DEF GrownBy
<1>10. DOMAIN I \subseteq 0 .. m * PGSIZE - 1
  BY <1>6 DEF Shows
<1>11. 0 \in DOMAIN I => DOMAIN I = 0 .. m * PGSIZE - 1
  BY <1>6, <1>7, <1>8, WholeShows
<1> HIDE DEF m, n
<1>12. Shown' = [Shown EXCEPT ![p] = [a \in DOMAIN I \cup (m * PGSIZE .. n * PGSIZE - 1) |->
                                        IF a \in DOMAIN I THEN I[a] ELSE 0]]
  BY <1>4, <1>5, <1>9
<1>13. User!Grow(p)
  BY <1>6, <1>7, <1>8, <1>10, <1>11, <1>12 DEF User!Grow, Shown
<1> QED
  BY <1>4, <1>13 DEF UserMoves, User!MemoryNext

LEMMA ShrinkStepData ==
  ASSUME VmInv, VmData, VmInv', NEW p \in Procs, NEW n \in Increments, Shrink(p, n)
  PROVE  UserMoves
<1> DEFINE z == sz[p] + n
           k == PGROUNDUP(z)
           I == Shown[p]
<1>1. n \in Int /\ n < 0 /\ z > 0 /\ sz[p] \in 0 .. KERNBASE /\ sz[p] \in Nat
  BY OneProcess DEF Shrink
<1>2. z \in 0 .. KERNBASE /\ z \in Nat /\ z <= sz[p] /\ 0 < z
  BY <1>1, VmSizes
<1>3. Ready(p) /\ pgdir[p] # NoSpace /\ job[p] = Nothing /\ job[p].call = "none"
  BY Callers DEF Shrink
<1>4. Within(pgdir[p], PGROUNDUP(sz[p]))
  BY <1>3, OneProcess DEF Progress
<1>5. PGROUNDUP(z) <= PGROUNDUP(sz[p]) /\ PGROUNDUP(sz[p]) \in Nat /\ PGROUNDUP(sz[p]) <= PGROUNDUP(sz[p])
      /\ PGROUNDUP(z) \in Nat
  BY <1>1, <1>2, RoundUpMonotone, RoundUp
<1>6. /\ Kfree(Released(pgdir[p], z, sz[p]) \cup InHand(p))
      /\ pgdir' = [pgdir EXCEPT ![p] = Dealloc(@, z, sz[p])] /\ new' = new
      /\ sz' = [sz EXCEPT ![p] = z]
  <2>1. Released(pgdir[p], z, sz[p]) \cup InHand(p) = Released(pgdir[p], z, sz[p])
    BY <1>3, NoneInHand DEF InHand
  <2> QED
    BY <2>1 DEF Shrink
<1>7. job' = [job EXCEPT ![p] = Nothing]
  BY <1>3, OneProcess DEF Shrink
<1> HIDE DEF z
<1>8. VmData' /\ Shown' = [Shown EXCEPT ![p] = ImageIn(mem, pgdir[p], z)]
  BY <1>1, <1>2, <1>3, <1>4, <1>5, <1>6, <1>7, ShrinkData
<1>9. k \in 1 .. NPD * NPT
  <2>1. 0 * PGSIZE = 0
    OBVIOUS
  <2>2. 0 < k
    BY <1>2, <2>1, RoundUp
  <2> QED
    BY <1>2, <1>5, <2>2, RoundUpBound, VmSizes
<1>10. I = ImageIn(mem, pgdir[p], sz[p]) /\ I # NoImage
  BY <1>3, LivesShown
<1>11. Shows(pgdir[p], z) = DOMAIN I \cap (0 .. k * PGSIZE - 1)
  <2> DEFINE m == PGROUNDUP(sz[p])
  <2>1. /\ Shows(pgdir[p], z) = {a \in 0 .. k * PGSIZE - 1 : pgdir[p].pte[a \div PGSIZE] # NoPage}
        /\ DOMAIN I = {a \in 0 .. m * PGSIZE - 1 : pgdir[p].pte[a \div PGSIZE] # NoPage}
    BY <1>10 DEF Shows, ImageIn
  <2>2. k * PGSIZE \in Nat /\ m * PGSIZE \in Nat /\ k \in Nat /\ m \in Nat /\ k <= m
    BY <1>5
  <2> HIDE DEF k, m
  <2>3. ~(m * PGSIZE < k * PGSIZE)
    BY <2>2, MulLess
  <2>4. 0 .. k * PGSIZE - 1 \subseteq 0 .. m * PGSIZE - 1
    BY <2>2, <2>3
  <2> QED
    BY <2>1, <2>4
<1>12. ImageIn(mem, pgdir[p], z) = [a \in DOMAIN I \cap (0 .. k * PGSIZE - 1) |-> I[a]]
  <2>1. \A a \in DOMAIN I : I[a] = mem[pgdir[p].pte[a \div PGSIZE]][a % PGSIZE]
    BY <1>10 DEF ImageIn
  <2>2. ImageIn(mem, pgdir[p], z) =
          [a \in DOMAIN I \cap (0 .. k * PGSIZE - 1) |-> mem[pgdir[p].pte[a \div PGSIZE]][a % PGSIZE]]
    BY <1>11 DEF ImageIn
  <2> QED
    BY <2>1, <2>2
<1> HIDE DEF k
<1>13. Shown' = [Shown EXCEPT ![p] = [a \in DOMAIN I \cap (0 .. k * PGSIZE - 1) |-> I[a]]]
  BY <1>8, <1>12
<1>14. User!Shrink(p)
  BY <1>9, <1>10, <1>13 DEF User!Shrink, Shown
<1> QED
  BY <1>8, <1>14 DEF UserMoves, User!MemoryNext

\* sbrk(-sz) empties the image.
LEMMA GiveUpAllData ==
  ASSUME VmInv, VmData, VmInv', NEW p \in Procs, NEW n \in Increments, GiveUpAll(p, n)
  PROVE  UserMoves
<1> DEFINE z == sz[p]
<1>1. z \in 0 .. KERNBASE /\ z \in Nat /\ 0 \in {0, z}
  BY OneProcess
<1>2. Ready(p) /\ pgdir[p] # NoSpace /\ job[p] = Nothing /\ job[p].call = "none"
  BY Callers DEF GiveUpAll
<1>3. Within(pgdir[p], PGROUNDUP(z))
  BY <1>2, OneProcess DEF Progress
<1>4. 0 * PGSIZE = 0
  OBVIOUS
<1>5. PGROUNDUP(0) = 0 /\ ~(\E a : a \in 0 .. 0 - 1)
  BY <1>4, RoundUpWhole
<1>6. PGROUNDUP(0) <= PGROUNDUP(z) /\ PGROUNDUP(z) \in Nat /\ PGROUNDUP(z) <= PGROUNDUP(z)
  BY <1>1, <1>5, RoundUp
<1>7. /\ Kfree(Released(pgdir[p], 0, z) \cup InHand(p))
      /\ pgdir' = [pgdir EXCEPT ![p] = Dealloc(@, 0, z)] /\ new' = new
  <2>1. Released(pgdir[p], 0, z) \cup InHand(p) = Released(pgdir[p], 0, z)
    BY <1>2, NoneInHand DEF InHand
  <2> QED
    BY <2>1 DEF GiveUpAll
<1>8. job' = [job EXCEPT ![p] = Nothing] /\ sz' = [sz EXCEPT ![p] = z]
  BY <1>2, OneProcess DEF GiveUpAll
<1> HIDE DEF z
<1>9. VmData' /\ Shown' = [Shown EXCEPT ![p] = ImageIn(mem, pgdir[p], 0)]
  BY <1>1, <1>2, <1>3, <1>6, <1>7, <1>8, ShrinkData
<1>10. Shows(pgdir[p], 0) = {}
  BY <1>4, <1>5 DEF Shows
<1>11. ImageIn(mem, pgdir[p], 0) = [a \in {} |-> 0]
  BY <1>10 DEF ImageIn
<1>12. Shown[p] # NoImage
  BY <1>2, LivesShown
<1>13. User!GiveUp(p)
  BY <1>9, <1>11, <1>12 DEF User!GiveUp, Shown
<1> QED
  BY <1>9, <1>13 DEF UserMoves, User!MemoryNext

LEMMA ExitedData ==
  ASSUME VmInv, VmData, VmInv', NEW p \in Procs, Exited(p)
  PROVE  UserMoves
<1>1. /\ Ready(p) /\ Kfree(PagesOf(pgdir[p])) /\ pgdir' = [pgdir EXCEPT ![p] = NoSpace]
      /\ sz' = [sz EXCEPT ![p] = 0] /\ new' = new /\ job' = job
  BY DEF Exited
<1>2. pgdir[p] # NoSpace /\ job[p] = Nothing /\ Nothing \in JobType
  BY <1>1, Callers
<1>3. mem' \in Contents /\ \A g \in Pages : g \in PagesOf(pgdir[p]) \/ mem'[g] = mem[g]
  BY <1>1, KfreeContents DEF Kfree
<1>4. OwnChange(p, NoSpace, new[p], 0, Nothing)
  <2>1. /\ NoSpace \in SpaceType /\ new[p] \in SpaceType /\ new' = [new EXCEPT ![p] = new[p]]
        /\ job' = [job EXCEPT ![p] = Nothing] /\ 0 \in 0 .. KERNBASE
    BY <1>1, <1>2, OneProcess, NoSpaceEmpty, VmSizes
  <2>2. WritesOwn(p) /\ Filling(Nothing, NoSpace, new[p], 0, mem')
    BY <1>3, NothingFills DEF WritesOwn
  <2> QED
    BY <1>1, <1>2, <1>3, <2>1, <2>2 DEF OwnChange
<1>5. VmData' /\ Shown' = [Shown EXCEPT ![p] = ShownOf(mem', NoSpace, 0)]
  BY <1>4, OthersSame
<1>6. Shown' = [Shown EXCEPT ![p] = NoImage] /\ Shown[p] # NoImage
  BY <1>2, <1>5, LivesShown DEF ShownOf
<1>7. User!Exit(p)
  BY <1>6 DEF User!Exit, Shown
<1> QED
  BY <1>5, <1>7 DEF UserMoves, User!MemoryNext

\* The child sees what its parent sees.
LEMMA ForkedData ==
  ASSUME VmInv, VmData, VmInv', NEW p \in Procs, Forked(p)
  PROVE  UserMoves
<1> DEFINE c == job[p].child
<1>1. /\ job[p].call = "fork" /\ ~Setting(p) /\ ~Extending(p)
      /\ pgdir' = [pgdir EXCEPT ![c] = new[p]] /\ sz' = [sz EXCEPT ![c] = sz[p]]
      /\ new' = [new EXCEPT ![p] = NoSpace] /\ job' = [job EXCEPT ![p] = Nothing] /\ mem' = mem
  BY DEF Forked
<1>2. VmType /\ ChildrenFree
  BY DEF VmInv
<1>3. c \in Procs /\ pgdir[c] = NoSpace /\ pgdir[p] # NoSpace /\ c # p
  BY <1>1, <1>2, OneProcess, Callers DEF ChildrenFree
<1>4. job[c] = Nothing
  BY <1>3, OneProcess DEF Calling
<1>5. /\ new[p].kvm # {} /\ sz[p] \in 0 .. KERNBASE /\ Whole(pgdir[p]) /\ Within(pgdir[p], PGROUNDUP(sz[p]))
      /\ PGROUNDUP(sz[p]) \in Nat /\ 0 < PGROUNDUP(sz[p])
      /\ \A v \in VPNs : v < PGROUNDUP(sz[p]) =>
           /\ new[p].pte[v] # NoPage /\ pgdir[p].pte[v] # NoPage
           /\ mem[new[p].pte[v]] = mem[pgdir[p].pte[v]]
  <2>1. /\ job[p].at = PGROUNDUP(sz[p]) /\ new[p].kvm # {} /\ sz[p] \in Nat /\ sz[p] \in 0 .. KERNBASE
        /\ Progress(job[p], pgdir[p], new[p], sz[p]) /\ Calling(job[p], pgdir[p], new[p], sz[p])
    BY <1>1, DoneAt, OneProcess DEF Progress
  <2>2. Filling(job[p], pgdir[p], new[p], sz[p], mem)
    BY DEF VmData
  <2>3. \A v \in VPNs : v < PGROUNDUP(sz[p]) => mem[new[p].pte[v]] = mem[pgdir[p].pte[v]]
    BY <1>1, <2>1, <2>2 DEF Filling
  <2>4. 0 * PGSIZE = 0 /\ 0 < sz[p]
    BY <1>3, <2>1 DEF Calling
  <2>5. PGROUNDUP(sz[p]) \in Nat /\ 0 < PGROUNDUP(sz[p])
    BY <2>1, <2>4, RoundUp
  <2>6. /\ Within(pgdir[p], PGROUNDUP(sz[p])) /\ Whole(pgdir[p]) /\ Mapped(new[p], PGROUNDUP(sz[p]))
    BY <1>1, <2>1, <2>5 DEF Progress
  <2>7. Mapped(pgdir[p], PGROUNDUP(sz[p]))
    BY <2>5, <2>6, WithinMapped
  <2> QED
    BY <2>1, <2>3, <2>5, <2>6, <2>7 DEF Mapped
<1> HIDE DEF c
<1>6. /\ \A q \in Procs : pgdir'[q] = IF q = c THEN new[p] ELSE pgdir[q]
      /\ \A q \in Procs : sz'[q] = IF q = c THEN sz[p] ELSE sz[q]
      /\ \A q \in Procs : new'[q] = IF q = p THEN NoSpace ELSE new[q]
      /\ \A q \in Procs : job'[q] = IF q = p THEN Nothing ELSE job[q]
  BY <1>1, <1>2, <1>3 DEF VmType
<1>7. VmData'
  <2>1. ASSUME NEW q \in Procs PROVE Filling(job'[q], pgdir'[q], new'[q], sz'[q], mem')
    <3>1. CASE q = p \/ q = c
      BY <3>1, <1>4, <1>6, NothingFills
    <3>2. CASE q # p /\ q # c
      BY <3>2, <1>1, <1>6 DEF VmData
    <3> QED
      BY <3>1, <3>2
  <2>2. mem' \in Contents
    BY <1>1 DEF VmData
  <2> QED
    BY <2>1, <2>2 DEF VmData
<1>8. Shown' = [Shown EXCEPT ![c] = Shown[p]]
  <2>1. \A q \in Procs : Shown'[q] = ShownOf(mem', pgdir'[q], sz'[q])
    BY DEF Shown, ShownOf, ImageIn, Image, Lives
  <2>2. ImageIn(mem, new[p], sz[p]) = ImageIn(mem, pgdir[p], sz[p])
    BY <1>5, SameImage
  <2>3. new[p] # NoSpace
    BY <1>5, NoSpaceEmpty
  <2>4. ShownOf(mem, new[p], sz[p]) = Shown[p]
    BY <1>3, <2>2, <2>3, LivesShown DEF ShownOf
  <2>5. \A q \in Procs : Shown'[q] = IF q = c THEN Shown[p] ELSE Shown[q]
    BY <1>1, <1>2, <1>6, <2>1, <2>4, ShownIs
  <2> QED
    BY <2>5 DEF Shown
<1>9. Shown[p] # NoImage /\ Shown[c] = NoImage
  BY <1>2, <1>3, LivesShown, ShownIs DEF ShownOf
<1>10. 0 \in DOMAIN Shown[p]
  <2>1. DOMAIN Shown[p] = 0 .. PGROUNDUP(sz[p]) * PGSIZE - 1
    BY <1>3, <1>5, LivesShown, WholeShows
  <2>2. 0 * PGSIZE = 0 /\ 0 * PGSIZE < PGROUNDUP(sz[p]) * PGSIZE /\ PGROUNDUP(sz[p]) * PGSIZE \in Nat
    BY <1>5, MulLess
  <2> QED
    BY <2>1, <2>2
<1>11. User!Fork(p, c)
  BY <1>8, <1>9, <1>10 DEF User!Fork, Shown
<1> QED
  BY <1>3, <1>7, <1>11 DEF UserMoves, User!MemoryNext

\* loaduvm() writes to the page table being made.
LEMMA ExecLoadData ==
  ASSUME VmInv, VmData, VmInv', NEW p \in Procs, ExecLoad(p)
  PROVE  UserStutters
<1> DEFINE end == PGROUNDUP(job[p].to)
           f == job[p].prog
           s == new[p]
           c == IF (end + 2) * PGSIZE < KERNBASE THEN "stack" ELSE "bad"
           j == [job[p] EXCEPT !.call = c, !.at = end, !.to = (end + 2) * PGSIZE]
<1>1. /\ job[p].call = "exec" /\ ~Setting(p) /\ ~Extending(p) /\ job' = [job EXCEPT ![p] = j]
      /\ pgdir' = pgdir /\ sz' = sz /\ new' = new
      /\ mem' = [g \in Pages |-> IF \E v \in VPNs : s.pte[v] = g
                                 THEN Loaded(mem[g], f, CHOOSE v \in VPNs : s.pte[v] = g) ELSE mem[g]]
  BY DEF ExecLoad
<1>2. /\ job[p] \in JobType /\ job[p].to \in Nat /\ end \in Nat /\ job[p].at = end
      /\ s \in SpaceType /\ Apart(s) /\ new' = [new EXCEPT ![p] = s]
      /\ job[p].page = NoPage /\ Made(s, job[p]) = PagesOf(s)
  BY <1>1, OneProcess, DoneAt, RoundUp
<1>3. Progress(job[p], pgdir[p], s, sz[p]) /\ Filling(job[p], pgdir[p], s, sz[p], mem)
  BY OneProcess DEF VmData
<1>4. f \in Programs /\ end = ProgPages(f) /\ Mapped(s, end) /\ \A v \in VPNs : v < end => mem[s.pte[v]] = Zeroes
  BY <1>1, <1>2, <1>3 DEF Progress, Filling, ProgPages
<1>5. f \in [DOMAIN f -> Vals]
  BY <1>4, ProgramsAssumption
<1>6. j \in JobType /\ j.call = c /\ j.at = end /\ j.prog = f /\ j.page = NoPage
  <2>1. (end + 2) * PGSIZE \in Nat
    BY <1>2
  <2> HIDE DEF end
  <2> DEFINE i == [job[p] EXCEPT !.call = c]
             m == [i EXCEPT !.at = end]
  <2>2. i \in JobType /\ i.call = c /\ i.prog = f /\ i.page = NoPage
    BY <1>2 DEF JobType
  <2>3. j = [m EXCEPT !.to = (end + 2) * PGSIZE]
    BY <1>2 DEF JobType
  <2> HIDE DEF i, j
  <2>4. m \in JobType /\ m.call = i.call /\ m.prog = i.prog /\ m.page = i.page /\ m.at = end
    BY <1>2, <2>2 DEF JobType
  <2> HIDE DEF m
  <2>5. j \in JobType /\ j.call = m.call /\ j.prog = m.prog /\ j.page = m.page /\ j.at = m.at
    BY <2>1, <2>3, <2>4 DEF JobType
  <2> QED
    BY <2>2, <2>4, <2>5
<1> HIDE DEF end, f, s, j
<1>7. \A g \in Pages : mem[g] \in [Offsets -> Vals \cup {Junk}]
  BY DEF VmData, Contents
<1>8. ASSUME NEW page \in [Offsets -> Vals \cup {Junk}], NEW v
      PROVE  Loaded(page, f, v) \in [Offsets -> Vals \cup {Junk}]
  BY <1>5 DEF Loaded
<1>9. mem' \in Contents
  BY <1>1, <1>7, <1>8 DEF Contents
<1>10. \A g \in Pages : g \in PagesOf(s) \/ mem'[g] = mem[g]
  BY <1>1, <1>2, InPagesOf
<1>11. ASSUME NEW v \in VPNs, v < end PROVE mem'[s.pte[v]] = Loaded(Zeroes, f, v)
  <2>1. s.pte[v] \in Pages /\ s.pte[v] # NoPage
    BY <1>2, <1>4, <1>11 DEF Mapped, SpaceType
  <2>2. (CHOOSE w \in VPNs : s.pte[w] = s.pte[v]) = v
    BY <1>2, <2>1 DEF Apart
  <2>3. mem'[s.pte[v]] = Loaded(mem[s.pte[v]], f, CHOOSE w \in VPNs : s.pte[w] = s.pte[v])
    BY <1>1, <2>1
  <2> QED
    BY <1>4, <1>11, <2>2, <2>3
<1>12. Filling(j, pgdir[p], s, sz[p], mem')
  <2>1. CASE c = "bad"
    BY <1>6, <2>1 DEF Filling
  <2>2. CASE c = "stack"
    <3>1. \A v \in VPNs : ~(end <= v /\ v < end)
      <4>1. end \in Nat /\ VPNs \subseteq Nat
        BY <1>2, VmSizes
      <4> QED
        BY <4>1
    <3>2. j.call = "stack" /\ ProgPages(j.prog) = end /\ j.at = end
      BY <1>4, <1>6, <2>2
    <3> QED
      BY <1>6, <1>11, <3>1, <3>2 DEF Filling
  <2> QED
    BY <2>1, <2>2
<1>13. \A g \in Pages : g \in free \/ g \in Made(new[p], job[p]) \/ mem'[g] = mem[g]
  BY <1>2, <1>10 DEF s
<1> QED
  BY <1>1, <1>2, <1>6, <1>9, <1>12, <1>13, QuietData

\* A program of P pages, a page out of reach, and the page of the stack.
ExecImage(f, arg) ==
  LET end == (User!Size(f) + 2) * PGSIZE IN
  [a \in 0 .. end - 1 |-> IF a \in DOMAIN f THEN f[a] ELSE IF a = end - 1 THEN arg ELSE 0]

LEMMA Executed ==
  ASSUME NEW f \in Programs, NEW arg, NEW M, NEW d, NEW z \in 0 .. KERNBASE,
         z = (ProgPages(f) + 2) * PGSIZE, Mapped(d, ProgPages(f) + 2),
         \A v \in VPNs : v < ProgPages(f) => M[d.pte[v]] = Loaded(Zeroes, f, v),
         \A v \in VPNs : v = ProgPages(f) => M[d.pte[v]] = Zeroes,
         \A v \in VPNs : v = ProgPages(f) + 1 => M[d.pte[v]] = [Zeroes EXCEPT ![PGSIZE - 1] = arg]
  PROVE  ImageIn(M, d, z) = ExecImage(f, arg)
<1> DEFINE P == ProgPages(f)
           N == Cardinality(DOMAIN f)
           end == (P + 2) * PGSIZE
           V(a) == M[d.pte[a \div PGSIZE]][a % PGSIZE]
           W(a) == IF a \in DOMAIN f THEN f[a] ELSE IF a = end - 1 THEN arg ELSE 0
<1>1. N \in Nat /\ DOMAIN f = 0 .. N - 1
  BY FS_CardinalityType, ProgramsAssumption
<1>2. P \in Nat /\ \A v \in Nat : v * PGSIZE < N <=> v < P
  BY <1>1, RoundUp DEF ProgPages
<1>3. PGROUNDUP(z) = P + 2 /\ PGROUNDUP(z) \in 0 .. NPD * NPT
  BY <1>2, RoundUpWhole, RoundUpBound
<1>4. User!Size(f) = P
  BY DEF User!Size, ProgPages, PGROUNDUP, User!Cardinality, Cardinality
<1>5. /\ \A v \in VPNs : v < P => M[d.pte[v]] = Loaded(Zeroes, f, v)
      /\ \A v \in VPNs : v = P => M[d.pte[v]] = Zeroes
      /\ \A v \in VPNs : v = P + 1 => M[d.pte[v]] = [Zeroes EXCEPT ![PGSIZE - 1] = arg]
  OBVIOUS
<1>6. ImageIn(M, d, z) = [a \in 0 .. end - 1 |-> V(a)] /\ ExecImage(f, arg) = [a \in 0 .. end - 1 |-> W(a)]
  <2>1. Within(d, P + 2) /\ Whole(d) /\ P + 2 \in Nat
    BY <1>2, WithinMapped
  <2>2. Shows(d, z) = 0 .. end - 1
    <3>1. PGROUNDUP(z) <= P + 2 /\ PGROUNDUP(z) * PGSIZE = end
      BY <1>2, <1>3
    <3>2. Shows(d, z) = 0 .. PGROUNDUP(z) * PGSIZE - 1
      BY <2>1, <3>1, WholeShows
    <3> QED
      BY <3>1, <3>2
  <2> QED
    BY <1>4, <2>2 DEF ImageIn, ExecImage
<1> HIDE DEF P, N
<1>7. ASSUME NEW a \in 0 .. end - 1 PROVE V(a) = W(a)
  <2> DEFINE q == a \div PGSIZE
             r == a % PGSIZE
  <2>1. P + 2 \in 0 .. NPD * NPT
    BY <1>3
  <2>2. q \in VPNs /\ q < P + 2 /\ r \in Offsets /\ a \in Nat /\ a = q * PGSIZE + r
    BY <2>1, AddrSplit
  <2>3. q \in Nat /\ r \in 0 .. PGSIZE - 1 /\ q * PGSIZE \in Nat
    BY <2>2, VmSizes DEF Offsets
  <2>4. a < (P + 1) * PGSIZE <=> q < P + 1
    <3>1. P + 1 \in Nat
      BY <1>2
    <3> QED
      BY <2>1, <3>1, PageBelow
  <2>5. end = (P + 1) * PGSIZE + PGSIZE /\ (P + 1) * PGSIZE \in Nat
    BY <1>2
  <2>6. V(a) = M[d.pte[q]][r]
    OBVIOUS
  <2> HIDE DEF q, r, V, end
  <2>7. a \in DOMAIN f => q < P
    BY <1>1, <1>2, <2>2, <2>3
  <2>8. q < P + 1 => a # end - 1
    BY <2>2, <2>4, <2>5
  <2>9. CASE q < P
    <3>1. V(a) = Loaded(Zeroes, f, q)[r]
      BY <1>5, <2>2, <2>6, <2>9
    <3>2. Loaded(Zeroes, f, q)[r] = IF a \in DOMAIN f THEN f[a] ELSE 0
      BY <2>2 DEF Loaded, Zeroes
    <3>3. a # end - 1
      BY <1>2, <2>3, <2>8, <2>9
    <3> QED
      BY <3>1, <3>2, <3>3
  <2>10. CASE q = P
    <3>1. a \notin DOMAIN f /\ a # end - 1
      BY <1>2, <2>7, <2>8, <2>10
    <3>2. V(a) = 0
      BY <1>5, <2>2, <2>6, <2>10 DEF Zeroes
    <3> QED
      BY <3>1, <3>2
  <2>11. CASE q = P + 1
    <3>1. a \notin DOMAIN f
      BY <1>2, <2>7, <2>11
    <3>2. a = end - 1 <=> r = PGSIZE - 1
      BY <2>2, <2>3, <2>5, <2>11
    <3>3. V(a) = IF r = PGSIZE - 1 THEN arg ELSE 0
      BY <1>5, <2>2, <2>6, <2>11 DEF Zeroes
    <3> QED
      BY <3>1, <3>2, <3>3
  <2>12. q < P \/ q = P \/ q = P + 1
    BY <1>2, <2>2, <2>3
  <2> QED
    BY <2>9, <2>10, <2>11, <2>12
<1> HIDE DEF V, W, end
<1> QED
  BY <1>6, <1>7

LEMMA ExecCommitData ==
  ASSUME VmInv, VmData, VmInv', NEW p \in Procs, NEW x \in Vals, ExecCommit(p, x)
  PROVE  UserMoves
<1> DEFINE to == job[p].to
           f == job[p].prog
           P == ProgPages(f)
           d == [new[p] EXCEPT !.guard = {to \div PGSIZE - 2}]
           k == PagesOf(pgdir[p])
           top == new[p].pte[to \div PGSIZE - 1]
<1>1. /\ job[p].call = "stack" /\ ~Setting(p) /\ ~Extending(p)
      /\ pgdir' = [pgdir EXCEPT ![p] = d] /\ sz' = [sz EXCEPT ![p] = to]
      /\ new' = [new EXCEPT ![p] = NoSpace] /\ job' = [job EXCEPT ![p] = Nothing]
  BY DEF ExecCommit, Setting
<1>2. /\ job[p].at = PGROUNDUP(to) /\ to \in 0 .. KERNBASE /\ new[p] \in SpaceType /\ Apart(new[p])
      /\ pgdir[p] # NoSpace /\ pgdir[p] \in SpaceType /\ Made(new[p], job[p]) = PagesOf(new[p])
  BY <1>1, OneProcess, DoneAt, Callers
<1>3. Progress(job[p], pgdir[p], new[p], sz[p]) /\ Filling(job[p], pgdir[p], new[p], sz[p], mem)
  BY OneProcess DEF VmData
<1>4. f \in Programs /\ to = (P + 2) * PGSIZE /\ P + 2 < NPD * NPT /\ new[p].kvm # {}
  BY <1>1, <1>3, OneProcess DEF Progress, Calling
<1>5. P \in Nat
  BY <1>4, RoundUp, FS_CardinalityType, ProgramsAssumption DEF ProgPages
<1>6. PGROUNDUP(to) = P + 2
  BY <1>4, <1>5, RoundUpWhole
<1>7. to \div PGSIZE - 1 = P + 1
  <2>1. P + 2 \in Nat /\ (P + 2) * PGSIZE = PGSIZE * (P + 2)
    BY <1>5
  <2> HIDE DEF P
  <2>2. (PGSIZE * (P + 2)) \div PGSIZE = P + 2
    BY <2>1
  <2> QED
    BY <1>4, <1>5, <2>1, <2>2
<1>8. /\ Mapped(new[p], P + 2)
      /\ \A v \in VPNs : v < P => mem[new[p].pte[v]] = Loaded(Zeroes, f, v)
      /\ \A v \in VPNs : P <= v /\ v < P + 2 => mem[new[p].pte[v]] = Zeroes
  BY <1>1, <1>2, <1>3, <1>6 DEF Progress, Filling
<1>9. mem' = [g \in Pages |-> CASE g \in k -> Filled
                                [] g = top -> [mem[g] EXCEPT ![PGSIZE - 1] = x]
                                [] OTHER -> mem[g]]
  BY DEF ExecCommit
<1>10. d \in SpaceType /\ d.pte = new[p].pte /\ d # NoSpace
  <2>1. d \in SpaceType
    BY <1>1 DEF VmInv, VmType
  <2> QED
    BY <1>2, <1>4, <2>1, NoSpaceEmpty DEF SpaceType
<1>11. k \cap PagesOf(new[p]) = {} /\ k \subseteq Pages
  BY <1>2, OneProcess, PagesOfSubset
<1> HIDE DEF to, f, P, d, k
<1>12. top = new[p].pte[P + 1] /\ P + 1 \in VPNs /\ P \in VPNs
  BY <1>4, <1>5, <1>7, VmSizes DEF VPNs
<1>13. \A v \in VPNs : v < P + 2 => new[p].pte[v] \in Pages /\ new[p].pte[v] \in PagesOf(new[p])
                                     /\ new[p].pte[v] # NoPage
  <2>1. P + 2 \in Nat
    BY <1>5
  <2> QED
    BY <1>2, <1>8, <2>1, MappedPages
<1>14. top \in Pages /\ top \in PagesOf(new[p])
  BY <1>5, <1>12, <1>13
<1> HIDE DEF top
<1>15. mem' \in Contents /\ \A g \in Pages : g \in k \/ g = top \/ mem'[g] = mem[g]
  <2>1. \A g \in Pages : mem[g] \in [Offsets -> Vals \cup {Junk}]
    BY DEF VmData, Contents
  <2>2. Filled \in [Offsets -> Vals \cup {Junk}]
    BY DEF Filled
  <2>3. \A g \in Pages : [mem[g] EXCEPT ![PGSIZE - 1] = x] \in [Offsets -> Vals \cup {Junk}]
    BY <2>1
  <2> HIDE DEF Filled
  <2> QED
    BY <1>9, <2>1, <2>2, <2>3 DEF Contents
<1>16. OwnChange(p, d, NoSpace, to, Nothing)
  <2>1. WritesOwn(p) /\ Filling(Nothing, d, NoSpace, to, mem')
    BY <1>2, <1>14, <1>15, NothingFills DEF WritesOwn, k
  <2>2. Nothing \in JobType /\ NoSpace \in SpaceType
    BY Callers, NoSpaceEmpty
  <2> QED
    BY <1>1, <1>2, <1>10, <1>15, <2>1, <2>2 DEF OwnChange
<1>17. VmData' /\ Shown' = [Shown EXCEPT ![p] = ShownOf(mem', d, to)]
  BY <1>16, OthersSame
<1>18. ASSUME NEW v \in VPNs, v < P + 2
       PROVE  mem'[d.pte[v]] = IF v = P + 1 THEN [mem[new[p].pte[v]] EXCEPT ![PGSIZE - 1] = x]
                               ELSE mem[new[p].pte[v]]
  <2>1. d.pte[v] = new[p].pte[v] /\ d.pte[v] \in Pages /\ d.pte[v] \notin k
    BY <1>10, <1>11, <1>13, <1>18
  <2>2. d.pte[v] = top <=> v = P + 1
    BY <1>2, <1>12, <1>13, <1>18, <2>1 DEF Apart
  <2> QED
    BY <1>9, <2>1, <2>2
<1>19. /\ \A v \in VPNs : v < P => mem'[d.pte[v]] = Loaded(Zeroes, f, v)
       /\ \A v \in VPNs : v = P => mem'[d.pte[v]] = Zeroes
       /\ \A v \in VPNs : v = P + 1 => mem'[d.pte[v]] = [Zeroes EXCEPT ![PGSIZE - 1] = x]
  <2>1. \A v \in VPNs : v < P => v < P + 2 /\ v # P + 1
    BY <1>5, VmSizes
  <2>2. P < P + 2 /\ P # P + 1 /\ P + 1 < P + 2 /\ P <= P /\ P <= P + 1
    BY <1>5
  <2> QED
    BY <1>8, <1>18, <2>1, <2>2
<1>20. ImageIn(mem', d, to) = ExecImage(f, x)
  <2>1. Mapped(d, P + 2)
    BY <1>8, <1>10 DEF Mapped
  <2> QED
    BY <1>2, <1>4, <1>19, <2>1, Executed DEF P
<1>21. Shown' = [Shown EXCEPT ![p] = ExecImage(f, x)] /\ Shown[p] # NoImage
  BY <1>2, <1>10, <1>17, <1>20, LivesShown DEF ShownOf
<1>22. User!Exec(p)
  BY <1>4, <1>21 DEF User!Exec, ExecImage, Shown
<1> QED
  BY <1>17, <1>22 DEF UserMoves, User!MemoryNext

\* A store shows in the image of the process, at its address.
LEMMA StoreData ==
  ASSUME VmInv, VmData, VmInv', NEW p \in Procs, NEW a \in Targets, NEW x \in Vals, Store(p, a, x)
  PROVE  UserMoves
<1> DEFINE q == a \div PGSIZE
           r == a % PGSIZE
           d == pgdir[p]
           g == d.pte[q]
           n == PGROUNDUP(sz[p])
<1>1. /\ Ready(p) /\ a < KERNBASE /\ g # NoPage /\ mem' = [mem EXCEPT ![g][r] = x]
      /\ pgdir' = pgdir /\ sz' = sz /\ new' = new /\ job' = job
  BY DEF Store
<1>2. /\ d # NoSpace /\ job[p] = Nothing /\ d \in SpaceType /\ Apart(d) /\ sz[p] \in 0 .. KERNBASE
      /\ Progress(job[p], d, new[p], sz[p]) /\ Nothing \in JobType /\ new[p] \in SpaceType
  BY <1>1, Callers, OneProcess
<1>3. Within(d, n) /\ n \in 0 .. NPD * NPT /\ n \in Nat
  <2>1. Nothing.call = "none"
    BY DEF Nothing
  <2> QED
    BY <1>2, <2>1, RoundUpBound, VmSizes DEF Progress
<1>4. a \in Nat /\ a \in 0 .. (NPD * NPT) * PGSIZE - 1 /\ NPD * NPT \in 0 .. NPD * NPT
  BY <1>1, VmSizes DEF KERNBASE
<1>5. q \in VPNs /\ r \in Offsets
  BY <1>4, AddrSplit
<1>6. q < n /\ g \in Pages /\ g \in PagesOf(d)
  <2>1. q < n
    BY <1>1, <1>3, <1>5 DEF Within
  <2> QED
    BY <1>1, <1>2, <1>5, <2>1, InPagesOf, PagesOfSubset
<1>7. a \in Shows(d, sz[p])
  <2>1. a < n * PGSIZE
    BY <1>3, <1>4, <1>6, PageBelow
  <2>2. a \in 0 .. n * PGSIZE - 1
    BY <1>3, <1>4, <2>1
  <2> QED
    BY <1>1, <2>2 DEF Shows
<1>8. mem \in [Pages -> [Offsets -> Vals \cup {Junk}]]
  BY DEF VmData, Contents
<1> HIDE DEF q, r, n, d
<1>9. mem' \in Contents /\ \A h \in Pages : h # g => mem'[h] = mem[h]
  BY <1>1, <1>5, <1>6, <1>8 DEF Contents
<1>10. \A o \in Offsets : mem'[g][o] = IF o = r THEN x ELSE mem[g][o]
  BY <1>1, <1>5, <1>6, <1>8
<1>11. OwnChange(p, d, new[p], sz[p], Nothing)
  <2>1. /\ pgdir' = [pgdir EXCEPT ![p] = d] /\ new' = [new EXCEPT ![p] = new[p]]
        /\ sz' = [sz EXCEPT ![p] = sz[p]] /\ job' = [job EXCEPT ![p] = Nothing]
    BY <1>1, <1>2, OneProcess DEF d
  <2>2. WritesOwn(p) /\ Filling(Nothing, d, new[p], sz[p], mem')
    BY <1>6, <1>9, NothingFills DEF WritesOwn, d
  <2> QED
    BY <1>2, <1>9, <2>1, <2>2 DEF OwnChange
<1>12. VmData' /\ Shown' = [Shown EXCEPT ![p] = ShownOf(mem', d, sz[p])]
  BY <1>11, OthersSame
<1>13. Shown[p] = ImageIn(mem, d, sz[p]) /\ Shown[p] # NoImage
  BY <1>2, LivesShown DEF d
<1> DEFINE I == ImageIn(mem, d, sz[p])
<1>14. /\ DOMAIN I = Shows(d, sz[p])
       /\ \A b \in Shows(d, sz[p]) : I[b] = mem[d.pte[b \div PGSIZE]][b % PGSIZE]
       /\ ImageIn(mem', d, sz[p]) = [b \in Shows(d, sz[p]) |-> mem'[d.pte[b \div PGSIZE]][b % PGSIZE]]
       /\ I = [b \in Shows(d, sz[p]) |-> I[b]]
  BY DEF ImageIn
<1> HIDE DEF I
<1>15. ASSUME NEW b \in Shows(d, sz[p])
       PROVE  mem'[d.pte[b \div PGSIZE]][b % PGSIZE] = IF b = a THEN x ELSE I[b]
  <2> DEFINE e == b \div PGSIZE
             o == b % PGSIZE
  <2>1. e \in VPNs /\ o \in Offsets /\ b = e * PGSIZE + o /\ d.pte[e] # NoPage
    <3>1. b \in 0 .. n * PGSIZE - 1 /\ d.pte[e] # NoPage
      BY DEF Shows, n
    <3> QED
      BY <1>3, <3>1, AddrSplit
  <2>2. a = q * PGSIZE + r
    BY <1>4, AddrSplit DEF q, r
  <2>3. I[b] = mem[d.pte[e]][o]
    BY <1>14
  <2>4. b = a => e = q /\ o = r
    BY DEF q, r
  <2> HIDE DEF e, o
  <2>5. d.pte[e] \in Pages /\ (d.pte[e] = g <=> e = q)
    <3>1. d.pte[e] # NoPage /\ d.pte[e] \in Pages
      BY <1>2, <2>1 DEF SpaceType
    <3> QED
      BY <1>2, <1>5, <2>1, <3>1 DEF Apart
  <2>6. mem'[d.pte[e]][o] = IF b = a THEN x ELSE I[b]
    <3>1. CASE e = q
      <4>1. b = a <=> o = r
        BY <2>1, <2>2, <2>4, <3>1
      <4> QED
        BY <1>10, <2>1, <2>3, <3>1, <4>1
    <3>2. CASE e # q
      BY <1>9, <2>3, <2>4, <2>5, <3>2
    <3> QED
      BY <3>1, <3>2
  <2> QED
    BY <2>6 DEF e, o
<1>16. ImageIn(mem', d, sz[p]) = [I EXCEPT ![a] = x]
  <2>1. [I EXCEPT ![a] = x] = [b \in Shows(d, sz[p]) |-> IF b = a THEN x ELSE I[b]]
    BY <1>7, <1>14
  <2> QED
    BY <1>14, <1>15, <2>1
<1>17. a \in DOMAIN Shown[p]
  BY <1>7, <1>13, <1>14 DEF I
<1>18. Shown' = [Shown EXCEPT ![p][a] = x]
  <2>1. Shown' = [Shown EXCEPT ![p] = [I EXCEPT ![a] = x]]
    BY <1>2, <1>12, <1>16 DEF ShownOf
  <2>2. Shown[p] = I
    BY <1>13 DEF I
  <2> QED
    BY <2>1, <2>2
<1>19. User!Write(p)
  BY <1>13, <1>17, <1>18 DEF User!Write, Shown
<1> QED
  BY <1>12, <1>19 DEF UserMoves, User!MemoryNext

LEMMA VmDataInit ==
  ASSUME VmInit
  PROVE  VmData /\ User!MemoryInit
<1>1. VmInv /\ Mapped(pgdir[InitProc], 1)
  BY VmInvInit
<1>2. VmData
  <2>1. mem \in Contents
    <3>1. Zeroes \in [Offsets -> Vals \cup {Junk}] /\ Filled \in [Offsets -> Vals \cup {Junk}]
      BY DEF Zeroes, Filled
    <3>2. PICK m : mem = [g \in Pages |-> IF g = m THEN Zeroes ELSE Filled]
      BY DEF VmInit
    <3> HIDE DEF Zeroes, Filled
    <3> QED
      BY <3>1, <3>2 DEF Contents
  <2>2. \A p \in Procs : job[p] = Nothing
    BY DEF VmInit
  <2> QED
    BY <2>1, <2>2, NothingFills DEF VmData
<1>3. sz[InitProc] = PGSIZE /\ \A p \in Procs \ {InitProc} : pgdir[p] = NoSpace
  BY DEF VmInit
<1>4. pgdir[InitProc] # NoSpace
  <2>1. Calling(job[InitProc], pgdir[InitProc], new[InitProc], sz[InitProc])
    BY <1>1, OneProcess
  <2> QED
    BY <1>3, <2>1 DEF Calling
<1>5. Shown[InitProc] # NoImage /\ DOMAIN Shown[InitProc] = 0 .. PGSIZE - 1
  <2>1. 1 * PGSIZE = PGSIZE /\ PGROUNDUP(PGSIZE) = 1
    <3>1. 1 * PGSIZE = PGSIZE
      OBVIOUS
    <3> QED
      BY <3>1, RoundUpWhole
  <2>2. Within(pgdir[InitProc], 1) /\ Whole(pgdir[InitProc])
    BY <1>1, WithinMapped
  <2>3. Shows(pgdir[InitProc], PGSIZE) = 0 .. PGSIZE - 1
    <3>1. PGSIZE \in 0 .. KERNBASE /\ 1 <= 1 /\ 1 \in Nat
      BY VmSizes
    <3> QED
      BY <2>1, <2>2, <3>1, WholeShows
  <2> QED
    BY <1>1, <1>2, <1>3, <1>4, <2>3, LivesShown
<1>6. \A q \in Procs \ {InitProc} : Shown[q] = NoImage
  BY <1>1, <1>3, ShownIs DEF VmInv, ShownOf
<1>7. User!MemoryInit
  BY <1>5, <1>6 DEF User!MemoryInit, Shown
<1> QED
  BY <1>2, <1>7

\* The page tables, the allocator and the error paths of sbrk(), fork() and exec(),
\* at whichever kalloc() memory ends, implement a private image for each process,
\* which only sbrk(-sz) changes in failing.
THEOREM VmPrivateMemory == VmSpec => PrivateMemory
<1>1. VmInit => VmData /\ User!MemoryInit
  BY VmDataInit
<1>2. VmInv /\ VmInv' /\ VmData /\ [VmNext]_vmVars => VmData' /\ [User!MemoryNext]_Shown
  <2> SUFFICES ASSUME VmInv, VmInv', VmData, [VmNext]_vmVars
               PROVE  VmData' /\ [User!MemoryNext]_Shown
    OBVIOUS
  <2>1. CASE UNCHANGED vmVars
    BY <2>1 DEF vmVars, VmData, Shown, Lives, Image
  <2>2. CASE VmNext
    <3>1. PICK p \in Procs :
            \/ Setupkvm(p) \/ TakePage(p) \/ MapPage(p) \/ AllocFails(p)
            \/ Grown(p) \/ Forked(p) \/ Exited(p) \/ ExecLoad(p) \/ ExecBad(p)
            \/ \E n \in Increments : Grow(p, n) \/ Shrink(p, n) \/ GiveUpAll(p, n)
            \/ \E c \in Procs : Fork(p, c)
            \/ \E f \in Programs : ExecStart(p, f)
            \/ \E x \in Vals : ExecCommit(p, x)
            \/ \E a \in Targets, x \in Vals : Store(p, a, x)
      BY <2>2 DEF VmNext
    <3>2. UserStutters \/ UserMoves
      BY <3>1, SetupData, TakePageData, MapPageData, AllocFailsData, GrownData, ForkedData,
         ExitedData, ExecLoadData, ExecBadData, GrowData, ShrinkStepData, GiveUpAllData, ForkData,
         ExecStartData, ExecCommitData, StoreData
    <3> QED
      BY <3>2 DEF UserStutters, UserMoves
  <2> QED
    BY <2>1, <2>2
<1>3. VmSpec => []VmInv
  BY VmInvariance
<1> QED
  BY <1>1, <1>2, <1>3, PTL DEF VmSpec, PrivateMemory, User!MemorySpec, Shown

-----------------------------------------------------------------------------
(* The heap of malloc() and free().                                         *)

\* Numbers with a bound have a greatest one; natural numbers have a least one.
LEMMA HasLeast ==
  ASSUME NEW Z \in SUBSET Nat, Z # {}
  PROVE  \E m \in Z : \A y \in Z : m <= y
<1>1. IsWellFoundedOn(OpToRel(<, Nat), Nat)
  BY NatLessThanWellFounded
<1>2. \E t \in Z : \A y \in Z : ~ (<<y, t>> \in OpToRel(<, Nat))
  BY <1>1, WFMin
<1>3. \A t \in Z, y \in Z : ~ (<<y, t>> \in OpToRel(<, Nat)) => t <= y
  BY DEF OpToRel
<1> QED
  BY <1>2, <1>3

LEMMA HasGreatest ==
  ASSUME NEW Z \in SUBSET Nat, Z # {}, NEW u \in Nat, \A x \in Z : x <= u
  PROVE  \E m \in Z : \A y \in Z : y <= m
<1>1. PICK Y : Y = {u - x : x \in Z}
  OBVIOUS
<1>2. \A x \in Z : u - x \in Nat
  OBVIOUS
<1>3. Y \subseteq Nat
  BY <1>1, <1>2
<1>4. PICK z : z \in Z
  OBVIOUS
<1>5. u - z \in Y
  BY <1>1, <1>4
<1>6. Y \in SUBSET Nat /\ Y # {}
  BY <1>3, <1>5
<1>7. PICK t \in Y : \A y \in Y : t <= y
  BY <1>6, HasLeast
<1>8. PICK m \in Z : t = u - m
  BY <1>1
<1>9. ASSUME NEW y \in Z PROVE y <= m
  <2>1. u - y \in Y
    BY <1>1
  <2>2. u - m <= u - y
    BY <1>7, <1>8, <2>1
  <2> QED
    BY <2>2
<1> QED
  BY <1>9

-----------------------------------------------------------------------------
(* The parts of the invariant.                                              *)

\* A circular list in the order of addresses, that goes round at base.
Ring(nx) ==
  /\ DOMAIN nx \subseteq Nat /\ Base \in DOMAIN nx
  /\ \A p \in DOMAIN nx :
       /\ nx[p] \in DOMAIN nx
       /\ \/ nx[p] > p /\ \A x \in DOMAIN nx : x <= p \/ x >= nx[p]
          \/ nx[p] = 0 /\ \A x \in DOMAIN nx : x <= p

\* The blocks B are not empty, do not overlap and make up the units U.
Packed(B, sx, U) ==
  /\ B \subseteq Nat \ {0} /\ \A b \in B : sx[b] \in Nat \ {0}
  /\ \A b, c \in B : b < c => b + sx[b] <= c
  /\ \A b \in B : \A u \in Nat : b <= u /\ u < b + sx[b] => u \in U
  /\ \A u \in U : u \in Nat /\ \E b \in B : b <= u /\ u < b + sx[b]

\* No two blocks of D are neighbours.
NoneJoin(D, sx) == \A x, y \in D \ {0} : x + sx[x] # y

Pending == IF op.pc \in {"free", "corefree"} THEN {op.bp} ELSE {}
Heap == (1 .. brk - 1) \ gaps
AllBlocks == (DOMAIN next \ {0}) \cup used \cup Pending

HeapType ==
  /\ brk \in Nat \ {0} /\ gaps \subseteq 1 .. brk - 1
  /\ DOMAIN size = DOMAIN next \cup used \cup Pending /\ size[0] = 0
  /\ freep \in DOMAIN next
  /\ DOMAIN next \cap (used \cup Pending) = {} /\ used \cap Pending = {}
  /\ op \in [pc : {"idle", "scan", "free", "corefree"}, n : Nat, prevp : Nat, p : Nat, bp : Nat]

\* Where the call under way is in the list.
CallAt ==
  /\ op.pc = "scan" => op.prevp \in DOMAIN next /\ next[op.prevp] = op.p /\ op.n > 0
  /\ op.pc \in {"free", "corefree"} => op.p \in DOMAIN next
  /\ op.pc = "corefree" => op.n > 0

HeapInv ==
  /\ HeapType /\ CallAt
  /\ Ring(next) /\ Packed(AllBlocks, size, Heap) /\ NoneJoin(DOMAIN next, size)

-----------------------------------------------------------------------------
(* Circular lists.                                                          *)

\* Each address has its place in the list.
LEMMA RingPlace ==
  ASSUME NEW nx, Ring(nx), NEW b \in Nat \ {0}
  PROVE  \E m \in DOMAIN nx : /\ m < b
                              /\ \A x \in DOMAIN nx : x <= m \/ x >= b
                              /\ nx[m] >= b \/ (nx[m] = 0 /\ \A x \in DOMAIN nx : x <= m)
<1>1. PICK Z : Z = {x \in DOMAIN nx : x < b}
  OBVIOUS
<1>2. DOMAIN nx \subseteq Nat /\ 0 \in DOMAIN nx
  BY DEF Ring, Base
<1>3. Z \in SUBSET Nat /\ Z # {} /\ \A x \in Z : x <= b
  BY <1>1, <1>2
<1>4. PICK m \in Z : \A y \in Z : y <= m
  BY <1>3, HasGreatest
<1>5. m \in DOMAIN nx /\ m \in Nat /\ m < b
  BY <1>1, <1>2
<1>6. \A x \in DOMAIN nx : x <= m \/ x >= b
  BY <1>1, <1>2, <1>4
<1>7. /\ nx[m] \in DOMAIN nx /\ nx[m] \in Nat
      /\ nx[m] > m \/ (nx[m] = 0 /\ \A x \in DOMAIN nx : x <= m)
  BY <1>2, <1>5 DEF Ring
<1>8. nx[m] <= m \/ nx[m] >= b
  BY <1>6, <1>7
<1> QED
  BY <1>5, <1>6, <1>7, <1>8

\* A block is put in its place.
LEMMA RingInsert ==
  ASSUME NEW nx, NEW ny, Ring(nx), NEW p \in DOMAIN nx, NEW b \in Nat, b \notin DOMAIN nx,
         p < b, \A x \in DOMAIN nx : x <= p \/ x > b,
         DOMAIN ny = DOMAIN nx \cup {b}, ny[p] = b, ny[b] = nx[p],
         \A x \in DOMAIN nx \ {p} : ny[x] = nx[x]
  PROVE  Ring(ny)
<1>1. DOMAIN nx \subseteq Nat /\ 0 \in DOMAIN nx /\ p \in Nat /\ p # b
  BY DEF Ring, Base
<1>2. DOMAIN ny \subseteq Nat /\ 0 \in DOMAIN ny
  BY <1>1
<1>3. ASSUME NEW x \in DOMAIN ny
      PROVE  /\ ny[x] \in DOMAIN ny
             /\ \/ ny[x] > x /\ \A y \in DOMAIN ny : y <= x \/ y >= ny[x]
                \/ ny[x] = 0 /\ \A y \in DOMAIN ny : y <= x
  <2>1. CASE x = p
    BY <1>1, <2>1
  <2>2. CASE x = b
    <3>1. /\ nx[p] \in DOMAIN nx /\ nx[p] \in Nat
          /\ \/ nx[p] > p /\ \A y \in DOMAIN nx : y <= p \/ y >= nx[p]
             \/ nx[p] = 0 /\ \A y \in DOMAIN nx : y <= p
      BY <1>1 DEF Ring
    <3>2. nx[p] <= p \/ nx[p] > b
      BY <3>1
    <3>3. \A y \in DOMAIN nx : y <= p => y <= b
      BY <1>1
    <3> QED
      BY <1>1, <2>2, <3>1, <3>2, <3>3
  <2>3. CASE x \in DOMAIN nx \ {p}
    <3>1. /\ nx[x] \in DOMAIN nx /\ nx[x] \in Nat /\ x \in Nat /\ ny[x] = nx[x]
          /\ \/ nx[x] > x /\ \A y \in DOMAIN nx : y <= x \/ y >= nx[x]
             \/ nx[x] = 0 /\ \A y \in DOMAIN nx : y <= x
      BY <1>1, <2>3 DEF Ring
    <3>2. x <= p \/ x > b
      BY <2>3
    <3>3. CASE nx[x] > x /\ \A y \in DOMAIN nx : y <= x \/ y >= nx[x]
      <4>1. p <= x \/ p >= nx[x]
        BY <3>3
      <4>2. b <= x \/ b >= nx[x]
        BY <1>1, <2>3, <3>1, <3>2, <4>1
      <4> QED
        BY <3>1, <3>3, <4>2
    <3>4. CASE nx[x] = 0 /\ \A y \in DOMAIN nx : y <= x
      <4>1. p <= x /\ p # x
        BY <2>3, <3>4
      <4>2. b <= x
        BY <1>1, <3>1, <3>2, <4>1
      <4> QED
        BY <3>1, <3>4, <4>2
    <3> QED
      BY <3>1, <3>3, <3>4
  <2> QED
    BY <2>1, <2>2, <2>3
<1> QED
  BY <1>2, <1>3 DEF Ring, Base

\* The block after p leaves the list.
LEMMA RingRemove ==
  ASSUME NEW nx, NEW ny, Ring(nx), NEW p \in DOMAIN nx, nx[p] # 0,
         DOMAIN ny = DOMAIN nx \ {nx[p]}, ny[p] = nx[nx[p]],
         \A x \in DOMAIN nx \ {p, nx[p]} : ny[x] = nx[x]
  PROVE  Ring(ny) /\ p # nx[p]
<1>1. DOMAIN nx \subseteq Nat /\ 0 \in DOMAIN nx /\ p \in Nat
  BY DEF Ring, Base
<1>2. PICK q : q = nx[p]
  OBVIOUS
<1>3. q \in DOMAIN nx /\ q \in Nat /\ q > p /\ \A y \in DOMAIN nx : y <= p \/ y >= q
  BY <1>1, <1>2 DEF Ring
<1>4. DOMAIN ny \subseteq Nat /\ 0 \in DOMAIN ny /\ p \in DOMAIN ny /\ q \notin DOMAIN ny
  BY <1>1, <1>2, <1>3
<1>5. ASSUME NEW x \in DOMAIN ny
      PROVE  /\ ny[x] \in DOMAIN ny
             /\ \/ ny[x] > x /\ \A y \in DOMAIN ny : y <= x \/ y >= ny[x]
                \/ ny[x] = 0 /\ \A y \in DOMAIN ny : y <= x
  <2>0. \A y \in DOMAIN ny : y \in DOMAIN nx /\ y # q /\ y \in Nat
    BY <1>1, <1>2
  <2>1. CASE x = p
    <3>1. /\ nx[q] \in DOMAIN nx /\ nx[q] \in Nat /\ ny[p] = nx[q]
          /\ \/ nx[q] > q /\ \A y \in DOMAIN nx : y <= q \/ y >= nx[q]
             \/ nx[q] = 0 /\ \A y \in DOMAIN nx : y <= q
      BY <1>1, <1>2, <1>3 DEF Ring
    <3>2. nx[q] # q
      BY <1>2, <1>3, <3>1
    <3>3. ny[p] \in DOMAIN ny
      BY <1>2, <3>1, <3>2
    <3>4. \A y \in DOMAIN ny : y <= q => y <= p
      BY <1>1, <1>3, <2>0
    <3> QED
      BY <1>1, <1>3, <2>0, <2>1, <3>1, <3>3, <3>4
  <2>2. CASE x # p
    <3>1. /\ nx[x] \in DOMAIN nx /\ nx[x] \in Nat /\ ny[x] = nx[x] /\ x \in Nat /\ x \in DOMAIN nx
          /\ \/ nx[x] > x /\ \A y \in DOMAIN nx : y <= x \/ y >= nx[x]
             \/ nx[x] = 0 /\ \A y \in DOMAIN nx : y <= x
      BY <1>1, <1>2, <2>0, <2>2 DEF Ring
    <3>2. nx[x] # q
      BY <1>1, <1>3, <2>0, <2>2, <3>1
    <3> QED
      BY <1>2, <2>0, <3>1, <3>2
  <2> QED
    BY <2>1, <2>2
<1> QED
  BY <1>2, <1>3, <1>4, <1>5 DEF Ring, Base

\* The order of a list without changes.
LEMMA RingSame ==
  ASSUME NEW nx, NEW ny, Ring(nx), DOMAIN ny = DOMAIN nx, \A x \in DOMAIN nx : ny[x] = nx[x]
  PROVE  Ring(ny)
BY DEF Ring

-----------------------------------------------------------------------------
(* Blocks.                                                                  *)

\* A block takes the next one in.
LEMMA PackedMerge ==
  ASSUME NEW B, NEW sx, NEW sy, NEW U, Packed(B, sx, U), NEW b \in B, NEW c \in B, b + sx[b] = c,
         sy[b] = sx[b] + sx[c], \A x \in B \ {b, c} : sy[x] = sx[x]
  PROVE  Packed(B \ {c}, sy, U) /\ b < c
<1>1. /\ B \subseteq Nat \ {0} /\ \A x \in B : sx[x] \in Nat \ {0}
      /\ \A x, y \in B : x < y => x + sx[x] <= y
      /\ \A x \in B : \A u \in Nat : x <= u /\ u < x + sx[x] => u \in U
      /\ \A u \in U : u \in Nat /\ \E x \in B : x <= u /\ u < x + sx[x]
  BY DEF Packed
<1>2. b \in Nat \ {0} /\ c \in Nat \ {0} /\ sx[b] \in Nat \ {0} /\ sx[c] \in Nat \ {0} /\ b < c
  BY <1>1
<1>3. PICK C : C = B \ {c}
  OBVIOUS
<1>4. C \subseteq Nat \ {0} /\ \A x \in C : sy[x] \in Nat \ {0}
  BY <1>1, <1>2, <1>3
<1>5. ASSUME NEW x \in C, NEW y \in C, x < y PROVE x + sy[x] <= y
  <2>1. x \in B /\ y \in B /\ x # c /\ y # c /\ x \in Nat /\ y \in Nat /\ x + sx[x] <= y
    BY <1>1, <1>3, <1>5
  <2>2. CASE x = b
    <3>1. c < y
      BY <1>1, <1>2, <2>1, <2>2
    <3>2. c + sx[c] <= y
      BY <1>1, <2>1, <3>1
    <3> QED
      BY <1>2, <2>1, <2>2, <3>2
  <2>3. CASE x # b
    BY <2>1, <2>3
  <2> QED
    BY <2>2, <2>3
<1>6. ASSUME NEW x \in C, NEW u \in Nat, x <= u, u < x + sy[x] PROVE u \in U
  <2>1. CASE x = b
    <3>1. u < b + sx[b] \/ (c <= u /\ u < c + sx[c])
      BY <1>2, <1>6, <2>1
    <3> QED
      BY <1>1, <1>6, <2>1, <3>1
  <2>2. CASE x # b
    BY <1>1, <1>3, <1>6, <2>2
  <2> QED
    BY <2>1, <2>2
<1>7. ASSUME NEW u \in U PROVE u \in Nat /\ \E x \in C : x <= u /\ u < x + sy[x]
  <2>1. PICK x \in B : u \in Nat /\ x <= u /\ u < x + sx[x]
    BY <1>1
  <2>2. CASE x = c \/ x = b
    <3>1. b <= u /\ u < b + sy[b]
      BY <1>2, <2>1, <2>2
    <3> QED
      BY <1>2, <1>3, <2>1, <3>1
  <2>3. CASE x # c /\ x # b
    BY <1>3, <2>1, <2>3
  <2> QED
    BY <2>2, <2>3
<1> QED
  BY <1>2, <1>3, <1>4, <1>5, <1>6, <1>7 DEF Packed

\* The tail of a block becomes one of its own.
LEMMA PackedSplit ==
  ASSUME NEW B, NEW sx, NEW sy, NEW U, Packed(B, sx, U), NEW b \in B, NEW n \in Nat \ {0}, n < sx[b],
         NEW c, c = b + sx[b] - n,
         sy[b] = sx[b] - n, sy[c] = n, \A x \in B \ {b} : x # c => sy[x] = sx[x]
  PROVE  c \in Nat \ {0} /\ c \notin B /\ Packed(B \cup {c}, sy, U) /\ b < c
<1>1. /\ B \subseteq Nat \ {0} /\ \A x \in B : sx[x] \in Nat \ {0}
      /\ \A x, y \in B : x < y => x + sx[x] <= y
      /\ \A x \in B : \A u \in Nat : x <= u /\ u < x + sx[x] => u \in U
      /\ \A u \in U : u \in Nat /\ \E x \in B : x <= u /\ u < x + sx[x]
  BY DEF Packed
<1>2. b \in Nat \ {0} /\ sx[b] \in Nat \ {0} /\ c \in Nat \ {0} /\ b < c /\ c < b + sx[b] /\ c + n = b + sx[b]
  BY <1>1
<1>3. c \notin B
  BY <1>1, <1>2
<1>4. PICK C : C = B \cup {c}
  OBVIOUS
<1>5. C \subseteq Nat \ {0} /\ \A x \in C : sy[x] \in Nat \ {0}
  <2>1. sy[b] \in Nat \ {0} /\ sy[c] \in Nat \ {0} /\ b # c
    BY <1>2
  <2>2. \A x \in B : sy[x] \in Nat \ {0}
    BY <1>1, <1>3, <2>1
  <2> QED
    BY <1>1, <1>2, <1>4, <2>1, <2>2
<1>6. ASSUME NEW x \in C, NEW y \in C, x < y PROVE x + sy[x] <= y
  <2>1. CASE x = c
    <3>1. y \in B /\ b < y
      BY <1>1, <1>2, <1>4, <1>6, <2>1
    <3> QED
      BY <1>1, <1>2, <2>1, <3>1
  <2>2. CASE x = b
    <3>1. CASE y = c
      BY <1>2, <2>2, <3>1
    <3>2. CASE y \in B
      BY <1>1, <1>2, <1>6, <2>2, <3>2
    <3> QED
      BY <1>4, <3>1, <3>2
  <2>3. CASE x \in B \ {b, c}
    <3>1. CASE y = c
      <4>1. x < b
        BY <1>1, <1>2, <1>6, <2>3, <3>1
      <4> QED
        BY <1>1, <1>2, <2>3, <3>1, <4>1
    <3>2. CASE y \in B
      BY <1>1, <1>6, <2>3, <3>2
    <3> QED
      BY <1>4, <3>1, <3>2
  <2> QED
    BY <1>4, <2>1, <2>2, <2>3
<1>7. ASSUME NEW x \in C, NEW u \in Nat, x <= u, u < x + sy[x] PROVE u \in U
  <2>1. CASE x = c \/ x = b
    <3>1. b <= u /\ u < b + sx[b]
      BY <1>2, <1>7, <2>1
    <3> QED
      BY <1>1, <3>1
  <2>2. CASE x \in B \ {b, c}
    BY <1>1, <1>7, <2>2
  <2> QED
    BY <1>4, <2>1, <2>2
<1>8. ASSUME NEW u \in U PROVE u \in Nat /\ \E x \in C : x <= u /\ u < x + sy[x]
  <2>1. PICK x \in B : u \in Nat /\ x <= u /\ u < x + sx[x]
    BY <1>1
  <2>2. CASE x = b
    <3>1. u < c \/ c <= u
      BY <1>2, <2>1
    <3>2. CASE u < c
      <4>1. b <= u /\ u < b + sy[b]
        BY <1>2, <2>1, <2>2, <3>2
      <4> QED
        BY <1>4, <2>1, <4>1
    <3>3. CASE c <= u
      <4>1. c <= u /\ u < c + sy[c]
        BY <1>2, <2>1, <2>2, <3>3
      <4> QED
        BY <1>4, <2>1, <4>1
    <3> QED
      BY <3>1, <3>2, <3>3
  <2>3. CASE x # b
    BY <1>3, <1>4, <2>1, <2>3
  <2> QED
    BY <2>2, <2>3
<1> QED
  BY <1>2, <1>3, <1>4, <1>5, <1>6, <1>7, <1>8 DEF Packed

\* Blocks that stay as they are.
LEMMA PackedSame ==
  ASSUME NEW B, NEW sx, NEW sy, NEW U, Packed(B, sx, U), \A x \in B : sy[x] = sx[x]
  PROVE  Packed(B, sy, U)
BY DEF Packed

-----------------------------------------------------------------------------
(* The steps.                                                               *)

USE HeapAssumption

LEMMA DropIs ==
  ASSUME NEW f, NEW x
  PROVE  /\ DOMAIN Drop(f, x) = DOMAIN f \ {x}
         /\ \A y \in DOMAIN f \ {x} : Drop(f, x)[y] = f[y]
BY DEF Drop, Restrict

LEMMA HeapInitInv ==
  ASSUME HeapInit
  PROVE  HeapInv
<1>1. DOMAIN next = {0} /\ next[0] = 0 /\ DOMAIN size = {0} /\ size[0] = 0 /\ freep = 0
  BY DEF HeapInit, Base
<1>2. used = {} /\ brk = 1 /\ gaps = {} /\ op = NoCall
  BY DEF HeapInit
<1>3. Pending = {} /\ op.pc = "idle"
  BY <1>2 DEF Pending, NoCall
<1>4. op \in [pc : {"idle", "scan", "free", "corefree"}, n : Nat, prevp : Nat, p : Nat, bp : Nat]
  BY <1>2 DEF NoCall
<1>5. HeapType
  BY <1>1, <1>2, <1>3, <1>4 DEF HeapType
<1>6. CallAt
  BY <1>3 DEF CallAt
<1>7. Ring(next)
  BY <1>1 DEF Ring, Base
<1>8. AllBlocks = {} /\ Heap = {}
  BY <1>1, <1>2, <1>3 DEF AllBlocks, Heap
<1>9. Packed(AllBlocks, size, Heap)
  BY <1>8 DEF Packed
<1>10. NoneJoin(DOMAIN next, size)
  BY <1>1 DEF NoneJoin
<1> QED
  BY <1>5, <1>6, <1>7, <1>9, <1>10 DEF HeapInv

\* The blocks end below brk.
LEMMA BlocksBelow ==
  ASSUME HeapInv
  PROVE  /\ \A b \in AllBlocks : b \in Nat \ {0} /\ b < brk /\ size[b] \in Nat \ {0}
         /\ \A x \in DOMAIN next : x \in Nat /\ x <= brk
<1>1. /\ \A b \in AllBlocks : b \in Nat \ {0} /\ size[b] \in Nat \ {0}
      /\ \A b \in AllBlocks : \A u \in Nat : b <= u /\ u < b + size[b] => u \in Heap
  BY DEF HeapInv, Packed
<1>2. brk \in Nat \ {0}
  BY DEF HeapInv, HeapType
<1>3. ASSUME NEW b \in AllBlocks PROVE b < brk
  <2>1. b \in Heap
    BY <1>1
  <2> QED
    BY <1>1, <1>2, <2>1 DEF Heap
<1>4. \A x \in DOMAIN next : x = 0 \/ x \in AllBlocks
  BY DEF AllBlocks
<1> QED
  BY <1>1, <1>2, <1>3, <1>4

\* Steps that leave the list and the blocks alone.
LEMMA ListKept ==
  ASSUME HeapInv, next' = next, size' = size, brk' = brk, gaps' = gaps, freep' \in DOMAIN next,
         used' \cup Pending' = used \cup Pending, used' \cap Pending' = {},
         op' \in [pc : {"idle", "scan", "free", "corefree"}, n : Nat, prevp : Nat, p : Nat, bp : Nat],
         CallAt'
  PROVE  HeapInv'
<1>1. AllBlocks' = AllBlocks
  BY DEF AllBlocks
<1>2. Heap' = Heap
  BY DEF Heap
<1>3. HeapType'
  BY DEF HeapInv, HeapType
<1>4. Packed(AllBlocks, size, Heap)'
  BY <1>1, <1>2 DEF HeapInv, Packed
<1>5. Ring(next)' /\ NoneJoin(DOMAIN next, size)'
  BY DEF HeapInv, Ring, NoneJoin, Base
<1> QED
  BY <1>3, <1>4, <1>5 DEF HeapInv

LEMMA MallocInv ==
  ASSUME HeapInv, NEW n \in 1 .. MaxUnits, Malloc(n)
  PROVE  HeapInv'
<1>1. /\ op.pc = "idle" /\ UNCHANGED <<next, size, freep, used, brk, gaps>>
      /\ op' = [pc |-> "scan", n |-> n, prevp |-> freep, p |-> next[freep], bp |-> 0]
  BY DEF Malloc, NoCall
<1>2. freep \in DOMAIN next /\ freep \in Nat /\ next[freep] \in DOMAIN next /\ next[freep] \in Nat
  BY DEF HeapInv, HeapType, Ring
<1>3. n \in Nat /\ n > 0
  OBVIOUS
<1>4. Pending' = {} /\ Pending = {}
  BY <1>1 DEF Pending
<1>5. op' \in [pc : {"idle", "scan", "free", "corefree"}, n : Nat, prevp : Nat, p : Nat, bp : Nat]
  BY <1>1, <1>2, <1>3
<1>6. CallAt'
  BY <1>1, <1>2, <1>3 DEF CallAt
<1> QED
  BY <1>1, <1>2, <1>4, <1>5, <1>6, ListKept

LEMMA ScanInv ==
  ASSUME HeapInv, Scan
  PROVE  HeapInv'
<1>1. /\ op.pc = "scan" /\ UNCHANGED <<next, size, freep, used, brk, gaps>>
      /\ op' = [op EXCEPT !.prevp = op.p, !.p = next[op.p]]
  BY DEF Scan
<1>2. /\ freep \in DOMAIN next /\ op.prevp \in DOMAIN next /\ op.p = next[op.prevp] /\ op.n > 0
      /\ op \in [pc : {"idle", "scan", "free", "corefree"}, n : Nat, prevp : Nat, p : Nat, bp : Nat]
  BY <1>1 DEF HeapInv, HeapType, CallAt
<1>3. op.p \in DOMAIN next /\ op.p \in Nat /\ next[op.p] \in DOMAIN next /\ next[op.p] \in Nat
  BY <1>2 DEF HeapInv, Ring
<1>4. /\ op' \in [pc : {"idle", "scan", "free", "corefree"}, n : Nat, prevp : Nat, p : Nat, bp : Nat]
      /\ op'.pc = "scan" /\ op'.prevp = op.p /\ op'.p = next[op.p] /\ op'.n = op.n
  BY <1>1, <1>2, <1>3
<1>5. Pending' = {} /\ Pending = {}
  BY <1>1, <1>4 DEF Pending
<1>6. CallAt'
  BY <1>1, <1>2, <1>3, <1>4 DEF CallAt
<1> QED
  BY <1>1, <1>2, <1>4, <1>5, <1>6, ListKept

LEMMA FreeInv ==
  ASSUME HeapInv, NEW b \in used, Free(b)
  PROVE  HeapInv'
<1>1. /\ op.pc = "idle" /\ UNCHANGED <<next, size, freep, brk, gaps>> /\ used' = used \ {b}
      /\ op' = [pc |-> "free", n |-> 0, prevp |-> 0, p |-> freep, bp |-> b]
  BY DEF Free, NoCall
<1>2. freep \in DOMAIN next /\ freep \in Nat /\ b \in Nat
  BY BlocksBelow DEF HeapInv, HeapType, AllBlocks
<1>3. Pending' = {b} /\ Pending = {}
  BY <1>1 DEF Pending
<1>4. op' \in [pc : {"idle", "scan", "free", "corefree"}, n : Nat, prevp : Nat, p : Nat, bp : Nat]
  BY <1>1, <1>2
<1>5. CallAt'
  BY <1>1, <1>2 DEF CallAt
<1>6. used' \cup Pending' = used \cup Pending /\ used' \cap Pending' = {}
  BY <1>1, <1>3
<1> QED
  BY <1>1, <1>2, <1>4, <1>5, <1>6, ListKept

LEMMA FreeScanInv ==
  ASSUME HeapInv, FreeScan
  PROVE  HeapInv'
<1>1. /\ op.pc \in {"free", "corefree"} /\ UNCHANGED <<next, size, freep, used, brk, gaps>>
      /\ op' = [op EXCEPT !.p = next[op.p]]
  BY DEF FreeScan
<1>2. /\ freep \in DOMAIN next /\ op.p \in DOMAIN next /\ (op.pc = "corefree" => op.n > 0)
      /\ op \in [pc : {"idle", "scan", "free", "corefree"}, n : Nat, prevp : Nat, p : Nat, bp : Nat]
      /\ used \cap Pending = {}
  BY <1>1 DEF HeapInv, HeapType, CallAt
<1>3. next[op.p] \in DOMAIN next /\ next[op.p] \in Nat
  BY <1>2 DEF HeapInv, Ring
<1>4. /\ op' \in [pc : {"idle", "scan", "free", "corefree"}, n : Nat, prevp : Nat, p : Nat, bp : Nat]
      /\ op'.pc = op.pc /\ op'.bp = op.bp /\ op'.p = next[op.p] /\ op'.n = op.n
  BY <1>1, <1>2, <1>3
<1>5. Pending' = Pending
  BY <1>4 DEF Pending
<1>6. CallAt'
  BY <1>1, <1>2, <1>3, <1>4 DEF CallAt
<1> QED
  BY <1>1, <1>2, <1>4, <1>5, <1>6, ListKept

LEMMA SbrkInv ==
  ASSUME HeapInv, UserSbrk
  PROVE  HeapInv'
<1>1. /\ op.pc = "idle" /\ UNCHANGED <<next, size, freep, used, op>>
      /\ brk' = brk + 1 /\ gaps' = gaps \cup {brk}
  BY DEF UserSbrk
<1>2. brk \in Nat \ {0} /\ gaps \subseteq 1 .. brk - 1
  BY DEF HeapInv, HeapType
<1>3. brk' \in Nat \ {0} /\ gaps' \subseteq 1 .. brk' - 1
  BY <1>1, <1>2
<1>4. Heap' = Heap
  <2>1. \A u : u \in 1 .. brk <=> u \in 1 .. brk - 1 \/ u = brk
    BY <1>2
  <2>2. brk' - 1 = brk /\ brk \notin 1 .. brk - 1
    BY <1>1, <1>2
  <2> QED
    BY <1>1, <2>1, <2>2 DEF Heap
<1>5. Pending' = Pending /\ AllBlocks' = AllBlocks
  BY <1>1 DEF Pending, AllBlocks
<1>6. HeapType'
  BY <1>1, <1>3, <1>5 DEF HeapInv, HeapType
<1>7. CallAt' /\ Ring(next)' /\ NoneJoin(DOMAIN next, size)'
  BY <1>1 DEF HeapInv, CallAt, Ring, NoneJoin, Base
<1>8. Packed(AllBlocks, size, Heap)'
  BY <1>1, <1>4, <1>5 DEF HeapInv, Packed
<1> QED
  BY <1>6, <1>7, <1>8 DEF HeapInv

LEMMA MorecoreInv ==
  ASSUME HeapInv, Morecore
  PROVE  HeapInv'
<1>1. op.pc = "scan" /\ UNCHANGED <<next, freep, used, gaps>>
  BY DEF Morecore
<1>2. /\ brk \in Nat \ {0} /\ gaps \subseteq 1 .. brk - 1 /\ size[0] = 0 /\ freep \in DOMAIN next
      /\ DOMAIN size = DOMAIN next \cup used \cup Pending /\ op.n > 0
      /\ DOMAIN next \cap (used \cup Pending) = {} /\ used \cap Pending = {}
      /\ op \in [pc : {"idle", "scan", "free", "corefree"}, n : Nat, prevp : Nat, p : Nat, bp : Nat]
  BY <1>1 DEF HeapInv, HeapType, CallAt
<1>3. Pending = {}
  BY <1>1 DEF Pending
<1>4. CASE ~ (brk + Asked <= HeapEnd)
  <2>1. size' = size /\ brk' = brk /\ op' = NoCall
    BY <1>4 DEF Morecore
  <2>2. /\ op' \in [pc : {"idle", "scan", "free", "corefree"}, n : Nat, prevp : Nat, p : Nat, bp : Nat]
        /\ op'.pc = "idle"
    BY <2>1 DEF NoCall
  <2>3. Pending' = {} /\ CallAt'
    BY <2>2 DEF Pending, CallAt
  <2> QED
    BY <1>1, <1>2, <1>3, <2>1, <2>2, <2>3, ListKept
<1>5. CASE brk + Asked <= HeapEnd
  <2>1. PICK k : k = Asked
    OBVIOUS
  <2>2. k \in Nat \ {0}
    BY <1>2, <2>1 DEF Asked
  <2>3. /\ size' = Put(size, brk, k) /\ brk' = brk + k
        /\ op' = [op EXCEPT !.pc = "corefree", !.bp = brk, !.p = freep]
    BY <1>5, <2>1 DEF Morecore
  <2>4. freep \in Nat
    BY <1>2 DEF HeapInv, Ring
  <2>5. /\ op' \in [pc : {"idle", "scan", "free", "corefree"}, n : Nat, prevp : Nat, p : Nat, bp : Nat]
        /\ op'.pc = "corefree" /\ op'.bp = brk /\ op'.p = freep /\ op'.n = op.n
    BY <1>2, <2>3, <2>4
  <2>6. Pending' = {brk}
    BY <2>5 DEF Pending
  <2>7. brk \notin DOMAIN next /\ brk \notin used /\ brk \notin AllBlocks
    <3>1. brk \notin AllBlocks
      BY <1>2, BlocksBelow
    <3> QED
      BY <1>2, <3>1 DEF AllBlocks
  <2>8. brk \notin DOMAIN size
    BY <1>2, <1>3, <2>7
  <2>9. /\ DOMAIN size' = DOMAIN size \cup {brk} /\ size'[brk] = k
        /\ \A x \in DOMAIN size : size'[x] = size[x]
    <3>1. /\ DOMAIN Put(size, brk, k) = DOMAIN size \cup {brk} /\ Put(size, brk, k)[brk] = k
          /\ \A y \in DOMAIN size \ {brk} : Put(size, brk, k)[y] = size[y]
      BY DEF Put
    <3> QED
      BY <2>3, <2>8, <3>1
  <2>10. 0 \in DOMAIN next
    BY DEF HeapInv, Ring, Base
  <2>11. HeapType'
    <3>1. brk' \in Nat \ {0} /\ gaps' \subseteq 1 .. brk' - 1
      BY <1>1, <1>2, <2>2, <2>3
    <3>2. DOMAIN size' = DOMAIN next' \cup used' \cup Pending' /\ size'[0] = 0
      BY <1>1, <1>2, <1>3, <2>6, <2>9, <2>10
    <3>3. DOMAIN next' \cap (used' \cup Pending') = {} /\ used' \cap Pending' = {}
      BY <1>1, <1>2, <2>6, <2>7
    <3> QED
      BY <1>1, <1>2, <2>5, <3>1, <3>2, <3>3 DEF HeapType
  <2>12. CallAt'
    BY <1>1, <1>2, <2>5 DEF CallAt
  <2>13. Ring(next)'
    BY <1>1 DEF HeapInv, Ring, Base
  <2>14. NoneJoin(DOMAIN next, size)'
    BY <1>1, <1>2, <2>9 DEF HeapInv, NoneJoin
  <2>15. AllBlocks' = AllBlocks \cup {brk}
    BY <1>1, <1>3, <2>6 DEF AllBlocks
  <2>16. \A u : u \in Heap' <=> u \in Heap \/ (u \in Nat /\ brk <= u /\ u < brk + k)
    BY <1>1, <1>2, <2>2, <2>3 DEF Heap
  <2>17. AllBlocks \subseteq DOMAIN size
    BY <1>2 DEF AllBlocks
  <2>18. Packed(AllBlocks', size', Heap')
    <3>1. /\ \A x \in AllBlocks : x \in Nat \ {0} /\ size[x] \in Nat \ {0} /\ x < brk
          /\ \A x, y \in AllBlocks : x < y => x + size[x] <= y
          /\ \A x \in AllBlocks : \A u \in Nat : x <= u /\ u < x + size[x] => u \in Heap
          /\ \A u \in Heap : u \in Nat /\ \E x \in AllBlocks : x <= u /\ u < x + size[x]
      BY BlocksBelow DEF HeapInv, Packed
    <3>2. \A x \in AllBlocks : size'[x] = size[x]
      BY <2>9, <2>17
    <3>3. AllBlocks' \subseteq Nat \ {0} /\ \A x \in AllBlocks' : size'[x] \in Nat \ {0}
      BY <1>2, <2>2, <2>9, <2>15, <3>1, <3>2
    <3>4. ASSUME NEW x \in AllBlocks PROVE x + size[x] <= brk
      <4>1. x + size[x] - 1 \in Heap
        BY <3>1
      <4> QED
        BY <1>2, <3>1, <4>1 DEF Heap
    <3>5. ASSUME NEW x \in AllBlocks', NEW y \in AllBlocks', x < y PROVE x + size'[x] <= y
      BY <1>2, <2>15, <3>1, <3>2, <3>4, <3>5
    <3>6. ASSUME NEW x \in AllBlocks', NEW u \in Nat, x <= u, u < x + size'[x] PROVE u \in Heap'
      BY <2>9, <2>15, <2>16, <3>1, <3>2, <3>6
    <3>7. ASSUME NEW u \in Heap' PROVE u \in Nat /\ \E x \in AllBlocks' : x <= u /\ u < x + size'[x]
      <4>1. CASE u \in Heap
        BY <2>15, <3>1, <3>2, <4>1
      <4>2. CASE u \in Nat /\ brk <= u /\ u < brk + k
        BY <2>9, <2>15, <4>2
      <4> QED
        BY <2>16, <4>1, <4>2
    <3> QED
      BY <3>3, <3>5, <3>6, <3>7 DEF Packed
  <2>19. Packed(AllBlocks, size, Heap)'
    BY <2>18 DEF Packed
  <2> QED
    BY <2>11, <2>12, <2>13, <2>14, <2>19 DEF HeapInv
<1> QED
  BY <1>4, <1>5

LEMMA CarveInv ==
  ASSUME HeapInv, Carve
  PROVE  HeapInv'
<1>1. op.pc = "scan" /\ brk' = brk /\ gaps' = gaps /\ op' = NoCall /\ freep' = op.prevp
  BY DEF Carve
<1>2. /\ brk \in Nat \ {0} /\ gaps \subseteq 1 .. brk - 1 /\ size[0] = 0
      /\ DOMAIN size = DOMAIN next \cup used \cup Pending /\ op.n \in Nat \ {0}
      /\ DOMAIN next \cap (used \cup Pending) = {} /\ used \cap Pending = {}
      /\ op.prevp \in DOMAIN next /\ next[op.prevp] = op.p
  BY <1>1 DEF HeapInv, HeapType, CallAt
<1>3. Pending = {}
  BY <1>1 DEF Pending
<1>4. /\ op' \in [pc : {"idle", "scan", "free", "corefree"}, n : Nat, prevp : Nat, p : Nat, bp : Nat]
      /\ op'.pc = "idle"
  BY <1>1 DEF NoCall
<1>5. Pending' = {} /\ CallAt'
  BY <1>4 DEF Pending, CallAt
<1>6. PICK p, n, r : p = op.p /\ n = op.n /\ r = op.prevp
  OBVIOUS
<1>7. Ring(next) /\ 0 \in DOMAIN next /\ p \in DOMAIN next /\ r \in DOMAIN next /\ next[r] = p
  BY <1>2, <1>6 DEF HeapInv, Ring, Base
<1>8. size[p] >= n /\ n \in Nat \ {0}
  BY <1>2, <1>6 DEF Carve
<1>9. p # 0 /\ p \in AllBlocks /\ p \in Nat \ {0} /\ size[p] \in Nat \ {0}
  <2>1. p # 0
    BY <1>2, <1>8
  <2>2. p \in AllBlocks
    BY <1>7, <2>1 DEF AllBlocks
  <2> QED
    BY <2>1, <2>2, BlocksBelow
<1>10. Heap' = Heap
  BY <1>1 DEF Heap
<1>11. CASE size[p] = n
  <2>1. p + size[p] - n = p
    BY <1>8, <1>9, <1>11
  <2>2. next' = Drop([next EXCEPT ![r] = next[p]], p) /\ size' = size /\ used' = used \cup {p}
    BY <1>6, <1>11, <2>1 DEF Carve
  <2>3. PICK f : f = [next EXCEPT ![r] = next[p]]
    OBVIOUS
  <2>4. /\ DOMAIN f = DOMAIN next /\ f[r] = next[p]
        /\ \A x \in DOMAIN next \ {r} : f[x] = next[x]
    BY <1>7, <2>3
  <2>5. /\ DOMAIN next' = DOMAIN next \ {p} /\ \A x \in DOMAIN next \ {p} : next'[x] = f[x]
    BY <2>2, <2>3, <2>4, DropIs
  <2>6. r # p
    BY <1>7, <1>9 DEF Ring
  <2>7. PICK ny : ny = next'
    OBVIOUS
  <2>8. /\ DOMAIN ny = DOMAIN next \ {next[r]} /\ ny[r] = next[next[r]]
        /\ \A x \in DOMAIN next \ {r, next[r]} : ny[x] = next[x]
    BY <1>7, <2>4, <2>5, <2>6, <2>7
  <2>9. Ring(ny)
    BY <1>7, <1>9, <2>8, RingRemove
  <2>10. Ring(next)'
    BY <2>7, <2>9 DEF Ring, Base
  <2>11. AllBlocks' = AllBlocks
    BY <1>3, <1>5, <1>7, <1>9, <2>2, <2>5 DEF AllBlocks
  <2>12. Packed(AllBlocks, size, Heap)'
    BY <1>10, <2>2, <2>11 DEF HeapInv, Packed
  <2>13. NoneJoin(DOMAIN next, size)'
    BY <2>2, <2>5 DEF HeapInv, NoneJoin
  <2>14. HeapType'
    <3>1. DOMAIN size' = DOMAIN next' \cup used' \cup Pending'
      BY <1>2, <1>3, <1>5, <1>7, <2>2, <2>5
    <3>2. DOMAIN next' \cap (used' \cup Pending') = {} /\ used' \cap Pending' = {}
      BY <1>2, <1>5, <2>2, <2>5
    <3>3. freep' \in DOMAIN next'
      BY <1>1, <1>6, <1>7, <2>5, <2>6
    <3> QED
      BY <1>1, <1>2, <1>4, <2>2, <3>1, <3>2, <3>3 DEF HeapType
  <2> QED
    BY <1>5, <2>10, <2>12, <2>13, <2>14 DEF HeapInv
<1>12. CASE size[p] # n
  <2>1. PICK c : c = p + size[p] - n
    OBVIOUS
  <2>2. PICK f : f = [size EXCEPT ![p] = size[p] - n]
    OBVIOUS
  <2>3. next' = next /\ size' = Put(f, c, n) /\ used' = used \cup {c}
    BY <1>6, <1>12, <2>1, <2>2 DEF Carve
  <2>4. DOMAIN f = DOMAIN size /\ p \in DOMAIN size
    BY <1>2, <1>7, <2>2
  <2>5. f[p] = size[p] - n /\ \A x \in DOMAIN size \ {p} : f[x] = size[x]
    BY <2>2, <2>4
  <2>6. c # p /\ n < size[p]
    BY <1>8, <1>9, <1>12, <2>1
  <2>7. /\ DOMAIN size' = DOMAIN size \cup {c} /\ size'[c] = n /\ size'[p] = size[p] - n
        /\ \A x \in DOMAIN size \ {p, c} : size'[x] = size[x]
    <3>1. /\ DOMAIN Put(f, c, n) = DOMAIN f \cup {c} /\ Put(f, c, n)[c] = n
          /\ \A y \in DOMAIN f \ {c} : Put(f, c, n)[y] = f[y]
      BY DEF Put
    <3> QED
      BY <2>3, <2>4, <2>5, <2>6, <3>1
  <2>8. AllBlocks \subseteq DOMAIN size
    BY <1>2 DEF AllBlocks
  <2>9. PICK sy : sy = size'
    OBVIOUS
  <2>10. /\ sy[c] = n /\ sy[p] = size[p] - n
         /\ \A x \in AllBlocks \ {p} : x # c => sy[x] = size[x]
    BY <2>7, <2>8, <2>9
  <2>11. Packed(AllBlocks, size, Heap)
    BY DEF HeapInv
  <2>12. c \in Nat \ {0} /\ c \notin AllBlocks /\ Packed(AllBlocks \cup {c}, sy, Heap) /\ p < c
    <3>1. PICK B, sx, U : B = AllBlocks /\ sx = size /\ U = Heap
      OBVIOUS
    <3>2. /\ Packed(B, sx, U) /\ p \in B /\ n \in Nat \ {0} /\ n < sx[p] /\ c = p + sx[p] - n
          /\ sy[p] = sx[p] - n /\ sy[c] = n /\ \A x \in B \ {p} : x # c => sy[x] = sx[x]
      BY <1>8, <1>9, <2>1, <2>6, <2>10, <2>11, <3>1
    <3>3. c \in Nat \ {0} /\ c \notin B /\ Packed(B \cup {c}, sy, U) /\ p < c
      BY <3>2, PackedSplit
    <3> QED
      BY <3>1, <3>3
  <2>13. c \notin DOMAIN next /\ c \notin used
    BY <2>12 DEF AllBlocks
  <2>14. AllBlocks' = AllBlocks \cup {c}
    BY <1>3, <1>5, <2>3 DEF AllBlocks
  <2>15. Packed(AllBlocks, size, Heap)'
    BY <1>10, <2>9, <2>12, <2>14 DEF Packed
  <2>16. Ring(next)'
    BY <1>7, <2>3 DEF Ring, Base
  <2>17. NoneJoin(DOMAIN next, size)'
    <3>1. ASSUME NEW x \in DOMAIN next \ {0}, NEW y \in DOMAIN next \ {0} PROVE x + size'[x] # y
      <4>1. CASE x = p
        <5>1. x + size'[x] = c
          BY <1>8, <1>9, <2>1, <2>7, <4>1
        <5> QED
          BY <2>13, <5>1
      <4>2. CASE x # p
        <5>1. size'[x] = size[x]
          BY <1>2, <2>7, <2>13, <4>2
        <5> QED
          BY <5>1 DEF HeapInv, NoneJoin
      <4> QED
        BY <4>1, <4>2
    <3> QED
      BY <2>3, <3>1 DEF NoneJoin
  <2>18. HeapType'
    <3>1. DOMAIN size' = DOMAIN next' \cup used' \cup Pending'
      BY <1>2, <1>3, <1>5, <2>3, <2>7
    <3>2. DOMAIN next' \cap (used' \cup Pending') = {} /\ used' \cap Pending' = {}
      BY <1>2, <1>5, <2>3, <2>13
    <3>3. freep' \in DOMAIN next'
      BY <1>1, <1>6, <1>7, <2>3
    <3>4. size'[0] = 0
      BY <1>2, <1>7, <1>9, <2>7, <2>12
    <3> QED
      BY <1>1, <1>2, <1>4, <3>1, <3>2, <3>3, <3>4 DEF HeapType
  <2> QED
    BY <1>5, <2>15, <2>16, <2>17, <2>18 DEF HeapInv
<1> QED
  BY <1>11, <1>12

\* Where free() stops is the place of the block in the list.
LEMMA PlaceFound ==
  ASSUME HeapInv, op.pc \in {"free", "corefree"}, Between(op.p, op.bp) \/ AtEnds(op.p, op.bp)
  PROVE  /\ op.p \in DOMAIN next /\ op.p \in Nat /\ op.bp \in Nat \ {0} /\ op.bp \in AllBlocks
         /\ op.bp \notin DOMAIN next /\ op.bp \notin used
         /\ op.p < op.bp
         /\ \/ next[op.p] > op.bp /\ \A x \in DOMAIN next : x <= op.p \/ x >= next[op.p]
            \/ next[op.p] = 0 /\ \A x \in DOMAIN next : x <= op.p
<1>1. /\ op.p \in DOMAIN next /\ Pending = {op.bp}
      /\ DOMAIN next \cap (used \cup Pending) = {} /\ used \cap Pending = {}
  BY DEF HeapInv, HeapType, CallAt, Pending
<1>2. op.bp \in AllBlocks /\ op.bp \notin DOMAIN next /\ op.bp \notin used
  BY <1>1 DEF AllBlocks
<1>3. op.bp \in Nat \ {0}
  BY <1>2, BlocksBelow
<1>4. /\ op.p \in Nat /\ next[op.p] \in Nat
      /\ \/ next[op.p] > op.p /\ \A x \in DOMAIN next : x <= op.p \/ x >= next[op.p]
         \/ next[op.p] = 0 /\ \A x \in DOMAIN next : x <= op.p
  BY <1>1 DEF HeapInv, Ring
<1>5. CASE Between(op.p, op.bp)
  BY <1>1, <1>2, <1>3, <1>4, <1>5 DEF Between
<1>6. CASE AtEnds(op.p, op.bp)
  BY <1>1, <1>2, <1>3, <1>4, <1>6 DEF AtEnds
<1> QED
  BY <1>5, <1>6

\* The list and the blocks when the block b has taken in the one above it, or not, and has
\* still to be linked after p: a list nm without b.
Halfway(nm, up, p, b) ==
  /\ Ring(nm) /\ DOMAIN nm \subseteq DOMAIN next /\ p \in DOMAIN nm
  /\ DOMAIN up[1] = DOMAIN nm \cup {b} /\ up[1][b] = nm[p]
  /\ \A x \in DOMAIN nm \ {p} : up[1][x] = nm[x]
  /\ DOMAIN up[2] = DOMAIN nm \cup used \cup {b} /\ up[2][0] = 0
  /\ Packed((DOMAIN nm \ {0}) \cup used \cup {b}, up[2], Heap)
  /\ NoneJoin(DOMAIN nm, up[2]) /\ \A y \in DOMAIN nm \ {0} : b + up[2][b] # y
  /\ \A x \in DOMAIN nm : x <= p \/ x > b

LEMMA UpperJoined ==
  ASSUME HeapInv, op.pc \in {"free", "corefree"}, Between(op.p, op.bp) \/ AtEnds(op.p, op.bp),
         NEW p, NEW b, p = op.p, b = op.bp, NEW up, up = JoinUpper(next, size, p, b)
  PROVE  \E nm : Halfway(nm, up, p, b)
<1>1. /\ p \in DOMAIN next /\ p \in Nat /\ b \in Nat \ {0} /\ b \in AllBlocks
      /\ b \notin DOMAIN next /\ b \notin used /\ p < b
      /\ \/ next[p] > b /\ \A x \in DOMAIN next : x <= p \/ x >= next[p]
         \/ next[p] = 0 /\ \A x \in DOMAIN next : x <= p
  BY PlaceFound
<1>2. PICK q : q = next[p]
  OBVIOUS
<1>3. /\ Ring(next) /\ q \in DOMAIN next /\ q \in Nat /\ DOMAIN next \subseteq Nat /\ 0 \in DOMAIN next
  BY <1>1, <1>2 DEF HeapInv, Ring, Base
<1>4. /\ DOMAIN size = DOMAIN next \cup used \cup {b} /\ size[0] = 0
      /\ DOMAIN next \cap used = {} /\ AllBlocks = (DOMAIN next \ {0}) \cup used \cup {b}
  BY DEF HeapInv, HeapType, Pending, AllBlocks
<1>5. \A x \in DOMAIN next : x <= p \/ x > b
  BY <1>1, <1>2, <1>3
<1>6. /\ Packed(AllBlocks, size, Heap) /\ NoneJoin(DOMAIN next, size)
      /\ \A x \in AllBlocks : size[x] \in Nat \ {0} /\ x \in Nat \ {0}
  BY BlocksBelow DEF HeapInv
<1>7. CASE b + size[b] = q
  <2>1. q # 0 /\ q > b /\ q # p /\ q \in AllBlocks /\ size[b] \in Nat \ {0} /\ size[q] \in Nat \ {0}
    BY <1>1, <1>2, <1>3, <1>4, <1>6, <1>7
  <2>2. PICK f, g, h : /\ f = [x \in DOMAIN next \ {q} |-> next[x]]
                       /\ g = [size EXCEPT ![b] = size[b] + size[q]]
                       /\ h = [x \in DOMAIN next \ {q} |-> IF x = p THEN next[q] ELSE next[x]]
    OBVIOUS
  <2>3. f = Drop(next, q)
    BY <2>2 DEF Drop, Restrict
  <2>4. /\ DOMAIN g = DOMAIN size /\ g[b] = size[b] + size[q]
        /\ \A x \in DOMAIN size \ {b} : g[x] = size[x]
    BY <1>4, <2>2
  <2>5. up = <<Put(f, b, next[q]), Drop(g, q)>>
    BY <1>2, <1>7, <2>2, <2>3 DEF JoinUpper
  <2>6. up[1] = Put(f, b, next[q]) /\ up[2] = Drop(g, q)
    BY <2>5
  <2>7. /\ DOMAIN Put(f, b, next[q]) = DOMAIN f \cup {b} /\ Put(f, b, next[q])[b] = next[q]
        /\ \A y \in DOMAIN f \ {b} : Put(f, b, next[q])[y] = f[y]
    BY DEF Put
  <2>8. /\ DOMAIN f = DOMAIN next \ {q} /\ \A x \in DOMAIN next \ {q} : f[x] = next[x]
    BY <2>2
  <2>9. /\ DOMAIN up[1] = (DOMAIN next \ {q}) \cup {b} /\ up[1][b] = next[q]
        /\ \A x \in DOMAIN next \ {q} : up[1][x] = next[x]
    BY <1>1, <2>6, <2>7, <2>8
  <2>10. /\ DOMAIN up[2] = DOMAIN size \ {q} /\ \A x \in DOMAIN size \ {q} : up[2][x] = g[x]
    <3>1. /\ DOMAIN Drop(g, q) = DOMAIN g \ {q}
          /\ \A y \in DOMAIN g \ {q} : Drop(g, q)[y] = g[y]
      BY DropIs
    <3> QED
      BY <2>4, <2>6, <3>1
  <2>11. /\ DOMAIN h = DOMAIN next \ {q} /\ h[p] = next[q]
         /\ \A x \in DOMAIN next \ {p, q} : h[x] = next[x]
    BY <1>1, <2>1, <2>2
  <2>12. Ring(h)
    BY <1>1, <1>2, <1>3, <2>1, <2>11, RingRemove
  <2>13. /\ up[2][b] = size[b] + size[q] /\ \A x \in DOMAIN size \ {b, q} : up[2][x] = size[x]
    BY <1>1, <1>3, <1>4, <2>1, <2>4, <2>10
  <2>14. Packed((DOMAIN h \ {0}) \cup used \cup {b}, up[2], Heap)
    <3>1. PICK B, sx, sy, U : B = AllBlocks /\ sx = size /\ U = Heap /\ sy = up[2]
      OBVIOUS
    <3>2. /\ Packed(B, sx, U) /\ b \in B /\ q \in B /\ b + sx[b] = q
          /\ sy[b] = sx[b] + sx[q] /\ \A x \in B \ {b, q} : sy[x] = sx[x]
      BY <1>1, <1>4, <1>6, <1>7, <2>1, <2>13, <3>1
    <3>3. Packed(B \ {q}, sy, U)
      BY <3>2, PackedMerge
    <3>4. B \ {q} = (DOMAIN h \ {0}) \cup used \cup {b}
      BY <1>3, <1>4, <2>1, <2>11, <3>1
    <3> QED
      BY <3>1, <3>3, <3>4
  <2>15. NoneJoin(DOMAIN h, up[2])
    <3>1. \A x \in DOMAIN h : up[2][x] = size[x] /\ x \in DOMAIN next
      BY <1>1, <1>4, <2>11, <2>13
    <3> QED
      BY <1>6, <3>1 DEF NoneJoin
  <2>16. ASSUME NEW y \in DOMAIN h \ {0} PROVE b + up[2][b] # y
    <3>1. q + size[q] # y
      BY <1>3, <1>6, <2>1, <2>11 DEF NoneJoin
    <3>2. b + up[2][b] = q + size[q]
      BY <1>1, <1>7, <2>1, <2>13
    <3> QED
      BY <3>1, <3>2
  <2>17. DOMAIN up[2] = DOMAIN h \cup used \cup {b} /\ up[2][0] = 0
    <3>1. DOMAIN up[2] = DOMAIN h \cup used \cup {b}
      BY <1>3, <1>4, <2>1, <2>10, <2>11
    <3>2. up[2][0] = 0
      BY <1>1, <1>3, <1>4, <2>1, <2>13
    <3> QED
      BY <3>1, <3>2
  <2>18. Halfway(h, up, p, b)
    <3>1. DOMAIN h \subseteq DOMAIN next /\ p \in DOMAIN h /\ DOMAIN up[1] = DOMAIN h \cup {b} /\ up[1][b] = h[p]
      BY <1>1, <2>1, <2>9, <2>11
    <3>2. \A x \in DOMAIN h \ {p} : up[1][x] = h[x]
      BY <2>9, <2>11
    <3>3. \A x \in DOMAIN h : x <= p \/ x > b
      BY <1>5, <3>1
    <3> QED
      BY <2>12, <2>14, <2>15, <2>16, <2>17, <3>1, <3>2, <3>3 DEF Halfway
  <2> QED
    BY <2>18
<1>8. CASE b + size[b] # q
  <2>1. up = <<Put(next, b, q), size>>
    BY <1>2, <1>8 DEF JoinUpper
  <2>2. up[1] = Put(next, b, q) /\ up[2] = size
    BY <2>1
  <2>3. /\ DOMAIN Put(next, b, q) = DOMAIN next \cup {b} /\ Put(next, b, q)[b] = q
        /\ \A y \in DOMAIN next \ {b} : Put(next, b, q)[y] = next[y]
    BY DEF Put
  <2>4. /\ DOMAIN up[1] = DOMAIN next \cup {b} /\ up[1][b] = q
        /\ \A x \in DOMAIN next : up[1][x] = next[x]
    BY <1>1, <2>2, <2>3
  <2>5. ASSUME NEW y \in DOMAIN next \ {0}, b + size[b] = y PROVE FALSE
    <3>1. size[b] \in Nat \ {0} /\ y \in Nat /\ y > b
      BY <1>1, <1>3, <1>6, <2>5
    <3>2. q > b /\ y >= q
      BY <1>1, <1>2, <1>3, <3>1
    <3>3. q \in AllBlocks
      BY <1>1, <1>3, <1>4, <3>2
    <3>4. b + size[b] <= q
      BY <1>1, <1>6, <3>2, <3>3 DEF Packed
    <3> QED
      BY <1>1, <1>3, <1>8, <2>5, <3>1, <3>2, <3>4
  <2>6. PICK nm : nm = next
    OBVIOUS
  <2>7. Halfway(nm, up, p, b)
    <3>1. Packed((DOMAIN nm \ {0}) \cup used \cup {b}, up[2], Heap)
      BY <1>4, <1>6, <2>2, <2>6
    <3>2. NoneJoin(DOMAIN nm, up[2]) /\ \A y \in DOMAIN nm \ {0} : b + up[2][b] # y
      BY <1>6, <2>2, <2>5, <2>6
    <3> QED
      BY <1>1, <1>2, <1>3, <1>4, <1>5, <2>2, <2>4, <2>6, <3>1, <3>2 DEF Halfway
  <2> QED
    BY <2>7
<1> QED
  BY <1>7, <1>8

\* The list and the blocks when it has been linked after p, or p has taken it in.
Linked(low, p) ==
  /\ Ring(low[1]) /\ p \in DOMAIN low[1] /\ DOMAIN low[1] \cap used = {}
  /\ DOMAIN low[2] = DOMAIN low[1] \cup used /\ low[2][0] = 0
  /\ Packed((DOMAIN low[1] \ {0}) \cup used, low[2], Heap)
  /\ NoneJoin(DOMAIN low[1], low[2])

LEMMA LowerJoined ==
  ASSUME NEW nm, NEW up, NEW p \in Nat, NEW b \in Nat \ {0}, Halfway(nm, up, p, b), p < b, b \notin used,
         DOMAIN nm \cap used = {}, b \notin DOMAIN nm,
         NEW low, low = JoinLower(up[1], up[2], p, b)
  PROVE  Linked(low, p)
<1>1. /\ Ring(nm) /\ p \in DOMAIN nm /\ DOMAIN nm \subseteq Nat /\ 0 \in DOMAIN nm
      /\ DOMAIN up[1] = DOMAIN nm \cup {b} /\ up[1][b] = nm[p]
      /\ \A x \in DOMAIN nm \ {p} : up[1][x] = nm[x]
      /\ DOMAIN up[2] = DOMAIN nm \cup used \cup {b} /\ up[2][0] = 0
      /\ NoneJoin(DOMAIN nm, up[2]) /\ \A y \in DOMAIN nm \ {0} : b + up[2][b] # y
      /\ \A x \in DOMAIN nm : x <= p \/ x > b
  BY DEF Halfway, Ring, Base
<1>2. PICK B : B = (DOMAIN nm \ {0}) \cup used \cup {b}
  OBVIOUS
<1>3. Packed(B, up[2], Heap) /\ b \in B
  BY <1>2 DEF Halfway
<1>4. \A x \in B : x \in Nat \ {0} /\ up[2][x] \in Nat \ {0}
  BY <1>3 DEF Packed
<1>5. CASE p + up[2][p] = b
  <2>1. p # 0 /\ p \in B /\ up[2][p] \in Nat \ {0} /\ up[2][b] \in Nat \ {0}
    BY <1>1, <1>2, <1>3, <1>4, <1>5
  <2>2. PICK f, g : /\ f = [up[1] EXCEPT ![p] = up[1][b]]
                    /\ g = [up[2] EXCEPT ![p] = up[2][p] + up[2][b]]
    OBVIOUS
  <2>3. low = <<Drop(f, b), Drop(g, b)>>
    BY <1>5, <2>2 DEF JoinLower
  <2>4. low[1] = Drop(f, b) /\ low[2] = Drop(g, b)
    BY <2>3
  <2>5. /\ DOMAIN f = DOMAIN nm \cup {b} /\ \A x \in DOMAIN nm : f[x] = nm[x]
    BY <1>1, <2>2
  <2>6. /\ DOMAIN g = DOMAIN nm \cup used \cup {b} /\ g[p] = up[2][p] + up[2][b]
        /\ \A x \in DOMAIN up[2] \ {p} : g[x] = up[2][x]
    BY <1>1, <2>2
  <2>7. /\ DOMAIN low[1] = DOMAIN nm /\ \A x \in DOMAIN nm : low[1][x] = nm[x]
    <3>1. /\ DOMAIN Drop(f, b) = DOMAIN f \ {b}
          /\ \A y \in DOMAIN f \ {b} : Drop(f, b)[y] = f[y]
      BY DropIs
    <3> QED
      BY <2>4, <2>5, <3>1
  <2>8. /\ DOMAIN low[2] = DOMAIN nm \cup used /\ low[2][p] = up[2][p] + up[2][b]
        /\ \A x \in (DOMAIN nm \cup used) \ {p} : low[2][x] = up[2][x]
    <3>1. /\ DOMAIN Drop(g, b) = DOMAIN g \ {b}
          /\ \A y \in DOMAIN g \ {b} : Drop(g, b)[y] = g[y]
      BY DropIs
    <3> QED
      BY <1>1, <2>4, <2>6, <3>1
  <2>9. Ring(low[1])
    BY <1>1, <2>7, RingSame
  <2>10. Packed((DOMAIN low[1] \ {0}) \cup used, low[2], Heap)
    <3>1. PICK sx, sy, U : sx = up[2] /\ sy = low[2] /\ U = Heap
      OBVIOUS
    <3>2. \A x \in B \ {p, b} : sy[x] = sx[x]
      BY <1>2, <2>8, <3>1
    <3>3. /\ Packed(B, sx, U) /\ p \in B /\ b \in B /\ p + sx[p] = b /\ sy[p] = sx[p] + sx[b]
      BY <1>3, <1>5, <2>1, <2>8, <3>1
    <3>4. Packed(B \ {b}, sy, U)
      BY <3>2, <3>3, PackedMerge
    <3>5. B \ {b} = (DOMAIN low[1] \ {0}) \cup used
      BY <1>2, <2>7
    <3> QED
      BY <3>1, <3>4, <3>5
  <2>11. NoneJoin(DOMAIN low[1], low[2])
    <3>1. ASSUME NEW x \in DOMAIN nm \ {0}, NEW y \in DOMAIN nm \ {0} PROVE x + low[2][x] # y
      <4>1. CASE x = p
        <5>1. x + low[2][x] = b + up[2][b]
          BY <1>5, <2>1, <2>8, <4>1
        <5> QED
          BY <1>1, <5>1
      <4>2. CASE x # p
        BY <1>1, <2>8, <4>2 DEF NoneJoin
      <4> QED
        BY <4>1, <4>2
    <3> QED
      BY <2>7, <3>1 DEF NoneJoin
  <2>12. low[2][0] = 0
    BY <1>1, <2>1, <2>8
  <2> QED
    BY <1>1, <2>7, <2>8, <2>9, <2>10, <2>11, <2>12 DEF Linked
<1>6. CASE p + up[2][p] # b
  <2>1. low = <<[up[1] EXCEPT ![p] = b], up[2]>>
    BY <1>6 DEF JoinLower
  <2>2. low[1] = [up[1] EXCEPT ![p] = b] /\ low[2] = up[2]
    BY <2>1
  <2>3. /\ DOMAIN low[1] = DOMAIN nm \cup {b} /\ low[1][p] = b /\ low[1][b] = nm[p]
        /\ \A x \in DOMAIN nm \ {p} : low[1][x] = nm[x]
    BY <1>1, <2>2
  <2>4. Ring(low[1])
    BY <1>1, <2>3, RingInsert
  <2>5. (DOMAIN low[1] \ {0}) \cup used = B
    BY <1>2, <2>3
  <2>6. Packed((DOMAIN low[1] \ {0}) \cup used, low[2], Heap)
    BY <1>3, <2>2, <2>5
  <2>7. ASSUME NEW x \in DOMAIN nm \ {0}, x + up[2][x] = b PROVE FALSE
    <3>1. x \in B /\ x \in Nat \ {0} /\ up[2][x] \in Nat \ {0}
      BY <1>2, <1>4
    <3>2. x < p
      BY <1>1, <1>6, <2>7, <3>1
    <3>3. p \in B
      BY <1>1, <1>2, <3>1, <3>2
    <3>4. x + up[2][x] <= p
      BY <1>3, <3>1, <3>2, <3>3 DEF Packed
    <3> QED
      BY <2>7, <3>1, <3>4
  <2>8. NoneJoin(DOMAIN low[1], low[2])
    <3>1. ASSUME NEW x \in (DOMAIN nm \cup {b}) \ {0}, NEW y \in (DOMAIN nm \cup {b}) \ {0} PROVE x + up[2][x] # y
      <4>1. CASE x = b /\ y = b
        BY <1>3, <1>4, <4>1
      <4>2. CASE x = b /\ y # b
        BY <1>1, <4>2
      <4>3. CASE x # b /\ y = b
        BY <2>7, <4>3
      <4>4. CASE x # b /\ y # b
        BY <1>1, <4>4 DEF NoneJoin
      <4> QED
        BY <4>1, <4>2, <4>3, <4>4
    <3> QED
      BY <2>2, <2>3, <3>1 DEF NoneJoin
  <2> QED
    BY <1>1, <2>2, <2>3, <2>4, <2>6, <2>8 DEF Linked
<1> QED
  BY <1>5, <1>6

LEMMA FreeLinkInv ==
  ASSUME HeapInv, FreeLink
  PROVE  HeapInv'
<1>1. PICK p, b : p = op.p /\ b = op.bp
  OBVIOUS
<1>2. PICK up : up = JoinUpper(next, size, p, b)
  OBVIOUS
<1>3. PICK low : low = JoinLower(up[1], up[2], p, b)
  OBVIOUS
<1>4. /\ op.pc \in {"free", "corefree"} /\ (Between(p, b) \/ AtEnds(p, b))
      /\ next' = low[1] /\ size' = low[2] /\ freep' = p /\ UNCHANGED <<used, brk, gaps>>
      /\ op' = IF op.pc = "free" THEN NoCall
               ELSE [op EXCEPT !.pc = "scan", !.prevp = p, !.p = low[1][p], !.bp = 0]
  BY <1>1, <1>2, <1>3 DEF FreeLink
<1>5. /\ p \in DOMAIN next /\ p \in Nat /\ b \in Nat \ {0} /\ b \notin DOMAIN next /\ b \notin used /\ p < b
  BY <1>1, <1>4, PlaceFound
<1>6. PICK nm : Halfway(nm, up, p, b)
  BY <1>1, <1>2, <1>4, UpperJoined
<1>7. DOMAIN next \cap used = {} /\ brk \in Nat \ {0} /\ gaps \subseteq 1 .. brk - 1
  BY DEF HeapInv, HeapType
<1>8. DOMAIN nm \subseteq DOMAIN next
  BY <1>6 DEF Halfway
<1>9. /\ Ring(low[1]) /\ p \in DOMAIN low[1] /\ DOMAIN low[1] \cap used = {}
      /\ DOMAIN low[2] = DOMAIN low[1] \cup used /\ low[2][0] = 0
      /\ Packed((DOMAIN low[1] \ {0}) \cup used, low[2], Heap)
      /\ NoneJoin(DOMAIN low[1], low[2])
  <2>1. DOMAIN nm \cap used = {} /\ b \notin DOMAIN nm
    BY <1>5, <1>7, <1>8
  <2>2. Linked(low, p)
    BY <1>3, <1>5, <1>6, <2>1, LowerJoined
  <2> QED
    BY <2>2 DEF Linked
<1>10. low[1][p] \in DOMAIN low[1] /\ low[1][p] \in Nat
  BY <1>9 DEF Ring
<1>11. /\ op' \in [pc : {"idle", "scan", "free", "corefree"}, n : Nat, prevp : Nat, p : Nat, bp : Nat]
       /\ op'.pc \in {"idle", "scan"} /\ CallAt'
  <2>1. op \in [pc : {"idle", "scan", "free", "corefree"}, n : Nat, prevp : Nat, p : Nat, bp : Nat]
    BY DEF HeapInv, HeapType
  <2>2. CASE op.pc = "free"
    <3>1. op' = NoCall
      BY <1>4, <2>2
    <3> QED
      BY <3>1 DEF NoCall, CallAt
  <2>3. CASE op.pc = "corefree"
    <3>1. op' = [op EXCEPT !.pc = "scan", !.prevp = p, !.p = low[1][p], !.bp = 0]
      BY <1>4, <2>3
    <3>2. /\ op' \in [pc : {"idle", "scan", "free", "corefree"}, n : Nat, prevp : Nat, p : Nat, bp : Nat]
          /\ op'.pc = "scan" /\ op'.prevp = p /\ op'.p = low[1][p] /\ op'.n = op.n
      BY <1>5, <1>10, <2>1, <3>1
    <3>3. op.n > 0
      BY <2>3 DEF HeapInv, CallAt
    <3> QED
      BY <1>4, <1>9, <3>2, <3>3 DEF CallAt
  <2> QED
    BY <1>4, <2>2, <2>3
<1>12. Pending' = {}
  BY <1>11 DEF Pending
<1>13. HeapType'
  BY <1>4, <1>7, <1>9, <1>11, <1>12 DEF HeapType
<1>14. Ring(next)' /\ NoneJoin(DOMAIN next, size)'
  BY <1>4, <1>9 DEF Ring, NoneJoin, Base
<1>15. Heap' = Heap /\ AllBlocks' = (DOMAIN low[1] \ {0}) \cup used
  BY <1>4, <1>12 DEF Heap, AllBlocks
<1>16. Packed(AllBlocks, size, Heap)'
  BY <1>4, <1>9, <1>15 DEF Packed
<1> QED
  BY <1>11, <1>13, <1>14, <1>16 DEF HeapInv

LEMMA HeapInvariance ==
  ASSUME HeapInv, [HeapNext]_heapVars
  PROVE  HeapInv'
<1>1. CASE HeapNext
  <2>1. CASE HeapStep
    BY <2>1, CarveInv, ScanInv, MorecoreInv, FreeScanInv, FreeLinkInv DEF HeapStep
  <2>2. CASE UserSbrk
    BY <2>2, SbrkInv
  <2>3. CASE \E n \in 1 .. MaxUnits : Malloc(n)
    BY <2>3, MallocInv
  <2>4. CASE \E b \in used : Free(b)
    BY <2>4, FreeInv
  <2> QED
    BY <1>1, <2>1, <2>2, <2>3, <2>4 DEF HeapNext
<1>2. CASE UNCHANGED heapVars
  <2>1. /\ next' = next /\ size' = size /\ freep' = freep /\ used' = used /\ brk' = brk /\ gaps' = gaps
        /\ op' = op
    BY <1>2 DEF heapVars
  <2> QED
    BY <2>1 DEF HeapInv, HeapType, CallAt, Ring, Packed, NoneJoin, AllBlocks, Pending, Heap, Base
<1> QED
  BY <1>1, <1>2

-----------------------------------------------------------------------------
(* What the invariant gives.                                                *)

\* A walk from freep comes by all the free blocks.
LEMMA AllListed ==
  ASSUME HeapInv
  PROVE  Listed = DOMAIN next
<1>1. Ring(next) /\ freep \in DOMAIN next /\ DOMAIN next \subseteq Nat /\ 0 \in DOMAIN next /\ brk \in Nat
  BY DEF HeapInv, HeapType, Ring, Base
<1>2. ASSUME NEW W \in SUBSET DOMAIN next, Closed(W), NEW x \in DOMAIN next, x \notin W PROVE FALSE
  <2>1. freep \in W /\ \A y \in W : next[y] \in W
    BY <1>1, <1>2 DEF Closed, Ring
  <2>2. 0 \in W
    <3>1. W \in SUBSET Nat /\ W # {} /\ \A y \in W : y <= brk
      BY <1>1, <2>1, BlocksBelow
    <3>2. PICK m \in W : \A y \in W : y <= m
      BY <1>1, <3>1, HasGreatest
    <3>3. /\ next[m] \in W /\ next[m] <= m /\ m \in Nat /\ next[m] \in Nat
      BY <1>1, <2>1, <3>1, <3>2
    <3>4. next[m] > m \/ next[m] = 0
      BY <1>1 DEF Ring
    <3> QED
      BY <3>3, <3>4
  <2>3. PICK Z : Z = DOMAIN next \ W
    OBVIOUS
  <2>4. Z \in SUBSET Nat /\ Z # {}
    BY <1>1, <1>2, <2>3
  <2>5. PICK z \in Z : \A y \in Z : z <= y
    BY <2>4, HasLeast
  <2>6. z \in Nat \ {0} /\ z \in DOMAIN next /\ z \notin W
    BY <2>2, <2>3, <2>4
  <2>7. PICK m \in DOMAIN next : /\ m < z /\ \A y \in DOMAIN next : y <= m \/ y >= z
                                 /\ next[m] >= z \/ (next[m] = 0 /\ \A y \in DOMAIN next : y <= m)
    BY <1>1, <2>6, RingPlace
  <2>8. m \in W
    BY <1>1, <2>3, <2>5, <2>6, <2>7
  <2>9. next[m] >= z /\ next[m] \in Nat /\ next[m] > m /\ m \in Nat
    BY <1>1, <2>1, <2>6, <2>7, <2>8
  <2>10. z <= m \/ z >= next[m]
    BY <1>1, <2>6, <2>9 DEF Ring
  <2>11. next[m] = z
    BY <2>6, <2>7, <2>9, <2>10
  <2> QED
    BY <2>1, <2>6, <2>8, <2>11
<1> QED
  BY <1>2 DEF Listed

LEMMA HeapIsPartitioned ==
  ASSUME HeapInv
  PROVE  HeapPartition
<1>1. SUFFICES ASSUME op.pc = "idle"
               PROVE  LET blocks == (Listed \cup used) \ {Base} IN
                      /\ Listed \cap used = {}
                      /\ UNION {Block(b) : b \in blocks} = (1 .. brk - 1) \ gaps
                      /\ \A b, c \in blocks : b # c => Block(b) \cap Block(c) = {}
  BY DEF HeapPartition
<1>2. /\ Listed = DOMAIN next /\ Pending = {} /\ DOMAIN next \cap used = {} /\ 0 \in DOMAIN next
  BY <1>1, AllListed DEF HeapInv, HeapType, Pending, Ring, Base
<1>3. PICK B : B = (Listed \cup used) \ {Base}
  OBVIOUS
<1>4. B = AllBlocks
  BY <1>2, <1>3 DEF AllBlocks, Base
<1>5. /\ \A x \in B : x \in Nat \ {0} /\ size[x] \in Nat \ {0}
      /\ \A x, y \in B : x < y => x + size[x] <= y
      /\ \A x \in B : \A u \in Nat : x <= u /\ u < x + size[x] => u \in Heap
      /\ \A u \in Heap : u \in Nat /\ \E x \in B : x <= u /\ u < x + size[x]
  BY <1>4 DEF HeapInv, Packed
<1>6. \A x \in B : \A u : u \in Block(x) <=> u \in Nat /\ x <= u /\ u < x + size[x]
  BY <1>5 DEF Block
<1>7. UNION {Block(b) : b \in B} = Heap
  <2>1. ASSUME NEW u \in Heap PROVE \E x \in B : u \in Block(x)
    BY <1>5, <1>6
  <2>2. ASSUME NEW x \in B, NEW u \in Block(x) PROVE u \in Heap
    BY <1>5, <1>6
  <2> QED
    BY <2>1, <2>2
<1>8. ASSUME NEW x \in B, NEW y \in B, x # y, NEW u \in Block(x), u \in Block(y) PROVE FALSE
  <2>1. x < y \/ y < x
    BY <1>5, <1>8
  <2> QED
    BY <1>5, <1>6, <1>8, <2>1
<1> QED
  BY <1>2, <1>3, <1>7, <1>8 DEF Heap

LEMMA ScansHaveAnEnd ==
  ASSUME HeapInv
  PROVE  ScansEnd
<1>1. Listed = DOMAIN next /\ Ring(next) /\ DOMAIN next \subseteq Nat /\ 0 \in DOMAIN next /\ freep \in DOMAIN next
  BY AllListed DEF HeapInv, HeapType, Ring, Base
<1>2. ASSUME op.pc \in {"free", "corefree"}
      PROVE  \E p \in Listed : Between(p, op.bp) \/ AtEnds(p, op.bp)
  <2>1. op.bp \in Nat \ {0} /\ op.bp \notin DOMAIN next
    <3>1. op.bp \in AllBlocks /\ op.bp \in Pending
      BY <1>2 DEF AllBlocks, Pending
    <3> QED
      BY <3>1, BlocksBelow DEF HeapInv, HeapType
  <2>2. PICK m \in DOMAIN next : /\ m < op.bp
                                 /\ next[m] >= op.bp \/ (next[m] = 0 /\ \A y \in DOMAIN next : y <= m)
    BY <1>1, <2>1, RingPlace
  <2>3. next[m] \in DOMAIN next /\ next[m] \in Nat /\ m \in Nat
    BY <1>1 DEF Ring
  <2>4. next[m] # op.bp
    BY <2>1, <2>3
  <2> QED
    BY <1>1, <2>1, <2>2, <2>3, <2>4 DEF Between, AtEnds
<1>3. \E p \in Listed : next[p] = freep
  <2>1. CASE freep = 0
    <3>1. \A x \in DOMAIN next : x <= brk
      BY BlocksBelow
    <3>2. brk \in Nat /\ DOMAIN next \in SUBSET Nat /\ DOMAIN next # {}
      BY <1>1 DEF HeapInv, HeapType
    <3>3. PICK m \in DOMAIN next : \A y \in DOMAIN next : y <= m
      BY <3>1, <3>2, HasGreatest
    <3>4. next[m] \in DOMAIN next /\ (next[m] > m \/ next[m] = 0) /\ m \in Nat /\ next[m] \in Nat
      BY <1>1 DEF Ring
    <3> QED
      BY <1>1, <2>1, <3>3, <3>4
  <2>2. CASE freep # 0
    <3>1. freep \in Nat \ {0}
      BY <1>1, <2>2
    <3>2. PICK m \in DOMAIN next : /\ m < freep
                                   /\ next[m] >= freep \/ (next[m] = 0 /\ \A y \in DOMAIN next : y <= m)
      BY <1>1, <3>1, RingPlace
    <3>3. m \in Nat /\ next[m] >= freep /\ next[m] \in Nat
      BY <1>1, <3>1, <3>2 DEF Ring
    <3>4. freep <= m \/ freep >= next[m]
      BY <1>1, <3>1, <3>2, <3>3 DEF Ring
    <3>5. next[m] = freep
      BY <3>1, <3>2, <3>3, <3>4
    <3> QED
      BY <1>1, <3>5
  <2> QED
    BY <2>1, <2>2
<1>4. op.pc = "scan" => op.p \in Listed /\ next[op.prevp] = op.p
  BY <1>1 DEF HeapInv, CallAt, Ring
<1> QED
  BY <1>2, <1>3, <1>4 DEF ScansEnd

\* In a heap of any size, wherever free() and malloc() leave freep and whoever else calls
\* sbrk(): no unit is lost or handed out twice, free neighbours are joined, and every scan
\* of the list comes to its end.
THEOREM HeapIsSound == HeapSpec => []HeapSound
<1>1. HeapInit => HeapInv
  BY HeapInitInv
<1>2. HeapInv /\ [HeapNext]_heapVars => HeapInv'
  BY HeapInvariance
<1>3. HeapInv => HeapSound
  <2>1. ASSUME HeapInv PROVE Coalesced
    BY <2>1, AllListed DEF HeapInv, NoneJoin, Coalesced, Base
  <2> QED
    BY <2>1, HeapIsPartitioned, ScansHaveAnEnd DEF HeapSound
<1> QED
  BY <1>1, <1>2, <1>3, PTL DEF HeapSpec
=============================================================================
