---------------------------------- MODULE Vm ----------------------------------
(***************************************************************************)
(* User memory of lab-2: the page allocator (kalloc.c), page tables        *)
(* (vm.c), exec.c, and growproc() and fork() of proc_original.c as far as  *)
(* they deal with memory.  An address is a number of bytes; a page table   *)
(* holds NPT entries and the user half of a page directory NPD tables.     *)
(* Every kalloc() is a step, so that memory runs out in the middle of any  *)
(* call, theirs or another's; a panic is a call that goes no further.      *)
(***************************************************************************)
EXTENDS Integers, FiniteSets, TLC

CONSTANTS
  Procs, InitProc,
  Pages, NoPage,  \* physical pages
  PGSIZE, NPT, NPD,
  KVM,            \* pages setupkvm() needs: the directory and the kernel's tables
  Vals, Junk,     \* contents of a byte, and what kfree() fills pages with
  Programs,       \* what exec() may find: the contents of a program, address -> value
  Increments,     \* bound: arguments of sbrk()
  Targets,        \* bound: addresses user programs write to
  NoImage

KERNBASE == NPD * NPT * PGSIZE
VPNs == 0 .. NPD * NPT - 1
Offsets == 0 .. PGSIZE - 1
PDX(v) == v \div NPT
PGROUNDUP(n) == (n + PGSIZE - 1) \div PGSIZE        \* as a number of pages

ASSUME VmAssumption ==
  /\ PGSIZE \in Nat \ {0} /\ NPT \in Nat \ {0} /\ NPD \in Nat \ {0} /\ KVM \in Nat \ {0}
  /\ InitProc \in Procs /\ NoPage \notin Pages /\ 0 \in Vals /\ Junk \notin Vals
  /\ IsFiniteSet(Pages) /\ Cardinality(Pages) >= KVM + 2
  /\ Increments \subseteq Int /\ Targets \subseteq Nat

ASSUME ProgramsAssumption ==
  /\ \A f \in Programs : /\ f \in [DOMAIN f -> Vals] /\ IsFiniteSet(DOMAIN f)
                           /\ DOMAIN f = 0 .. Cardinality(DOMAIN f) - 1
                           /\ Cardinality(DOMAIN f) < KERNBASE
  /\ \A A \in SUBSET (0 .. KERNBASE - 1) : NoImage \notin [A -> Vals \cup {Junk}]

VARIABLES
  free,           \* kmem.freelist
  mem,            \* contents of physical pages
  pgdir, sz,      \* struct proc; pgdir is the page table itself
  new,            \* page table under construction in fork() or exec()
  job             \* what a process is doing; job.page is the local mem: a page it
                  \* has from kalloc() and not yet in a page table

vmVars == <<free, mem, pgdir, sz, new, job>>

\* A page table: its kernel pages, tables of the user half, entries and the
\* entries without PTE_U.
NoSpace == [kvm |-> {}, pde |-> [d \in 0 .. NPD - 1 |-> NoPage],
            pte |-> [v \in VPNs |-> NoPage], guard |-> {}]
PagesOf(s) == s.kvm \cup (({s.pde[d] : d \in 0 .. NPD - 1} \cup {s.pte[v] : v \in VPNs}) \ {NoPage})

Nothing == [call |-> "none", at |-> 0, to |-> 0, child |-> InitProc, prog |-> <<>>,
            page |-> NoPage]
InHand(p) == {job[p].page} \ {NoPage}

Zeroes == [o \in Offsets |-> 0]
Filled == [o \in Offsets |-> Junk]

\* kinit(), then userinit() and inituvm() for the first process.
VmInit ==
  LET k == CHOOSE x \in SUBSET Pages : Cardinality(x) = KVM
      t == CHOOSE x \in Pages \ k : TRUE
      m == CHOOSE x \in Pages \ (k \cup {t}) : TRUE
  IN /\ free = Pages \ (k \cup {t, m})
     /\ mem = [g \in Pages |-> IF g = m THEN Zeroes ELSE Filled]
     /\ pgdir = [p \in Procs |-> IF p # InitProc THEN NoSpace
                   ELSE [NoSpace EXCEPT !.kvm = k, !.pde[0] = t, !.pte[0] = m]]
     /\ sz = [p \in Procs |-> IF p = InitProc THEN PGSIZE ELSE 0]
     /\ new = [p \in Procs |-> NoSpace] /\ job = [p \in Procs |-> Nothing]

Lives(p) == pgdir[p] # NoSpace

-----------------------------------------------------------------------------
(* kalloc.c.  Pages are alike, so it does not matter which one is taken.    *)

Kalloc(f) == CHOOSE g \in f : TRUE
Kfree(S) == /\ free' = free \cup S
            /\ mem' = [g \in Pages |-> IF g \in S THEN Filled ELSE mem[g]]

\* deallocuvm(pgdir, oldsz, newsz): the entries it clears; tables stay.
Dropped(newsz, oldsz) == {v \in VPNs : PGROUNDUP(newsz) <= v /\ v * PGSIZE < oldsz}
Dealloc(s, newsz, oldsz) ==
  [s EXCEPT !.pte = [v \in VPNs |-> IF v \in Dropped(newsz, oldsz) THEN NoPage ELSE @[v]],
            !.guard = @ \ Dropped(newsz, oldsz)]
Released(s, newsz, oldsz) == {s.pte[v] : v \in Dropped(newsz, oldsz)} \ {NoPage}

-----------------------------------------------------------------------------
(* setupkvm(), allocuvm() and copyuvm(), one kalloc() at a time.            *)

\* setupkvm() in fork() and exec(): the directory, then the kernel's tables.
Setting(p) == job[p].call \in {"fork", "exec"} /\ Cardinality(new[p].kvm) < KVM

Setupkvm(p) ==
  LET g == Kalloc(free) IN
  /\ Setting(p) /\ free # {}
  /\ free' = free \ {g}
  /\ new' = [new EXCEPT ![p].kvm = @ \cup {g}]
  /\ UNCHANGED <<mem, pgdir, sz, job>>

\* The page table a call extends.
Extended(p) == IF job[p].call = "sbrk" THEN pgdir[p] ELSE new[p]
SetExtended(p, s) ==
  IF job[p].call = "sbrk" THEN pgdir' = [pgdir EXCEPT ![p] = s] /\ new' = new
  ELSE new' = [new EXCEPT ![p] = s] /\ pgdir' = pgdir

Extending(p) ==
  /\ job[p].call \in {"sbrk", "fork", "exec", "stack"} /\ ~Setting(p)
  /\ job[p].at * PGSIZE < job[p].to

\* copyuvm() panics if the page is not there.
Copyable(p) == job[p].call = "fork" => pgdir[p].pte[job[p].at] # NoPage

\* The loop is about to call kalloc().
NeedsPage(p) == Extending(p) /\ job[p].page = NoPage /\ Copyable(p)

\* mappages() will have walkpgdir() call kalloc().
NeedsTable(p) == job[p].page # NoPage /\ Extended(p).pde[PDX(job[p].at)] = NoPage

\* Faulty variant: allocuvm() does not clear the page.
FreshUncleared(p, g) == IF job[p].call = "fork" THEN mem[pgdir[p].pte[job[p].at]] ELSE mem[g]

\* memset() in allocuvm(), memmove() in copyuvm().
Fresh(p, g) == IF job[p].call = "fork" THEN mem[pgdir[p].pte[job[p].at]] ELSE Zeroes

TakePage(p) ==
  LET g == Kalloc(free) IN
  /\ NeedsPage(p) /\ free # {}
  /\ free' = free \ {g}
  /\ mem' = [mem EXCEPT ![g] = Fresh(p, g)]
  /\ job' = [job EXCEPT ![p].page = g]
  /\ UNCHANGED <<pgdir, sz, new>>

\* mappages(); walkpgdir() clears the table it takes.
MapPage(p) ==
  LET s == Extended(p)  v == job[p].at  t == Kalloc(free) IN
  /\ job[p].page # NoPage /\ (NeedsTable(p) => free # {})
  /\ free' = IF NeedsTable(p) THEN free \ {t} ELSE free
  /\ SetExtended(p, [s EXCEPT !.pte[v] = job[p].page,
                               !.pde[PDX(v)] = IF NeedsTable(p) THEN t ELSE @,
                               !.guard = IF job[p].call = "fork" /\ v \in pgdir[p].guard
                                         THEN @ \cup {v} ELSE @])
  /\ job' = [job EXCEPT ![p].at = @ + 1, ![p].page = NoPage]
  /\ UNCHANGED <<mem, sz>>

\* Faulty variant: the page that could not be mapped is not freed.
AllocFailsKeepsPage(p) ==
  /\ free = {} /\ (Setting(p) \/ NeedsPage(p) \/ NeedsTable(p))
  /\ IF job[p].call = "sbrk"
     THEN /\ Kfree(Released(pgdir[p], sz[p], job[p].to))
          /\ pgdir' = [pgdir EXCEPT ![p] = Dealloc(@, sz[p], job[p].to)] /\ new' = new
     ELSE /\ Kfree(PagesOf(new[p]))
          /\ new' = [new EXCEPT ![p] = NoSpace] /\ pgdir' = pgdir
  /\ job' = [job EXCEPT ![p] = Nothing]
  /\ UNCHANGED sz

\* kalloc() returns 0, to setupkvm(), to allocuvm() and copyuvm() or to walkpgdir():
\* the page in hand goes back, growproc() shrinks the process again, fork() and
\* exec() free the page table as far as it was built (freevm()).
AllocFails(p) ==
  /\ free = {} /\ (Setting(p) \/ NeedsPage(p) \/ NeedsTable(p))
  /\ IF job[p].call = "sbrk"
     THEN /\ Kfree(Released(pgdir[p], sz[p], job[p].to) \cup InHand(p))
          /\ pgdir' = [pgdir EXCEPT ![p] = Dealloc(@, sz[p], job[p].to)] /\ new' = new
     ELSE /\ Kfree(PagesOf(new[p]) \cup InHand(p))
          /\ new' = [new EXCEPT ![p] = NoSpace] /\ pgdir' = pgdir
  /\ job' = [job EXCEPT ![p] = Nothing]
  /\ UNCHANGED sz

-----------------------------------------------------------------------------
(* sbrk().                                                                  *)

Ready(p) == Lives(p) /\ job[p] = Nothing

\* growproc(n), n > 0.
Grow(p, n) ==
  /\ Ready(p) /\ n > 0 /\ sz[p] + n < KERNBASE
  /\ job' = [job EXCEPT ![p] = [Nothing EXCEPT !.call = "sbrk", !.at = PGROUNDUP(sz[p]),
                                               !.to = sz[p] + n]]
  /\ UNCHANGED <<free, mem, pgdir, sz, new>>

Grown(p) ==
  /\ job[p].call = "sbrk" /\ ~Extending(p)
  /\ sz' = [sz EXCEPT ![p] = job[p].to]
  /\ job' = [job EXCEPT ![p] = Nothing]
  /\ UNCHANGED <<free, mem, pgdir, new>>

\* Faulty variant: the page the new end is in goes too.
ShrinkTooMuch(p, n) ==
  LET cut == ((sz[p] + n) \div PGSIZE) * PGSIZE IN
  /\ Ready(p) /\ n < 0 /\ sz[p] + n > 0
  /\ Kfree(Released(pgdir[p], cut, sz[p]))
  /\ pgdir' = [pgdir EXCEPT ![p] = Dealloc(@, cut, sz[p])]
  /\ sz' = [sz EXCEPT ![p] = @ + n]
  /\ UNCHANGED <<new, job>>

\* growproc(n), n < 0.  If the sum is below 0 it is a large unsigned number and
\* nothing happens.
Shrink(p, n) ==
  /\ Ready(p) /\ n < 0 /\ sz[p] + n > 0
  /\ Kfree(Released(pgdir[p], sz[p] + n, sz[p]))
  /\ pgdir' = [pgdir EXCEPT ![p] = Dealloc(@, sz[p] + n, sz[p])]
  /\ sz' = [sz EXCEPT ![p] = @ + n]
  /\ UNCHANGED <<new, job>>

\* growproc(-sz): deallocuvm() returns the new size, 0, which growproc() takes for
\* its failure: every page is gone, p->sz stays and sbrk() returns -1.
GiveUpAll(p, n) ==
  /\ Ready(p) /\ n < 0 /\ sz[p] + n = 0
  /\ Kfree(Released(pgdir[p], 0, sz[p]))
  /\ pgdir' = [pgdir EXCEPT ![p] = Dealloc(@, 0, sz[p])]
  /\ UNCHANGED <<sz, new, job>>

-----------------------------------------------------------------------------
(* fork() and wait().                                                       *)

Claimed(c) == Lives(c) \/ \E q \in Procs : job[q].call = "fork" /\ job[q].child = c

Fork(p, c) ==
  /\ Ready(p) /\ ~Claimed(c)
  /\ job' = [job EXCEPT ![p] = [Nothing EXCEPT !.call = "fork", !.to = sz[p], !.child = c]]
  /\ UNCHANGED <<free, mem, pgdir, sz, new>>

Forked(p) ==
  LET c == job[p].child IN
  /\ job[p].call = "fork" /\ ~Setting(p) /\ ~Extending(p)
  /\ pgdir' = [pgdir EXCEPT ![c] = new[p]] /\ sz' = [sz EXCEPT ![c] = sz[p]]
  /\ new' = [new EXCEPT ![p] = NoSpace]
  /\ job' = [job EXCEPT ![p] = Nothing]
  /\ UNCHANGED <<free, mem>>

\* Faulty variant: freevm() forgets the page tables.
ExitedKeepsTables(p) ==
  /\ Ready(p) /\ p # InitProc
  /\ Kfree(({pgdir[p].pte[v] : v \in VPNs} \ {NoPage}) \cup pgdir[p].kvm)
  /\ pgdir' = [pgdir EXCEPT ![p] = NoSpace] /\ sz' = [sz EXCEPT ![p] = 0]
  /\ UNCHANGED <<new, job>>

\* freevm() in the parent's wait().
Exited(p) ==
  /\ Ready(p) /\ p # InitProc
  /\ Kfree(PagesOf(pgdir[p]))
  /\ pgdir' = [pgdir EXCEPT ![p] = NoSpace] /\ sz' = [sz EXCEPT ![p] = 0]
  /\ UNCHANGED <<new, job>>

-----------------------------------------------------------------------------
(* exec().                                                                  *)

ExecStart(p, f) ==
  /\ Ready(p)
  /\ job' = [job EXCEPT ![p] = [Nothing EXCEPT !.call = "exec", !.to = Cardinality(DOMAIN f),
                                               !.prog = f]]
  /\ UNCHANGED <<free, mem, pgdir, sz, new>>

\* The part of the program that belongs into page v.
Loaded(page, f, v) ==
  [o \in Offsets |-> IF v * PGSIZE + o \in DOMAIN f THEN f[v * PGSIZE + o] ELSE page[o]]

\* loaduvm(), then the two pages of the stack.
ExecLoad(p) ==
  LET f == job[p].prog  s == new[p]  end == PGROUNDUP(job[p].to) IN
  /\ job[p].call = "exec" /\ ~Setting(p) /\ ~Extending(p)
  /\ mem' = [g \in Pages |->
               IF \E v \in VPNs : s.pte[v] = g
               THEN Loaded(mem[g], f, CHOOSE v \in VPNs : s.pte[v] = g)
               ELSE mem[g]]
  /\ job' = [job EXCEPT ![p].call = IF (end + 2) * PGSIZE < KERNBASE THEN "stack" ELSE "bad",
                        ![p].at = end, ![p].to = (end + 2) * PGSIZE]
  /\ UNCHANGED <<free, pgdir, sz, new>>

\* Between two segments (after any page) the file turns out to be no program or
\* cannot be read; the program is too large, or its arguments are too many.
ExecBad(p) ==
  /\ job[p].call \in {"exec", "stack", "bad"} /\ ~Setting(p) /\ job[p].page = NoPage
  /\ job[p].call = "stack" => ~Extending(p)
  /\ Kfree(PagesOf(new[p]))
  /\ new' = [new EXCEPT ![p] = NoSpace]
  /\ job' = [job EXCEPT ![p] = Nothing]
  /\ UNCHANGED <<pgdir, sz>>

\* copyout() puts the arguments on the stack, the page under it is made
\* inaccessible, and the new page table replaces the old one.
ExecCommit(p, arg) ==
  LET s == [new[p] EXCEPT !.guard = {job[p].to \div PGSIZE - 2}]
      top == s.pte[job[p].to \div PGSIZE - 1]
      freed == PagesOf(pgdir[p])
  IN /\ job[p].call = "stack" /\ ~Extending(p)
     /\ free' = free \cup freed
     /\ mem' = [g \in Pages |-> CASE g \in freed -> Filled
                                  [] g = top -> [mem[g] EXCEPT ![PGSIZE - 1] = arg]
                                  [] OTHER -> mem[g]]
     /\ pgdir' = [pgdir EXCEPT ![p] = s] /\ sz' = [sz EXCEPT ![p] = job[p].to]
     /\ new' = [new EXCEPT ![p] = NoSpace]
     /\ job' = [job EXCEPT ![p] = Nothing]

-----------------------------------------------------------------------------

\* A user program writes where its page table lets it.
Store(p, a, x) ==
  /\ Ready(p) /\ a < KERNBASE
  /\ pgdir[p].pte[a \div PGSIZE] # NoPage /\ a \div PGSIZE \notin pgdir[p].guard
  /\ mem' = [mem EXCEPT ![pgdir[p].pte[a \div PGSIZE]][a % PGSIZE] = x]
  /\ UNCHANGED <<free, pgdir, sz, new, job>>

VmNext ==
  \E p \in Procs :
    \/ Setupkvm(p) \/ TakePage(p) \/ MapPage(p) \/ AllocFails(p)
    \/ Grown(p) \/ Forked(p) \/ Exited(p) \/ ExecLoad(p) \/ ExecBad(p)
    \/ \E n \in Increments : Grow(p, n) \/ Shrink(p, n) \/ GiveUpAll(p, n)
    \/ \E c \in Procs : Fork(p, c)
    \/ \E f \in Programs : ExecStart(p, f)
    \/ \E x \in Vals : ExecCommit(p, x)
    \/ \E a \in Targets, x \in Vals : Store(p, a, x)

VmSpec == VmInit /\ [][VmNext]_vmVars

-----------------------------------------------------------------------------
(* Properties.                                                              *)

Spaces == {<<p, "pgdir">> : p \in Procs} \cup {<<p, "new">> : p \in Procs}
SpaceOf(x) == IF x[2] = "pgdir" THEN pgdir[x[1]] ELSE new[x[1]]
UsedBy(s) == Cardinality(s.kvm) + Cardinality({d \in 0 .. NPD - 1 : s.pde[d] # NoPage})
             + Cardinality({v \in VPNs : s.pte[v] # NoPage})

\* Every physical page is free, in one place of one page table, or in the hand of
\* one call: nothing leaks and nothing is shared, at whichever kalloc() memory ends.
PagesOnce ==
  /\ \A x \in Spaces :
       /\ PagesOf(SpaceOf(x)) \cap free = {}
       /\ Cardinality(PagesOf(SpaceOf(x))) = UsedBy(SpaceOf(x))
       /\ \A y \in Spaces \ {x} : PagesOf(SpaceOf(x)) \cap PagesOf(SpaceOf(y)) = {}
       /\ \A p \in Procs : PagesOf(SpaceOf(x)) \cap InHand(p) = {}
  /\ \A p \in Procs : InHand(p) \cap free = {}
  /\ \A p, q \in Procs : p # q => InHand(p) \cap InHand(q) = {}
  /\ Pages = free \cup (UNION {PagesOf(SpaceOf(x)) : x \in Spaces}) \cup (UNION {InHand(p) : p \in Procs})

\* A process has no page above its size and, unless sbrk(-sz) took all of them, every
\* page below it.  So mappages() never panics ("remap"), and copyuvm() ("page not
\* present") only for a process that has given up its first page.
SizeMapped ==
  \A p \in Procs :
    /\ job[p].call # "sbrk" => \A v \in VPNs :
         /\ pgdir[p].pte[v] # NoPage => v * PGSIZE < sz[p]
         /\ v * PGSIZE < sz[p] => pgdir[p].pte[v] # NoPage \/ pgdir[p].pte[0] = NoPage
    /\ Extending(p) => Extended(p).pte[job[p].at] = NoPage

\* The image of a process as its page table shows it.
Shows(s, n) == {a \in 0 .. PGROUNDUP(n) * PGSIZE - 1 : s.pte[a \div PGSIZE] # NoPage}
Image(p) == [a \in Shows(pgdir[p], sz[p]) |-> mem[pgdir[p].pte[a \div PGSIZE]][a % PGSIZE]]

User == INSTANCE UserMemory WITH
  MaxPages <- NPD * NPT,
  img <- [p \in Procs |-> IF Lives(p) THEN Image(p) ELSE NoImage]

\* Page tables, allocator and error paths together give each process a memory of
\* its own: no stale contents, no page of another process, and no effect of a call
\* that fails, but for sbrk(-sz).
PrivateMemory == User!MemorySpec

\* Page tables and free list agree: each page has one place, and a process that did not
\* give up everything has just the pages its size says, after every failure too.
MemorySound == PagesOnce /\ SizeMapped
=============================================================================
