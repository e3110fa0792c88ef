-------------------------------- MODULE PageMap --------------------------------
(***************************************************************************)
(* Physical page management and the two-level page table of JOS            *)
(* (lab-3/kern/pmap.c), with the monitor's setperm command and the TLB.    *)
(* A page table is the contents of a physical page.  The kernel runs on    *)
(* one CPU with interrupts off, so every function is one step; mem_init()  *)
(* maps its static regions one page per step.                              *)
(*                                                                         *)
(* Clients of page_alloc(), page_insert() and the others keep to the       *)
(* contract in the comments: they hand in pages they were given, and       *)
(* addresses below UTOP.                                                   *)
(***************************************************************************)
EXTENDS Integers, Sequences, FiniteSets

CONSTANTS
  NPAGES,                \* npages
  NBASEMEM, IOHOLE, EXT, \* page numbers: npages_basemem, IOPHYSMEM, EXTPHYSMEM
  KERNEND,               \* PADDR(boot_alloc(0)) / PGSIZE once pages[] is allocated
  PAGESARRAY, BOOTSTACK, \* page numbers of pages[] and bootstack
  PGSIZE, PAGEINFO,      \* bytes of a page and of a struct PageInfo
  NPD, NPT,              \* NPDENTRIES, NPTENTRIES
  UTOPDIR,               \* PDX(UTOP)
  UPAGES, KSTACK, KERNBASE, KSTKSIZE, \* addresses and size, in bytes
  REFMOD,                \* pp_ref counts modulo REFMOD (2^16)
  Bits,                  \* permission bits besides PTE_P
  PermArgs,              \* perm arguments of page_insert()
  SetBits,               \* bits the user of the monitor passes to setperm
  VAs,                   \* <<PDX, PTX>> of the addresses that are used
  NoMap

Page == 0 .. NPAGES - 1
Dirs == 0 .. NPD - 1
Slots == 0 .. NPT - 1
AllBits == Bits \cup {"P"}
Entry == [page : Nat, bits : SUBSET AllBits]

ASSUME PageMapAssumption ==
  /\ NPAGES \in Nat \ {0} /\ NPD \in Nat /\ NPT \in Nat \ {0} /\ UTOPDIR \in 0 .. NPD
  /\ PGSIZE \in Nat \ {0}
  /\ VAs \subseteq Dirs \X Slots /\ "P" \notin Bits
  /\ SetBits \subseteq Bits /\ PermArgs \subseteq SUBSET Bits
  /\ NoMap \notin [page : Nat, bits : SUBSET Bits]
  \* pp_ref has room for the mappings of a page and the one page_insert() adds.
  /\ REFMOD \in Nat /\ Cardinality(VAs) + 1 < REFMOD
  /\ NBASEMEM \in 1 .. NPAGES /\ IOHOLE = NBASEMEM
  /\ EXT \in IOHOLE .. NPAGES /\ KERNEND \in EXT .. NPAGES

VARIABLES
  free,       \* page_free_list
  ref,        \* pp_ref of each page
  pde,        \* kern_pgdir
  mem,        \* contents of each page, as page table entries
  tlb,        \* translation of an address the CPU has cached, or NoMap
  boot        \* <<region, page>> mem_init() maps next

pageVars == <<free, ref, pde, mem, tlb, boot>>

Zero == [page |-> 0, bits |-> {}]
\* What a page that nobody has cleared may hold.
Junk == [page |-> NPAGES - 1, bits |-> AllBits]

UserVAs == {va \in VAs : va[1] < UTOPDIR}

-----------------------------------------------------------------------------
(* page_init().                                                             *)

FreeAtBoot(i) ==
  /\ i >= 1
  /\ \/ i < NBASEMEM
     \/ ~(i >= IOHOLE /\ i < EXT) /\ ~(i >= EXT /\ i < KERNEND)

Reserved == {i \in Page : ~FreeAtBoot(i)}

\* Each free page is pushed in front of the list: the last one comes first.
FreeLists ==
  LET P == Page \ Reserved IN
  {f \in [1 .. Cardinality(P) -> P] : \A j, k \in DOMAIN f : j < k => f[j] > f[k]}

PageInit ==
  /\ free \in FreeLists
  /\ ref = [i \in Page |-> IF FreeAtBoot(i) THEN 0 ELSE 1]
  /\ pde = [d \in Dirs |-> Zero]
  /\ mem = [i \in Page |-> [s \in Slots |-> Junk]]
  /\ tlb = [va \in VAs |-> NoMap]
  /\ boot = <<1, 0>>

-----------------------------------------------------------------------------
(* The functions that others call, on a state of the whole machine.         *)

Now == [free |-> free, ref |-> ref, pde |-> pde, mem |-> mem, tlb |-> tlb]

Becomes(st) ==
  /\ free' = st.free /\ ref' = st.ref /\ pde' = st.pde /\ mem' = st.mem /\ tlb' = st.tlb

Present(e) == "P" \in e.bits

\* pgdir_walk(..., 1) finds or can allocate the page table.
CanWalk(st, d) == Present(st.pde[d]) \/ st.free # <<>>

\* Faulty variant: the new page table is not counted as a reference.
WalkUncounted(st, d) ==
  IF Present(st.pde[d]) THEN st
  ELSE LET pg == Head(st.free) IN
       [st EXCEPT !.free = Tail(@),
                  !.mem[pg] = [s \in Slots |-> Zero],
                  !.pde[d] = [page |-> pg, bits |-> AllBits]]

\* pgdir_walk(..., 1) where it returns an entry.
Walk(st, d) ==
  IF Present(st.pde[d]) THEN st
  ELSE LET pg == Head(st.free) IN
       [st EXCEPT !.free = Tail(@),
                  !.ref[pg] = (@ + 1) % REFMOD,
                  !.mem[pg] = [s \in Slots |-> Zero],
                  !.pde[d] = [page |-> pg, bits |-> AllBits]]

\* *pgdir_walk(pgdir, va, 0), Zero where it returns NULL.
Pte(st, va) == IF Present(st.pde[va[1]]) THEN st.mem[st.pde[va[1]].page][va[2]] ELSE Zero

Store(st, va, e) == [st EXCEPT !.mem[st.pde[va[1]].page][va[2]] = e]

\* Faulty variant: page_decref() does not call page_free().
DecrefLeaks(st, pg) == [st EXCEPT !.ref[pg] = (@ - 1) % REFMOD]

\* page_decref(), with page_free() of a page without references.
Decref(st, pg) ==
  LET n == (st.ref[pg] - 1) % REFMOD IN
  [st EXCEPT !.ref[pg] = n, !.free = IF n = 0 THEN <<pg>> \o @ ELSE @]

\* Faulty variant: page_remove() leaves the TLB alone.
RemoveNoInvalidate(st, va) ==
  LET e == Pte(st, va) IN
  IF Present(e) THEN Store(Decref(st, e.page), va, Zero) ELSE st

\* page_remove(): page_lookup(), page_decref(), *pte = 0, tlb_invalidate().
Remove(st, va) ==
  LET e == Pte(st, va) IN
  IF Present(e) THEN [Store(Decref(st, e.page), va, Zero) EXCEPT !.tlb[va] = NoMap] ELSE st

-----------------------------------------------------------------------------
(* mem_init(): the calls of boot_map_region().                              *)

Regions ==
  << [va |-> UPAGES, size |-> NPAGES * PAGEINFO, pa |-> PAGESARRAY, bits |-> {"U"}],
     [va |-> KSTACK - KSTKSIZE, size |-> KSTKSIZE, pa |-> BOOTSTACK, bits |-> {"W"}],
     [va |-> KERNBASE, size |-> NPD * NPT * PGSIZE - 1 - KERNBASE, pa |-> 0, bits |-> {"W"}] >>

\* They lie above UTOP and in the address space.
ASSUME RegionsAssumption ==
  \A i \in 1 .. 3 :
    /\ Regions[i].va \in Nat /\ Regions[i].size \in Nat /\ Regions[i].pa \in Nat
    /\ Regions[i].bits \subseteq Bits
    /\ UTOPDIR * NPT <= Regions[i].va \div PGSIZE
    /\ Regions[i].va \div PGSIZE + Regions[i].size \div PGSIZE <= NPD * NPT

Booted == boot[1] > Len(Regions)

AddrOf(n) == <<n \div NPT, n % NPT>>

\* One iteration of boot_map_region(), which leaves pp_ref of the page alone.
\* It panics when there is no memory for a page table.
BootMapPage ==
  /\ ~Booted
  /\ LET r == Regions[boot[1]]
         va == AddrOf(r.va \div PGSIZE + boot[2])
     IN /\ boot[2] < r.size \div PGSIZE
        /\ CanWalk(Now, va[1])
        /\ Becomes(Store(Walk(Now, va[1]), va,
                         [page |-> r.pa + boot[2], bits |-> r.bits \cup {"P"}]))
  /\ boot' = [boot EXCEPT ![2] = @ + 1]

BootNextRegion ==
  /\ ~Booted
  /\ boot[2] >= Regions[boot[1]].size \div PGSIZE
  /\ boot' = <<boot[1] + 1, 0>>
  /\ UNCHANGED <<free, ref, pde, mem, tlb>>

-----------------------------------------------------------------------------
(* The functions as operations.                                             *)

Tables == {pde[d].page : d \in {x \in Dirs : Present(pde[x])}}
InFree == {free[k] : k \in DOMAIN free}

\* Pages page_alloc() has handed out to a client.
Allocated == Page \ (Reserved \cup Tables \cup InFree)

PageAlloc ==
  /\ Booted /\ free # <<>>
  /\ free' = Tail(free)
  /\ UNCHANGED <<ref, pde, mem, tlb, boot>>

\* page_free() by a client, of a page it has not mapped.
PageFree(pg) ==
  /\ Booted /\ pg \in Allocated /\ ref[pg] = 0
  /\ free' = <<pg>> \o free
  /\ UNCHANGED <<ref, pde, mem, tlb, boot>>

\* Faulty variant: the old mapping goes before the new one is counted.
PageInsertRemoveFirst(pg, va, b) ==
  /\ Booted /\ pg \in Allocated /\ CanWalk(Now, va[1])
  /\ LET w == Remove(Walk(Now, va[1]), va)
         c == [w EXCEPT !.ref[pg] = (@ + 1) % REFMOD]
     IN Becomes([Store(c, va, [page |-> pg, bits |-> b \cup {"P"}])
                   EXCEPT !.pde[va[1]].bits = @ \cup b])
  /\ UNCHANGED boot

\* page_insert(); without memory for a page table it returns -E_NO_MEM at once.
PageInsert(pg, va, b) ==
  /\ Booted /\ pg \in Allocated /\ CanWalk(Now, va[1])
  /\ LET w == Walk(Now, va[1])
         c == Remove([w EXCEPT !.ref[pg] = (@ + 1) % REFMOD], va)
     IN Becomes([Store(c, va, [page |-> pg, bits |-> b \cup {"P"}])
                   EXCEPT !.pde[va[1]].bits = @ \cup b])
  /\ UNCHANGED boot

PageRemove(va) ==
  /\ Booted
  /\ Becomes(Remove(Now, va))
  /\ UNCHANGED boot

\* mon_setperm(): sets bits of an entry, whether or not it is present.
SetPerm(va, b) ==
  /\ Booted /\ Present(pde[va[1]])
  /\ Becomes(Store(Now, va, [Pte(Now, va) EXCEPT !.bits = @ \cup b]))
  /\ UNCHANGED boot

\* The translation of an address: the CPU wants a bit in both entries.
Translate(va) ==
  LET e == Pte(Now, va) IN
  IF Present(e) THEN [page |-> e.page, bits |-> (e.bits \cap pde[va[1]].bits) \ {"P"}]
  ELSE NoMap

\* The CPU loads a translation for an access, and drops it when it likes.
TlbFill(va) ==
  /\ Booted /\ Translate(va) # NoMap
  /\ tlb' = [tlb EXCEPT ![va] = Translate(va)]
  /\ UNCHANGED <<free, ref, pde, mem, boot>>

TlbEvict(va) ==
  /\ tlb[va] # NoMap
  /\ tlb' = [tlb EXCEPT ![va] = NoMap]
  /\ UNCHANGED <<free, ref, pde, mem, boot>>

PageNext ==
  \/ BootMapPage \/ BootNextRegion \/ PageAlloc
  \/ \E pg \in Page : PageFree(pg)
  \/ \E pg \in Page, va \in UserVAs, b \in PermArgs : PageInsert(pg, va, b)
  \/ \E va \in UserVAs : PageRemove(va)
  \/ \E va \in VAs, b \in SUBSET SetBits : SetPerm(va, b)
  \/ \E va \in VAs : TlbFill(va) \/ TlbEvict(va)

PageSpec == PageInit /\ [][PageNext]_pageVars

-----------------------------------------------------------------------------
(* Properties.                                                              *)

\* The state is well formed.
TypeOK ==
  /\ free \in Seq(Page) /\ ref \in [Page -> 0 .. REFMOD - 1]
  /\ pde \in [Dirs -> Entry] /\ mem \in [Page -> [Slots -> Entry]]
  /\ tlb \in [VAs -> {NoMap} \cup [page : Page, bits : SUBSET Bits]]
  /\ boot \in Nat \X Nat

Users(pg) == {va \in UserVAs : Present(Pte(Now, va)) /\ Pte(Now, va).page = pg}

\* "pp_ref is the count of pointers (usually in page table entries) to this page,
\* for pages allocated using page_alloc" (memlayout.h:179): after any sequence of
\* page_insert(), page_remove() and replacements it is the number of entries.
RefsCount ==
  \A pg \in Page \ Reserved :
    ref[pg] = Cardinality(Users(pg)) + Cardinality({d \in Dirs : Present(pde[d]) /\ pde[d].page = pg})

\* A page on page_free_list is there once, is not a page table, and no user
\* address, nor the TLB, leads to it any more.
FreeIsFree ==
  /\ \A j, k \in DOMAIN free : free[j] = free[k] => j = k
  /\ \A pg \in InFree :
       /\ pg \notin Reserved \cup Tables /\ Users(pg) = {}
       /\ \A va \in UserVAs : tlb[va] # NoMap => tlb[va].page # pg

\* "The TLB must be invalidated if a page was formerly present at 'va'"
\* (page_insert()): what the CPU has cached never goes beyond the page tables.
TlbSound ==
  \A va \in VAs : tlb[va] # NoMap =>
    /\ Translate(va) # NoMap
    /\ tlb[va].page = Translate(va).page /\ tlb[va].bits \subseteq Translate(va).bits

S == INSTANCE AddrSpace WITH
       Pages <- Page, VAs <- UserVAs, Perms <- SUBSET Bits,
       map <- [va \in UserVAs |-> Translate(va)], used <- Allocated

\* Users of the address space see a map and pages that stay theirs until the last
\* mapping goes: page tables made on demand out of used memory, reference
\* counts and the insertion of a page where it already is do not show.
AddressSpace == S!SpaceSpec

\* Every page is accounted for: its counter is the number of its mappings, and a
\* page on the free list has none, in the page tables or in the TLB.
PagesAccounted == RefsCount /\ FreeIsFree
=============================================================================
