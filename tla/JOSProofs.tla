------------------------------- MODULE JOSProofs -------------------------------
(***************************************************************************)
(* Proofs about JOS: its page tables, reference counts and TLB, for any    *)
(* amount of memory and any set of addresses, and the search for           *)
(* debugging information, for any table.                                   *)
(***************************************************************************)
EXTENDS PageMap, KDebug, FiniteSetTheorems, SequenceTheorems, WellFoundedInduction, TLAPS

-----------------------------------------------------------------------------
(* The parts of the inductive invariant, of a state of the machine.         *)

Machine ==
  [free : Seq(Page), ref : [Page -> 0 .. REFMOD - 1], pde : [Dirs -> Entry],
   mem : [Page -> [Slots -> Entry]], tlb : [VAs -> [page : Nat, bits : SUBSET Bits] \cup {NoMap}]]

FreeIn(st) == {st.free[k] : k \in DOMAIN st.free}
TableDirs(st, pg) == {d \in Dirs : Present(st.pde[d]) /\ st.pde[d].page = pg}
UsersIn(st, pg) == {va \in UserVAs : Present(Pte(st, va)) /\ Pte(st, va).page = pg}

\* Pages no client has: reserved, page tables and free ones.
Taken(st) == {pg \in Page : pg \in Reserved \/ TableDirs(st, pg) # {} \/ pg \in FreeIn(st)}

\* Free pages are there once, and page tables are pages of their own, with all bits
\* in their directory entry.
FreeOnce(st) ==
  /\ \A j, k \in DOMAIN st.free : st.free[j] = st.free[k] => j = k
  /\ \A k \in DOMAIN st.free : st.free[k] \notin Reserved

TablesApart(st) ==
  /\ \A d \in Dirs : Present(st.pde[d]) =>
       st.pde[d].page \in Page \ (Reserved \cup FreeIn(st)) /\ st.pde[d].bits = AllBits
  /\ \A d, e \in Dirs : Present(st.pde[d]) /\ Present(st.pde[e]) /\ st.pde[d].page = st.pde[e].page => d = e

\* What users have mapped are pages of clients.
UserPages(st) ==
  \A va \in UserVAs : Present(Pte(st, va)) => Pte(st, va).page \in Page \ Taken(st)

\* References are counted; page x has one more, which is not in a page table yet.
Counted(st, x) ==
  \A pg \in Page \ Reserved :
    st.ref[pg] = Cardinality(UsersIn(st, pg)) + Cardinality(TableDirs(st, pg)) + (IF pg = x THEN 1 ELSE 0)

\* What the TLB has is in the page tables.
Cached(st) ==
  \A va \in VAs : st.tlb[va] # NoMap =>
    /\ Present(Pte(st, va)) /\ st.tlb[va].page = Pte(st, va).page
    /\ st.tlb[va].bits \subseteq Pte(st, va).bits \ {"P"}

Struct(st) == st \in Machine /\ FreeOnce(st) /\ TablesApart(st)

NoPage == -1
Loose(st, x) == x = NoPage \/ x \in Page \ Taken(st)

\* Entries of two machines are the same.
SameEntries(st, w) == \A va \in Dirs \X Slots : Pte(w, va) = Pte(st, va)

-----------------------------------------------------------------------------

\* A counter that does not run over is counted on.
LEMMA NoWrap ==
  ASSUME NEW n \in Int, 0 <= n, n < REFMOD
  PROVE  n % REFMOD = n
BY PageMapAssumption

\* An address has its entry in the page its directory entry names.
LEMMA PteType ==
  ASSUME NEW st, Struct(st), NEW va \in Dirs \X Slots
  PROVE  /\ va[1] \in Dirs /\ va[2] \in Slots
         /\ Pte(st, va) \in Entry
         /\ Zero \in Entry
<1>1. va[1] \in Dirs /\ va[2] \in Slots
  OBVIOUS
<1>2. Zero \in Entry
  BY DEF Zero, Entry
<1>3. CASE Present(st.pde[va[1]])
  <2>1. st.mem \in [Page -> [Slots -> Entry]]
    BY DEF Struct, Machine
  <2>2. st.pde[va[1]].page \in Page
    BY <1>1, <1>3 DEF Struct, TablesApart
  <2> QED
    BY <1>1, <1>2, <1>3, <2>1, <2>2 DEF Pte
<1> QED
  BY <1>1, <1>2, <1>3 DEF Pte

\* The sets of users and directories are finite.
LEMMA Finite ==
  ASSUME NEW st, NEW pg
  PROVE  /\ IsFiniteSet(UserVAs) /\ IsFiniteSet(UsersIn(st, pg)) /\ IsFiniteSet(TableDirs(st, pg))
         /\ Cardinality(UsersIn(st, pg)) \in Nat /\ Cardinality(TableDirs(st, pg)) \in Nat
         /\ Cardinality(UsersIn(st, pg)) + 1 < REFMOD
<1>1. IsFiniteSet(Dirs) /\ IsFiniteSet(Slots)
  <2>1. 0 \in Int /\ NPD - 1 \in Int /\ NPT - 1 \in Int
    BY PageMapAssumption
  <2> QED
    BY <2>1, FS_Interval DEF Dirs, Slots
<1>2. IsFiniteSet(Dirs \X Slots)
  BY <1>1, FS_Product
<1>3. IsFiniteSet(VAs) /\ Cardinality(VAs) \in Nat
  BY <1>2, PageMapAssumption, FS_Subset, FS_CardinalityType
<1>4. UserVAs \subseteq VAs
  BY DEF UserVAs
<1>5. UsersIn(st, pg) \subseteq VAs /\ TableDirs(st, pg) \subseteq Dirs
  BY <1>4 DEF UsersIn, TableDirs
<1>6. IsFiniteSet(UserVAs) /\ IsFiniteSet(UsersIn(st, pg)) /\ IsFiniteSet(TableDirs(st, pg))
  BY <1>1, <1>3, <1>4, <1>5, FS_Subset
<1>7. Cardinality(UsersIn(st, pg)) <= Cardinality(VAs)
  BY <1>3, <1>5, FS_Subset
<1>8. Cardinality(UsersIn(st, pg)) \in Nat /\ Cardinality(TableDirs(st, pg)) \in Nat
  BY <1>6, FS_CardinalityType
<1> QED
  BY <1>3, <1>6, <1>7, <1>8, PageMapAssumption

\* Counters stay in their range.
LEMMA RefRange ==
  ASSUME NEW n \in Int
  PROVE  n % REFMOD \in 0 .. REFMOD - 1 /\ REFMOD \in Nat /\ 1 < REFMOD
<1>1. Cardinality(UsersIn(0, 0)) \in Nat /\ Cardinality(UsersIn(0, 0)) + 1 < REFMOD
  BY Finite
<1>2. REFMOD \in Nat /\ 1 < REFMOD
  BY <1>1, PageMapAssumption
<1> QED
  BY <1>2

\* A free page has no references.
LEMMA FreeUnused ==
  ASSUME NEW st, Struct(st), UserPages(st), NEW x, Loose(st, x), Counted(st, x),
         NEW pg \in FreeIn(st)
  PROVE  pg \in Page \ Reserved /\ UsersIn(st, pg) = {} /\ TableDirs(st, pg) = {} /\ st.ref[pg] = 0 /\ pg # x
<1>1. pg \in Page \ Reserved
  BY DEF Struct, Machine, FreeOnce, FreeIn
<1>2. pg \in Taken(st)
  BY <1>1 DEF Taken
<1>3. UsersIn(st, pg) = {}
  BY <1>2 DEF UsersIn, UserPages
<1>4. TableDirs(st, pg) = {}
  BY DEF TableDirs, Struct, TablesApart
<1>5. pg # x
  BY <1>1, <1>2 DEF Loose, NoPage, Page
<1>6. Cardinality({}) = 0
  BY FS_EmptySet
<1> QED
  BY <1>1, <1>3, <1>4, <1>5, <1>6 DEF Counted

-----------------------------------------------------------------------------
(* pgdir_walk().                                                            *)

FrontTaken(f, t, h) ==
  /\ h = f[1] /\ 1 \in DOMAIN f /\ t \in Seq(Page)
  /\ {t[k] : k \in DOMAIN t} = {f[k] : k \in DOMAIN f} \ {h}
  /\ \A j, k \in DOMAIN t : t[j] = t[k] => j = k
  /\ \A k \in DOMAIN t : \E j \in DOMAIN f : t[k] = f[j]

\* The head of a list of different pages is not in its tail.
LEMMA FreeTail ==
  ASSUME NEW f \in Seq(Page), f # << >>, \A j, k \in DOMAIN f : f[j] = f[k] => j = k
  PROVE  FrontTaken(f, Tail(f), Head(f))
<1> DEFINE t == Tail(f)
<1>1. Head(f) = f[1] /\ t \in Seq(Page) /\ Len(t) = Len(f) - 1 /\ Len(f) \in Nat /\ Len(f) >= 1
  BY DEF t
<1>2. \A k \in 1 .. Len(t) : t[k] = f[k + 1] /\ k + 1 \in 2 .. Len(f)
  BY <1>1 DEF t
<1>3. DOMAIN f = 1 .. Len(f) /\ DOMAIN t = 1 .. Len(t)
  BY <1>1
<1> HIDE DEF t
<1>4. ASSUME NEW j \in DOMAIN t, NEW k \in DOMAIN t, t[j] = t[k] PROVE j = k
  <2>1. f[j + 1] = f[k + 1] /\ j + 1 \in DOMAIN f /\ k + 1 \in DOMAIN f /\ j \in Int /\ k \in Int
    BY <1>1, <1>2, <1>3, <1>4
  <2>2. j + 1 = k + 1
    BY <2>1
  <2> QED
    BY <2>1, <2>2
<1>5. \A k \in DOMAIN t : \E j \in DOMAIN f : t[k] = f[j] /\ f[j] # f[1]
  <2> SUFFICES ASSUME NEW k \in DOMAIN t PROVE t[k] = f[k + 1] /\ k + 1 \in DOMAIN f /\ f[k + 1] # f[1]
    OBVIOUS
  <2>1. t[k] = f[k + 1] /\ k + 1 \in DOMAIN f /\ 1 \in DOMAIN f /\ k + 1 # 1
    BY <1>1, <1>2, <1>3
  <2> QED
    BY <2>1
<1>6. \A j \in DOMAIN f : f[j] # f[1] => \E k \in DOMAIN t : t[k] = f[j]
  <2> SUFFICES ASSUME NEW j \in DOMAIN f, f[j] # f[1] PROVE \E k \in DOMAIN t : t[k] = f[j]
    OBVIOUS
  <2>1. j - 1 \in 1 .. Len(t) /\ (j - 1) + 1 = j
    BY <1>1, <1>3
  <2> QED
    BY <1>2, <1>3, <2>1
<1>7. {t[k] : k \in DOMAIN t} = {f[k] : k \in DOMAIN f} \ {Head(f)}
  BY <1>1, <1>5, <1>6
<1>8. 1 \in DOMAIN f
  BY <1>1, <1>3
<1>9. \A k \in DOMAIN t : \E j \in DOMAIN f : t[k] = f[j]
  BY <1>5
<1> QED
  BY <1>1, <1>4, <1>7, <1>8, <1>9, ZenonT(60) DEF t, FrontTaken

\* pgdir_walk() made a new page table out of page pg.
NewTable(st, d, pg, w) ==
  /\ pg \in FreeIn(st) /\ pg \in Page \ Reserved
  /\ FreeIn(w) = FreeIn(st) \ {pg}
  /\ w.ref = [st.ref EXCEPT ![pg] = (st.ref[pg] + 1) % REFMOD]
  /\ w.mem = [st.mem EXCEPT ![pg] = [s \in Slots |-> Zero]]
  /\ w.pde = [st.pde EXCEPT ![d] = [page |-> pg, bits |-> AllBits]]

\* What pgdir_walk() leaves: entries, TLB and the pages of clients are as before.
Walked(st, d, w) ==
  /\ Struct(w) /\ Present(w.pde[d]) /\ w.tlb = st.tlb
  /\ SameEntries(st, w) /\ Taken(w) = Taken(st)
  /\ \/ w = st
     \/ ~Present(st.pde[d]) /\ \E pg \in Page : NewTable(st, d, pg, w)

LEMMA WalkShape ==
  ASSUME NEW st, Struct(st), NEW d \in Dirs, CanWalk(st, d), NEW w, w = Walk(st, d)
  PROVE  Walked(st, d, w)
<1>1. CASE Present(st.pde[d])
  <2>1. w = st
    BY <1>1 DEF Walk
  <2>2. SameEntries(st, st)
    BY DEF SameEntries
  <2>3. Walked(st, d, st)
    BY <1>1, <2>2, ZenonT(60) DEF Walked
  <2> QED
    BY <2>1, <2>3
<1>2. CASE ~Present(st.pde[d])
  <2> DEFINE pg == Head(st.free)
             zt == [s \in Slots |-> Zero]
             ne == [page |-> pg, bits |-> AllBits]
  <2>1. st.free # << >> /\ st.free \in Seq(Page)
    BY <1>2 DEF CanWalk, Struct, Machine
  <2>2. /\ st.ref \in [Page -> 0 .. REFMOD - 1] /\ st.pde \in [Dirs -> Entry]
        /\ st.mem \in [Page -> [Slots -> Entry]]
        /\ st.tlb \in [VAs -> [page : Nat, bits : SUBSET Bits] \cup {NoMap}]
    BY DEF Struct, Machine
  <2>3. /\ w.free = Tail(st.free) /\ w.ref = [st.ref EXCEPT ![pg] = (st.ref[pg] + 1) % REFMOD]
        /\ w.mem = [st.mem EXCEPT ![pg] = zt] /\ w.pde = [st.pde EXCEPT ![d] = ne] /\ w.tlb = st.tlb
        /\ w = [free |-> w.free, ref |-> w.ref, pde |-> w.pde, mem |-> w.mem, tlb |-> w.tlb]
    BY <1>2 DEF Walk, Struct, Machine
  <2>4. pg = st.free[1] /\ 1 \in DOMAIN st.free /\ w.free \in Seq(Page)
        /\ FreeIn(w) = FreeIn(st) \ {pg}
        /\ (\A j, k \in DOMAIN w.free : w.free[j] = w.free[k] => j = k)
        /\ (\A k \in DOMAIN w.free : w.free[k] \notin Reserved)
    <3>1. \A j, k \in DOMAIN st.free : st.free[j] = st.free[k] => j = k
      BY DEF Struct, FreeOnce
    <3>2. \A k \in DOMAIN st.free : st.free[k] \notin Reserved
      BY DEF Struct, FreeOnce
    <3>4. FrontTaken(st.free, Tail(st.free), Head(st.free))
      BY <2>1, <3>1, FreeTail, ZenonT(60)
    <3>3. FrontTaken(st.free, w.free, pg)
      BY <2>3, <3>4
    <3> QED
      BY <3>2, <3>3 DEF FreeIn, FrontTaken
  <2>5. pg \in FreeIn(st) /\ pg \in Page \ Reserved
    BY <2>1, <2>4 DEF FreeIn, Struct, FreeOnce
  <2>6. zt \in [Slots -> Entry] /\ ne \in Entry /\ Present(ne) /\ ne.page = pg /\ ne.bits = AllBits
    <3>1. pg \in Nat
      BY <2>5 DEF Page
    <3> QED
      BY <3>1 DEF Zero, Entry, Present, AllBits
  <2>7. (st.ref[pg] + 1) % REFMOD \in 0 .. REFMOD - 1
    <3>1. st.ref[pg] + 1 \in Int
      BY <2>2, <2>5, PageMapAssumption
    <3> QED
      BY <3>1, RefRange
  <2> HIDE DEF pg, zt, ne
  <2>8. w \in Machine
    <3>1. w.ref \in [Page -> 0 .. REFMOD - 1]
      BY <2>2, <2>3, <2>7
    <3>2. w.pde \in [Dirs -> Entry] /\ w.mem \in [Page -> [Slots -> Entry]]
      BY <2>2, <2>3, <2>6, ZenonT(60)
    <3> QED
      BY <2>2, <2>3, <2>4, <3>1, <3>2 DEF Machine
  <2>9. NewTable(st, d, pg, w)
    BY <2>3, <2>4, <2>5 DEF NewTable, zt, ne
  <2>10. \A e \in Dirs : w.pde[e] = IF e = d THEN ne ELSE st.pde[e]
    BY <2>2, <2>3
  <2>11. TablesApart(w)
    BY <2>4, <2>5, <2>6, <2>10 DEF TablesApart, Struct
  <2>12. Struct(w)
    BY <2>4, <2>8, <2>11 DEF Struct, FreeOnce
  <2>13. SameEntries(st, w)
    <3> SUFFICES ASSUME NEW va \in Dirs \X Slots PROVE Pte(w, va) = Pte(st, va)
      BY DEF SameEntries
    <3>1. va[1] \in Dirs /\ va[2] \in Slots
      OBVIOUS
    <3>2. CASE va[1] = d
      <4>1. Pte(st, va) = Zero
        BY <1>2, <3>2 DEF Pte
      <4>2. Pte(w, va) = w.mem[pg][va[2]]
        BY <2>6, <2>10, <3>1, <3>2 DEF Pte
      <4>3. w.mem[pg] = zt /\ zt[va[2]] = Zero
        BY <2>2, <2>3, <2>5, <3>1 DEF zt
      <4> QED
        BY <4>1, <4>2, <4>3
    <3>3. CASE va[1] # d
      <4>1. w.pde[va[1]] = st.pde[va[1]]
        BY <2>10, <3>1, <3>3
      <4>2. CASE Present(st.pde[va[1]])
        <5>1. st.pde[va[1]].page \in Page /\ st.pde[va[1]].page # pg
          BY <2>5, <3>1, <4>2 DEF Struct, TablesApart
        <5>2. w.mem[st.pde[va[1]].page] = st.mem[st.pde[va[1]].page]
          BY <2>2, <2>3, <2>5, <5>1
        <5> QED
          BY <4>1, <4>2, <5>2 DEF Pte
      <4> QED
        BY <4>1, <4>2 DEF Pte
    <3> QED
      BY <3>2, <3>3
  <2>14. Taken(w) = Taken(st)
    <3>1. TableDirs(w, pg) # {}
      BY <2>6, <2>10 DEF TableDirs
    <3>2. \A q \in Page : q # pg => (TableDirs(w, q) = TableDirs(st, q))
      BY <1>2, <2>6, <2>10 DEF TableDirs
    <3> QED
      BY <2>4, <2>5, <3>1, <3>2 DEF Taken
  <2>15. Present(w.pde[d])
    BY <2>6, <2>10
  <2>16. pg \in Page
    BY <2>5
  <2> QED
    BY <1>2, <2>3, <2>9, <2>12, <2>13, <2>14, <2>15, <2>16 DEF Walked
<1> QED
  BY <1>1, <1>2

\* Users are those of the entries.
LEMMA SameUsers ==
  ASSUME NEW st, NEW w, SameEntries(st, w), NEW pg
  PROVE  UsersIn(w, pg) = UsersIn(st, pg)
<1>1. UserVAs \subseteq Dirs \X Slots
  BY PageMapAssumption DEF UserVAs
<1>2. \A va \in UserVAs : Pte(w, va) = Pte(st, va)
  BY <1>1 DEF SameEntries
<1> QED
  BY <1>2 DEF UsersIn

\* The new page table has the one reference it is counted for.
LEMMA WalkCounts ==
  ASSUME NEW st, Struct(st), NEW d \in Dirs, NEW w, Walked(st, d, w),
         NEW x, Loose(st, x), UserPages(st), Counted(st, x)
  PROVE  UserPages(w) /\ Counted(w, x) /\ Loose(w, x)
<1>1. UserVAs \subseteq Dirs \X Slots
  BY PageMapAssumption DEF UserVAs
<1>2. UserPages(w)
  BY <1>1 DEF UserPages, Walked, SameEntries
<1>3. Loose(w, x)
  BY DEF Walked, Loose
<1>4. CASE w = st
  BY <1>2, <1>3, <1>4
<1>5. ASSUME ~Present(st.pde[d]), NEW pg \in Page, NewTable(st, d, pg, w)
      PROVE  Counted(w, x)
  <2> SUFFICES ASSUME NEW q \in Page \ Reserved
               PROVE  w.ref[q] = Cardinality(UsersIn(w, q)) + Cardinality(TableDirs(w, q)) + (IF q = x THEN 1 ELSE 0)
    BY DEF Counted
  <2>1. UsersIn(w, q) = UsersIn(st, q)
    BY SameUsers DEF Walked
  <2>2. st.ref \in [Page -> 0 .. REFMOD - 1] /\ st.pde \in [Dirs -> Entry]
    BY DEF Struct, Machine
  <2>3. \A e \in Dirs : w.pde[e] = IF e = d THEN [page |-> pg, bits |-> AllBits] ELSE st.pde[e]
    BY <1>5, <2>2 DEF NewTable
  <2>4. Present([page |-> pg, bits |-> AllBits])
    BY DEF Present, AllBits
  <2>5. CASE q = pg
    <3>1. UsersIn(st, q) = {} /\ TableDirs(st, q) = {} /\ st.ref[q] = 0 /\ q # x
      BY <1>5, <2>5, FreeUnused DEF NewTable
    <3>2. TableDirs(w, q) = {d}
      BY <2>3, <2>4, <2>5, <3>1 DEF TableDirs
    <3>3. Cardinality({d}) = 1 /\ Cardinality({}) = 0
      BY FS_Singleton, FS_EmptySet
    <3>4. w.ref[q] = 1 % REFMOD
      BY <1>5, <2>2, <2>5, <3>1 DEF NewTable
    <3>5. 1 < REFMOD
      BY RefRange
    <3>6. 1 % REFMOD = 1
      BY <3>5, NoWrap
    <3> QED
      BY <2>1, <3>1, <3>2, <3>3, <3>4, <3>6
  <2>6. CASE q # pg
    <3>1. TableDirs(w, q) = TableDirs(st, q)
      BY <1>5, <2>3, <2>6 DEF TableDirs
    <3>2. w.ref[q] = st.ref[q]
      BY <1>5, <2>2, <2>6 DEF NewTable
    <3> QED
      BY <2>1, <3>1, <3>2 DEF Counted
  <2> QED
    BY <2>5, <2>6
<1> QED
  BY <1>2, <1>3, <1>4, <1>5 DEF Walked

-----------------------------------------------------------------------------
(* Entries, page_decref() and page_remove().                                *)

\* One entry is written.
Stored(st, va, e, w) ==
  /\ Struct(w) /\ w.free = st.free /\ w.ref = st.ref /\ w.pde = st.pde /\ w.tlb = st.tlb
  /\ Taken(w) = Taken(st)
  /\ Pte(w, va) = e
  /\ \A v \in Dirs \X Slots : v # va => Pte(w, v) = Pte(st, v)

LEMMA StoreShape ==
  ASSUME NEW st, Struct(st), NEW va \in Dirs \X Slots, Present(st.pde[va[1]]), NEW e \in Entry,
         NEW w, w = Store(st, va, e)
  PROVE  Stored(st, va, e, w)
<1> DEFINE t == st.pde[va[1]].page
<1>1. va[1] \in Dirs /\ va[2] \in Slots
  OBVIOUS
<1>2. t \in Page
  BY <1>1 DEF Struct, TablesApart
<1>3. st.mem \in [Page -> [Slots -> Entry]] /\ st \in Machine
  BY DEF Struct, Machine
<1>4. /\ w.free = st.free /\ w.ref = st.ref /\ w.pde = st.pde /\ w.tlb = st.tlb
      /\ w.mem = [st.mem EXCEPT ![t] = [st.mem[t] EXCEPT ![va[2]] = e]]
      /\ w = [free |-> w.free, ref |-> w.ref, pde |-> w.pde, mem |-> w.mem, tlb |-> w.tlb]
  BY <1>3 DEF Store, Machine
<1>5. w.mem \in [Page -> [Slots -> Entry]]
  BY <1>1, <1>2, <1>3, <1>4
<1>6. w \in Machine
  BY <1>3, <1>4, <1>5 DEF Machine
<1>7. FreeIn(w) = FreeIn(st) /\ \A pg : TableDirs(w, pg) = TableDirs(st, pg)
  BY <1>4 DEF FreeIn, TableDirs
<1>8. Struct(w)
  BY <1>4, <1>6, <1>7 DEF Struct, FreeOnce, TablesApart
<1>9. Taken(w) = Taken(st)
  BY <1>7 DEF Taken
<1>10. Pte(w, va) = e
  <2>1. Pte(w, va) = w.mem[t][va[2]]
    BY <1>4 DEF Pte
  <2> QED
    BY <1>1, <1>2, <1>3, <1>4, <2>1
<1>11. ASSUME NEW v \in Dirs \X Slots, v # va PROVE Pte(w, v) = Pte(st, v)
  <2>1. v[1] \in Dirs /\ v[2] \in Slots /\ (v[1] # va[1] \/ v[2] # va[2])
    BY <1>11
  <2>2. CASE Present(st.pde[v[1]])
    <3> DEFINE u == st.pde[v[1]].page
    <3>1. u \in Page /\ (u = t => v[1] = va[1])
      BY <1>1, <2>1, <2>2 DEF Struct, TablesApart
    <3>2. Pte(w, v) = w.mem[u][v[2]] /\ Pte(st, v) = st.mem[u][v[2]]
      BY <1>4, <2>2 DEF Pte
    <3> HIDE DEF u, t
    <3>3. CASE u = t
      <4>1. v[2] # va[2]
        BY <2>1, <3>1, <3>3
      <4> QED
        BY <1>1, <1>2, <1>3, <1>4, <2>1, <3>2, <3>3, <4>1
    <3>4. CASE u # t
      BY <1>2, <1>3, <1>4, <3>1, <3>2, <3>4
    <3> QED
      BY <3>3, <3>4
  <2> QED
    BY <1>4, <2>2 DEF Pte
<1> QED
  BY <1>4, <1>8, <1>9, <1>10, <1>11 DEF Stored

\* page_decref() of a page of a client.
Released(st, pg, w) ==
  /\ Struct(w) /\ w.pde = st.pde /\ w.mem = st.mem /\ w.tlb = st.tlb
  /\ w.ref = [st.ref EXCEPT ![pg] = (st.ref[pg] - 1) % REFMOD]
  /\ Taken(w) = Taken(st) \cup (IF (st.ref[pg] - 1) % REFMOD = 0 THEN {pg} ELSE {})

\* A page that is put in front of the others.
LEMMA FreeFront ==
  ASSUME NEW f \in Seq(Page), NEW pg \in Page, \A k \in DOMAIN f : f[k] # pg,
         \A j, k \in DOMAIN f : f[j] = f[k] => j = k
  PROVE  /\ <<pg>> \o f \in Seq(Page)
         /\ {(<<pg>> \o f)[k] : k \in DOMAIN (<<pg>> \o f)} = {f[k] : k \in DOMAIN f} \cup {pg}
         /\ \A j, k \in DOMAIN (<<pg>> \o f) : (<<pg>> \o f)[j] = (<<pg>> \o f)[k] => j = k
<1> DEFINE g == <<pg>> \o f
<1>1. g \in Seq(Page) /\ Len(g) = Len(f) + 1 /\ Len(f) \in Nat
  BY DEF g
<1>2. \A k \in 1 .. Len(g) : g[k] = IF k = 1 THEN pg ELSE f[k - 1]
  BY <1>1 DEF g
<1>3. DOMAIN f = 1 .. Len(f) /\ DOMAIN g = 1 .. Len(g)
  BY <1>1
<1> HIDE DEF g
<1>4. ASSUME NEW j \in DOMAIN g, NEW k \in DOMAIN g, g[j] = g[k] PROVE j = k
  <2>1. \A i \in DOMAIN g : i \in Int /\ (i # 1 => i - 1 \in DOMAIN f /\ g[i] = f[i - 1])
    BY <1>1, <1>2, <1>3
  <2>2. g[1] = pg
    BY <1>1, <1>2
  <2>3. CASE j = 1 \/ k = 1
    BY <1>4, <2>1, <2>2, <2>3
  <2>4. CASE j # 1 /\ k # 1
    <3>1. j - 1 \in DOMAIN f /\ k - 1 \in DOMAIN f /\ f[j - 1] = f[k - 1] /\ j \in Int /\ k \in Int
      BY <1>4, <2>1, <2>4
    <3>2. j - 1 = k - 1
      BY <3>1
    <3> QED
      BY <3>1, <3>2
  <2> QED
    BY <2>3, <2>4
<1>5. \A k \in DOMAIN f : k + 1 \in DOMAIN g /\ g[k + 1] = f[k]
  BY <1>1, <1>2, <1>3
<1>6. 1 \in DOMAIN g /\ g[1] = pg
  BY <1>1, <1>2, <1>3
<1>7. \A k \in DOMAIN g : g[k] = pg \/ \E j \in DOMAIN f : g[k] = f[j]
  <2> SUFFICES ASSUME NEW k \in DOMAIN g, k # 1 PROVE k - 1 \in DOMAIN f /\ g[k] = f[k - 1]
    BY <1>6
  <2> QED
    BY <1>1, <1>2, <1>3
<1>8. {g[k] : k \in DOMAIN g} = {f[k] : k \in DOMAIN f} \cup {pg}
  BY <1>5, <1>6, <1>7
<1> QED
  BY <1>1, <1>4, <1>8 DEF g

LEMMA DecrefShape ==
  ASSUME NEW st, Struct(st), NEW pg \in Page \ Taken(st), NEW w, w = Decref(st, pg)
  PROVE  Released(st, pg, w)
<1> DEFINE n == (st.ref[pg] - 1) % REFMOD
           f == st.free
<1>1. /\ st \in Machine /\ f \in Seq(Page) /\ st.ref \in [Page -> 0 .. REFMOD - 1]
      /\ st.pde \in [Dirs -> Entry] /\ st.mem \in [Page -> [Slots -> Entry]]
      /\ st.tlb \in [VAs -> [page : Nat, bits : SUBSET Bits] \cup {NoMap}]
  BY DEF Struct, Machine
<1>2. n \in 0 .. REFMOD - 1
  <2>1. st.ref[pg] - 1 \in Int
    BY <1>1, RefRange
  <2> QED
    BY <2>1, RefRange
<1>3. /\ w.free = (IF n = 0 THEN <<pg>> \o f ELSE f) /\ w.ref = [st.ref EXCEPT ![pg] = n]
      /\ w.pde = st.pde /\ w.mem = st.mem /\ w.tlb = st.tlb
      /\ w = [free |-> w.free, ref |-> w.ref, pde |-> w.pde, mem |-> w.mem, tlb |-> w.tlb]
  BY <1>1 DEF Decref, Machine
<1>4. pg \notin Reserved /\ pg \notin FreeIn(st) /\ TableDirs(st, pg) = {}
  BY DEF Taken
<1>5. \A k \in DOMAIN f : f[k] # pg /\ f[k] \notin Reserved
  BY <1>4 DEF FreeIn, Struct, FreeOnce
<1>6. \A j, k \in DOMAIN f : f[j] = f[k] => j = k
  BY DEF Struct, FreeOnce
<1>7. /\ w.free \in Seq(Page)
      /\ FreeIn(w) = FreeIn(st) \cup (IF n = 0 THEN {pg} ELSE {})
      /\ \A j, k \in DOMAIN w.free : w.free[j] = w.free[k] => j = k
  <2>1. CASE n = 0
    <3>1. w.free = <<pg>> \o f
      BY <1>3, <2>1
    <3>2. /\ <<pg>> \o f \in Seq(Page)
          /\ {(<<pg>> \o f)[k] : k \in DOMAIN (<<pg>> \o f)} = {f[k] : k \in DOMAIN f} \cup {pg}
          /\ \A j, k \in DOMAIN (<<pg>> \o f) : (<<pg>> \o f)[j] = (<<pg>> \o f)[k] => j = k
      <4>1. pg \in Page /\ \A k \in DOMAIN f : f[k] # pg
        BY <1>5
      <4> HIDE DEF f, n
      <4> QED
        BY <1>1, <1>6, <4>1, FreeFront
    <3> QED
      BY <2>1, <3>1, <3>2 DEF FreeIn
  <2>2. CASE n # 0
    <3>1. w.free = f
      BY <1>3, <2>2
    <3> QED
      BY <1>1, <1>6, <2>2, <3>1 DEF FreeIn
  <2> QED
    BY <2>1, <2>2
<1> HIDE DEF n, f
<1>8. \A k \in DOMAIN w.free : w.free[k] \notin Reserved
  <2>1. \A q \in FreeIn(w) : q \notin Reserved
    BY <1>4, <1>5, <1>7 DEF FreeIn, f
  <2> QED
    BY <2>1 DEF FreeIn
<1>9. w \in Machine
  <2>1. w.ref \in [Page -> 0 .. REFMOD - 1]
    BY <1>1, <1>2, <1>3
  <2> QED
    BY <1>1, <1>3, <1>7, <2>1 DEF Machine
<1>10. TablesApart(w)
  <2>1. \A d \in Dirs : Present(st.pde[d]) => st.pde[d].page # pg
    BY <1>4 DEF TableDirs
  <2>2. \A d \in Dirs : Present(st.pde[d]) => st.pde[d].page \in Page \ (Reserved \cup FreeIn(w))
    BY <1>7, <2>1 DEF Struct, TablesApart
  <2> QED
    BY <1>3, <2>2 DEF Struct, TablesApart
<1>11. Struct(w)
  BY <1>7, <1>8, <1>9, <1>10 DEF Struct, FreeOnce
<1>12. \A q \in Page : TableDirs(w, q) = TableDirs(st, q)
  BY <1>3 DEF TableDirs
<1>13. Taken(w) = Taken(st) \cup (IF n = 0 THEN {pg} ELSE {})
  BY <1>7, <1>12 DEF Taken
<1> QED
  BY <1>3, <1>11, <1>13 DEF Released, n

\* page_remove(): the entry at va is gone, in the TLB too, and a page that has lost
\* its last reference is free.
Removed(st, va, x, c) ==
  /\ Struct(c) /\ c.pde = st.pde /\ UserPages(c) /\ Counted(c, x) /\ Loose(c, x)
  /\ ~Present(Pte(c, va))
  /\ \A v \in Dirs \X Slots : v # va => Pte(c, v) = Pte(st, v)
  /\ c.tlb = IF Present(Pte(st, va)) THEN [st.tlb EXCEPT ![va] = NoMap] ELSE st.tlb
  /\ Taken(c) = Taken(st) \cup {pg \in Page : pg # x /\ UsersIn(st, pg) = {va}}

LEMMA RemoveShape ==
  ASSUME NEW st, Struct(st), NEW va \in UserVAs, NEW x, Loose(st, x), UserPages(st), Counted(st, x),
         NEW c, c = Remove(st, va)
  PROVE  Removed(st, va, x, c)
<1>1. va \in VAs /\ va \in Dirs \X Slots /\ UserVAs \subseteq Dirs \X Slots /\ va[1] \in Dirs
  BY PageMapAssumption DEF UserVAs
<1>2. CASE ~Present(Pte(st, va))
  <2>1. c = st
    BY <1>2 DEF Remove
  <2>2. \A pg : UsersIn(st, pg) # {va}
    BY <1>2 DEF UsersIn
  <2>3. Removed(st, va, x, st)
    BY <1>2, <2>2 DEF Removed
  <2> QED
    BY <2>1, <2>3
<1>3. CASE Present(Pte(st, va))
  <2> DEFINE q == Pte(st, va).page
             n == (st.ref[q] - 1) % REFMOD
             m == Decref(st, q)
             w == Store(m, va, Zero)
  <2>1. q \in Page \ Taken(st)
    BY <1>3 DEF UserPages
  <2>2. Released(st, q, m)
    BY <2>1, DecrefShape
  <2>3. Present(st.pde[va[1]])
    <3>1. ~Present(Zero)
      BY DEF Present, Zero
    <3> QED
      BY <1>3, <3>1 DEF Pte
  <2>4. Zero \in Entry
    BY DEF Zero, Entry
  <2>5. Stored(m, va, Zero, w)
    <3>1. Struct(m) /\ Present(m.pde[va[1]])
      BY <2>2, <2>3 DEF Released
    <3> HIDE DEF m
    <3> QED
      BY <1>1, <2>4, <3>1, StoreShape
  <2>6. c = [w EXCEPT !.tlb[va] = NoMap]
    BY <1>3 DEF Remove
  <2> HIDE DEF q, n, m, w
  <2>7. w \in Machine /\ st.tlb \in [VAs -> [page : Nat, bits : SUBSET Bits] \cup {NoMap}] /\ w.tlb = st.tlb
    BY <2>2, <2>5 DEF Stored, Released, Struct, Machine
  <2>8. /\ c.free = w.free /\ c.ref = w.ref /\ c.pde = w.pde /\ c.mem = w.mem
        /\ c.tlb = [st.tlb EXCEPT ![va] = NoMap]
        /\ c = [free |-> c.free, ref |-> c.ref, pde |-> c.pde, mem |-> c.mem, tlb |-> c.tlb]
    BY <2>6, <2>7 DEF Machine
  <2>9. c \in Machine
    <3>1. c.tlb \in [VAs -> [page : Nat, bits : SUBSET Bits] \cup {NoMap}]
      BY <1>1, <2>7, <2>8
    <3> QED
      BY <2>7, <2>8, <3>1 DEF Machine
  <2>10. FreeIn(c) = FreeIn(w) /\ (\A pg : TableDirs(c, pg) = TableDirs(w, pg)) /\ (\A v : Pte(c, v) = Pte(w, v))
    BY <2>8 DEF FreeIn, TableDirs, Pte
  <2>11. Struct(c)
    BY <2>5, <2>8, <2>9, <2>10 DEF Stored, Struct, FreeOnce, TablesApart
  <2>12. Taken(c) = Taken(w)
    BY <2>10 DEF Taken
  <2>13. Taken(c) = Taken(st) \cup (IF n = 0 THEN {q} ELSE {})
    BY <2>2, <2>5, <2>12 DEF Stored, Released, n
  <2>14. Pte(c, va) = Zero /\ \A v \in Dirs \X Slots : v # va => Pte(c, v) = Pte(st, v)
    <3>1. \A v : Pte(m, v) = Pte(st, v)
      BY <2>2 DEF Released, Pte
    <3> QED
      BY <2>5, <2>10, <3>1 DEF Stored
  <2>15. ~Present(Pte(c, va))
    BY <2>14 DEF Present, Zero
  <2>16. c.pde = st.pde /\ c.ref = [st.ref EXCEPT ![q] = n]
    BY <2>2, <2>5, <2>8 DEF Stored, Released, n
  <2>17. \A pg : UsersIn(c, pg) = IF pg = q THEN UsersIn(st, pg) \ {va} ELSE UsersIn(st, pg)
    <3>1. \A v \in UserVAs : v # va => Pte(c, v) = Pte(st, v)
      BY <1>1, <2>14
    <3> QED
      BY <1>3, <2>15, <3>1 DEF UsersIn, q
  <2>18. va \in UsersIn(st, q)
    BY <1>3 DEF UsersIn, q
  <2>19. q \in Page \ Reserved /\ TableDirs(st, q) = {}
    BY <2>1 DEF Taken
  <2>20. \A pg : TableDirs(c, pg) = TableDirs(st, pg)
    BY <2>16 DEF TableDirs
  <2>21. /\ Cardinality(UsersIn(st, q)) \in Nat /\ IsFiniteSet(UsersIn(st, q))
         /\ Cardinality(UsersIn(st, q)) + 1 < REFMOD
    BY Finite
  <2>22. Cardinality(UsersIn(st, q) \ {va}) = Cardinality(UsersIn(st, q)) - 1
         /\ Cardinality(UsersIn(st, q) \ {va}) \in Nat
    <3>1. IsFiniteSet(UsersIn(st, q) \ {va})
      BY <2>21, FS_Subset
    <3> QED
      BY <2>18, <2>21, <3>1, FS_RemoveElement, FS_CardinalityType
  <2>23. st.ref[q] = Cardinality(UsersIn(st, q)) + (IF q = x THEN 1 ELSE 0)
    <3>1. Cardinality(TableDirs(st, q)) = 0
      BY <2>19, FS_EmptySet
    <3>2. st.ref[q] = Cardinality(UsersIn(st, q)) + Cardinality(TableDirs(st, q)) + (IF q = x THEN 1 ELSE 0)
      BY <2>19 DEF Counted
    <3> QED
      BY <2>21, <3>1, <3>2
  <2>24. n = Cardinality(UsersIn(st, q)) - 1 + (IF q = x THEN 1 ELSE 0)
    <3> DEFINE k == Cardinality(UsersIn(st, q))
               y == k - 1 + (IF q = x THEN 1 ELSE 0)
    <3>1. y \in Int /\ 0 <= y /\ y < REFMOD /\ st.ref[q] - 1 = y
      BY <2>21, <2>22, <2>23, PageMapAssumption
    <3> HIDE DEF y
    <3>2. y % REFMOD = y
      BY <3>1, NoWrap
    <3> QED
      BY <3>1, <3>2 DEF n, y
  <2>25. Counted(c, x)
    <3> SUFFICES ASSUME NEW pg \in Page \ Reserved
                 PROVE  c.ref[pg] = Cardinality(UsersIn(c, pg)) + Cardinality(TableDirs(c, pg)) + (IF pg = x THEN 1 ELSE 0)
      BY DEF Counted
    <3>1. st.ref \in [Page -> 0 .. REFMOD - 1]
      BY DEF Struct, Machine
    <3>2. CASE pg = q
      <4>1. c.ref[pg] = n
        BY <2>16, <3>1, <3>2
      <4>2. Cardinality(TableDirs(c, pg)) = 0
        BY <2>19, <2>20, <3>2, FS_EmptySet
      <4>3. Cardinality(UsersIn(c, pg)) = Cardinality(UsersIn(st, q)) - 1
        BY <2>17, <2>22, <3>2
      <4> QED
        BY <2>21, <2>24, <3>2, <4>1, <4>2, <4>3
    <3>3. CASE pg # q
      <4>1. c.ref[pg] = st.ref[pg]
        BY <2>16, <3>1, <3>3
      <4> QED
        BY <2>17, <2>20, <3>3, <4>1 DEF Counted
    <3> QED
      BY <3>2, <3>3
  <2>26. n = 0 <=> UsersIn(st, q) = {va} /\ q # x
    <3>1. UsersIn(st, q) = {va} <=> UsersIn(st, q) \ {va} = {}
      BY <2>18
    <3>2. UsersIn(st, q) \ {va} = {} <=> Cardinality(UsersIn(st, q) \ {va}) = 0
      <4>1. IsFiniteSet(UsersIn(st, q) \ {va})
        BY <2>21, FS_Subset
      <4> QED
        BY <4>1, FS_EmptySet
    <3> QED
      BY <2>21, <2>22, <2>24, <3>1, <3>2
  <2>27. \A pg : UsersIn(st, pg) = {va} => pg = q
    BY <1>3 DEF UsersIn, q
  <2>28. Taken(c) = Taken(st) \cup {pg \in Page : pg # x /\ UsersIn(st, pg) = {va}}
    <3>1. {pg \in Page : pg # x /\ UsersIn(st, pg) = {va}} = IF n = 0 THEN {q} ELSE {}
      BY <2>19, <2>26, <2>27
    <3> QED
      BY <2>13, <3>1
  <2>29. Loose(c, x)
    BY <2>28 DEF Loose
  <2>30. UserPages(c)
    <3> SUFFICES ASSUME NEW v \in UserVAs, Present(Pte(c, v)) PROVE Pte(c, v).page \in Page \ Taken(c)
      BY DEF UserPages
    <3>1. v # va /\ Pte(c, v) = Pte(st, v)
      BY <1>1, <2>14, <2>15
    <3>2. Pte(st, v).page \in Page \ Taken(st)
      BY <3>1 DEF UserPages
    <3>3. v \in UsersIn(st, Pte(st, v).page)
      BY <3>1 DEF UsersIn
    <3> QED
      BY <2>28, <3>1, <3>2, <3>3
  <2> QED
    BY <1>3, <2>8, <2>11, <2>14, <2>15, <2>16, <2>25, <2>28, <2>29, <2>30 DEF Removed
<1> QED
  BY <1>2, <1>3

-----------------------------------------------------------------------------
(* page_insert().                                                           *)

\* pp_ref++ of a page of a client.
OneMore(st, pg, k) ==
  /\ Struct(k) /\ UserPages(k) /\ Counted(k, pg) /\ Loose(k, pg)
  /\ Taken(k) = Taken(st) /\ k.pde = st.pde /\ k.tlb = st.tlb
  /\ \A v : Pte(k, v) = Pte(st, v)
  /\ \A q : UsersIn(k, q) = UsersIn(st, q)

LEMMA CountOne ==
  ASSUME NEW st, Struct(st), UserPages(st), Counted(st, NoPage), NEW pg \in Page \ Taken(st),
         NEW k, k = [st EXCEPT !.ref[pg] = (@ + 1) % REFMOD]
  PROVE  OneMore(st, pg, k)
<1>1. st \in Machine /\ st.ref \in [Page -> 0 .. REFMOD - 1]
  BY DEF Struct, Machine
<1>2. /\ k.free = st.free /\ k.pde = st.pde /\ k.mem = st.mem /\ k.tlb = st.tlb
      /\ k.ref = [st.ref EXCEPT ![pg] = (st.ref[pg] + 1) % REFMOD]
      /\ k = [free |-> k.free, ref |-> k.ref, pde |-> k.pde, mem |-> k.mem, tlb |-> k.tlb]
  BY <1>1 DEF Machine
<1>3. k.ref \in [Page -> 0 .. REFMOD - 1]
  <2>1. st.ref[pg] + 1 \in Int
    BY <1>1, RefRange
  <2> QED
    BY <1>1, <1>2, <2>1, RefRange
<1>4. k \in Machine
  BY <1>1, <1>2, <1>3 DEF Machine
<1>5. FreeIn(k) = FreeIn(st) /\ (\A q : TableDirs(k, q) = TableDirs(st, q)) /\ (\A v : Pte(k, v) = Pte(st, v))
  BY <1>2 DEF FreeIn, TableDirs, Pte
<1>6. Struct(k)
  BY <1>2, <1>4, <1>5 DEF Struct, FreeOnce, TablesApart
<1>7. Taken(k) = Taken(st)
  BY <1>5 DEF Taken
<1>8. \A q : UsersIn(k, q) = UsersIn(st, q)
  BY <1>5 DEF UsersIn
<1>9. UserPages(k) /\ Loose(k, pg)
  BY <1>5, <1>7 DEF UserPages, Loose
<1>10. Counted(k, pg)
  <2> SUFFICES ASSUME NEW q \in Page \ Reserved
               PROVE  k.ref[q] = Cardinality(UsersIn(st, q)) + Cardinality(TableDirs(st, q)) + (IF q = pg THEN 1 ELSE 0)
    BY <1>5, <1>8 DEF Counted
  <2>1. q # NoPage
    BY DEF NoPage, Page
  <2>2. st.ref[q] = Cardinality(UsersIn(st, q)) + Cardinality(TableDirs(st, q)) + 0
    BY <2>1 DEF Counted
  <2>3. /\ Cardinality(UsersIn(st, q)) \in Nat /\ Cardinality(TableDirs(st, q)) \in Nat
        /\ Cardinality(UsersIn(st, q)) + 1 < REFMOD
    BY Finite
  <2>4. CASE q = pg
    <3>1. TableDirs(st, q) = {}
      BY <2>4 DEF Taken
    <3>2. Cardinality(TableDirs(st, q)) = 0
      BY <3>1, FS_EmptySet
    <3> DEFINE y == Cardinality(UsersIn(st, q)) + 1
    <3>3. y \in Int /\ 0 <= y /\ y < REFMOD /\ st.ref[q] + 1 = y
      BY <2>2, <2>3, <3>2
    <3>4. k.ref[q] = (st.ref[q] + 1) % REFMOD
      BY <1>1, <1>2, <2>4
    <3> HIDE DEF y
    <3>5. k.ref[q] = y
      BY <3>3, <3>4, NoWrap
    <3> QED
      BY <2>3, <2>4, <3>2, <3>5 DEF y
  <2>5. CASE q # pg
    <3>1. k.ref[q] = st.ref[q]
      BY <1>1, <1>2, <2>5
    <3> QED
      BY <2>2, <2>3, <2>5, <3>1
  <2> QED
    BY <2>4, <2>5
<1> QED
  BY <1>2, <1>5, <1>6, <1>7, <1>8, <1>9, <1>10 DEF OneMore

\* The page is at va now, and the page that was there is free if that was its last
\* mapping.
Inserted(st, pg, va, b, f) ==
  /\ Struct(f) /\ UserPages(f) /\ Counted(f, NoPage)
  /\ Pte(f, va) = [page |-> pg, bits |-> b \cup {"P"}]
  /\ \A v \in Dirs \X Slots : v # va => Pte(f, v) = Pte(st, v)
  /\ f.tlb = IF Present(Pte(st, va)) THEN [st.tlb EXCEPT ![va] = NoMap] ELSE st.tlb
  /\ Taken(f) = Taken(st) \cup {q \in Page : q # pg /\ UsersIn(st, q) = {va}}

LEMMA InsertCore ==
  ASSUME NEW st, NEW va \in UserVAs, NEW pg \in Page \ Taken(st), NEW b,
         NEW w, Walked(st, va[1], w), NEW k, OneMore(w, pg, k), NEW c, Removed(k, va, pg, c),
         NEW f, Stored(c, va, [page |-> pg, bits |-> b \cup {"P"}], f)
  PROVE  Inserted(st, pg, va, b, f)
<1> DEFINE e == [page |-> pg, bits |-> b \cup {"P"}]
<1>1. va \in Dirs \X Slots /\ UserVAs \subseteq Dirs \X Slots
  BY PageMapAssumption DEF UserVAs
<1>2. Present(e) /\ e.page = pg
  BY DEF Present
<1>3. Stored(c, va, e, f)
  OBVIOUS
<1> HIDE DEF e
<1>4. \A v \in Dirs \X Slots : Pte(w, v) = Pte(st, v)
  BY DEF Walked, SameEntries
<1>5. \A v \in Dirs \X Slots : Pte(k, v) = Pte(st, v)
  BY <1>4 DEF OneMore
<1>6. \A v \in Dirs \X Slots : v # va => Pte(c, v) = Pte(st, v)
  BY <1>5 DEF Removed
<1>7. \A v \in Dirs \X Slots : v # va => Pte(f, v) = Pte(c, v)
  BY <1>3 DEF Stored
<1>8. \A v \in Dirs \X Slots : v # va => Pte(f, v) = Pte(st, v)
  BY <1>6, <1>7
<1>9. k.tlb = st.tlb
  BY DEF Walked, OneMore
<1>10. f.tlb = IF Present(Pte(st, va)) THEN [st.tlb EXCEPT ![va] = NoMap] ELSE st.tlb
  <2>1. f.tlb = c.tlb
    BY <1>3 DEF Stored
  <2>2. c.tlb = IF Present(Pte(k, va)) THEN [k.tlb EXCEPT ![va] = NoMap] ELSE k.tlb
    BY DEF Removed
  <2>3. Pte(k, va) = Pte(st, va)
    BY <1>1, <1>5
  <2> QED
    BY <1>9, <2>1, <2>2, <2>3
<1>11. \A q : UsersIn(k, q) = UsersIn(st, q)
  <2>1. SameEntries(st, w)
    BY DEF Walked
  <2>2. \A q : UsersIn(w, q) = UsersIn(st, q)
    BY <2>1, SameUsers
  <2> QED
    BY <2>2 DEF OneMore
<1>12. Taken(f) = Taken(c) /\ Struct(f)
  BY <1>3 DEF Stored
<1>13. Taken(f) = Taken(st) \cup {q \in Page : q # pg /\ UsersIn(st, q) = {va}}
  <2>1. Taken(c) = Taken(k) \cup {q \in Page : q # pg /\ UsersIn(k, q) = {va}}
    BY DEF Removed
  <2>2. Taken(k) = Taken(st)
    BY DEF Walked, OneMore
  <2>3. {q \in Page : q # pg /\ UsersIn(k, q) = {va}} = {q \in Page : q # pg /\ UsersIn(st, q) = {va}}
    BY <1>11
  <2> QED
    BY <1>12, <2>1, <2>2, <2>3
<1>14. Pte(f, va) = e
  BY <1>3 DEF Stored
<1>15. pg \in Page \ Taken(f)
  BY <1>13
<1>16. UserPages(f)
  <2> SUFFICES ASSUME NEW v \in UserVAs, Present(Pte(f, v)) PROVE Pte(f, v).page \in Page \ Taken(f)
    BY DEF UserPages
  <2>1. CASE v = va
    BY <1>2, <1>14, <1>15, <2>1
  <2>2. CASE v # va
    <3>1. Pte(f, v) = Pte(c, v)
      BY <1>1, <1>7, <2>2
    <3>2. UserPages(c)
      BY DEF Removed
    <3>3. Pte(c, v).page \in Page \ Taken(c)
      BY <3>1, <3>2 DEF UserPages
    <3> QED
      BY <1>12, <3>1, <3>3
  <2> QED
    BY <2>1, <2>2
<1>17. Counted(f, NoPage)
  <2> SUFFICES ASSUME NEW q \in Page \ Reserved
               PROVE  f.ref[q] = Cardinality(UsersIn(f, q)) + Cardinality(TableDirs(f, q)) + (IF q = NoPage THEN 1 ELSE 0)
    BY DEF Counted
  <2>1. q # NoPage
    BY DEF NoPage, Page
  <2>2. f.ref = c.ref /\ f.pde = c.pde
    BY <1>3 DEF Stored
  <2>3. TableDirs(f, q) = TableDirs(c, q)
    BY <2>2 DEF TableDirs
  <2>4. c.ref[q] = Cardinality(UsersIn(c, q)) + Cardinality(TableDirs(c, q)) + (IF q = pg THEN 1 ELSE 0)
    BY DEF Removed, Counted
  <2>5. Cardinality(UsersIn(c, q)) \in Nat /\ IsFiniteSet(UsersIn(c, q)) /\ Cardinality(TableDirs(c, q)) \in Nat
    BY Finite
  <2>6. va \notin UsersIn(c, q)
    BY DEF Removed, UsersIn
  <2>7. \A v \in UserVAs : v # va => Pte(f, v) = Pte(c, v)
    BY <1>1, <1>7
  <2>8. UsersIn(f, q) = IF q = pg THEN UsersIn(c, q) \cup {va} ELSE UsersIn(c, q)
    BY <1>2, <1>14, <2>6, <2>7 DEF UsersIn
  <2>9. CASE q = pg
    <3>1. Cardinality(UsersIn(f, q)) = Cardinality(UsersIn(c, q)) + 1
      BY <2>5, <2>6, <2>8, <2>9, FS_AddElement
    <3> QED
      BY <2>1, <2>2, <2>3, <2>4, <2>5, <2>9, <3>1
  <2>10. CASE q # pg
    BY <2>1, <2>2, <2>3, <2>4, <2>5, <2>8, <2>10
  <2> QED
    BY <2>9, <2>10
<1> QED
  BY <1>8, <1>10, <1>12, <1>13, <1>14, <1>16, <1>17 DEF Inserted, e

\* Page directory entries of page tables have all bits already.
LEMMA BitsThere ==
  ASSUME NEW g, Struct(g), NEW d \in Dirs, Present(g.pde[d]), NEW b \in SUBSET Bits
  PROVE  [g EXCEPT !.pde[d].bits = @ \cup b] = g
<1>1. g \in Machine /\ g.pde \in [Dirs -> Entry] /\ g.pde[d] \in Entry
  BY DEF Struct, Machine
<1>2. g.pde[d].bits = AllBits /\ AllBits \cup b = AllBits
  BY DEF Struct, TablesApart, AllBits
<1>3. [g.pde[d] EXCEPT !.bits = @ \cup b] = g.pde[d]
  BY <1>1, <1>2 DEF Entry
<1>4. [g.pde EXCEPT ![d] = g.pde[d]] = g.pde
  BY <1>1
<1>5. [g EXCEPT !.pde[d].bits = @ \cup b] = [g EXCEPT !.pde = [g.pde EXCEPT ![d] = [g.pde[d] EXCEPT !.bits = @ \cup b]]]
  OBVIOUS
<1>6. [g EXCEPT !.pde[d].bits = @ \cup b] = [g EXCEPT !.pde = g.pde]
  BY <1>3, <1>4, <1>5
<1>7. [g EXCEPT !.pde = g.pde] = g
  BY <1>1 DEF Machine
<1> QED
  BY <1>6, <1>7

\* page_insert() as a whole.
InsertResult(st, pg, va, b) ==
  LET w == Walk(st, va[1])
      c == Remove([w EXCEPT !.ref[pg] = (@ + 1) % REFMOD], va)
  IN [Store(c, va, [page |-> pg, bits |-> b \cup {"P"}]) EXCEPT !.pde[va[1]].bits = @ \cup b]

LEMMA InsertShape ==
  ASSUME NEW st, Struct(st), UserPages(st), Counted(st, NoPage),
         NEW va \in UserVAs, NEW pg \in Page \ Taken(st), NEW b \in SUBSET Bits, CanWalk(st, va[1])
  PROVE  Inserted(st, pg, va, b, InsertResult(st, pg, va, b))
<1> DEFINE w == Walk(st, va[1])
           k == [w EXCEPT !.ref[pg] = (@ + 1) % REFMOD]
           c == Remove(k, va)
           e == [page |-> pg, bits |-> b \cup {"P"}]
           g == Store(c, va, e)
<1>1. va \in Dirs \X Slots /\ va[1] \in Dirs
  BY PageMapAssumption DEF UserVAs
<1>2. Walked(st, va[1], w)
  BY <1>1, WalkShape
<1>3. Loose(st, NoPage)
  BY DEF Loose
<1>4. InsertResult(st, pg, va, b) = [g EXCEPT !.pde[va[1]].bits = @ \cup b]
  BY ZenonT(60) DEF InsertResult
<1>5. pg \in Nat
  BY DEF Page
<1>6. e \in Entry
  BY <1>5 DEF Entry, AllBits
<1>7. k = [w EXCEPT !.ref[pg] = (@ + 1) % REFMOD] /\ c = Remove(k, va) /\ g = Store(c, va, e)
  OBVIOUS
<1> HIDE DEF w, k, c, g, e
<1>8. UserPages(w) /\ Counted(w, NoPage)
  BY <1>1, <1>2, <1>3, WalkCounts
<1>9. Struct(w) /\ Taken(w) = Taken(st) /\ Present(w.pde[va[1]])
  BY <1>2 DEF Walked
<1>10. OneMore(w, pg, k)
  BY <1>7, <1>8, <1>9, CountOne
<1>11. Struct(k) /\ UserPages(k) /\ Counted(k, pg) /\ Loose(k, pg) /\ k.pde = w.pde
  BY <1>10 DEF OneMore
<1>12. Removed(k, va, pg, c)
  BY <1>7, <1>11, RemoveShape
<1>13. Struct(c) /\ c.pde = k.pde
  BY <1>12 DEF Removed
<1>14. Stored(c, va, e, g)
  BY <1>1, <1>6, <1>7, <1>9, <1>11, <1>13, StoreShape
<1>15. Struct(g) /\ g.pde = c.pde
  BY <1>14 DEF Stored
<1>16. InsertResult(st, pg, va, b) = g
  BY <1>1, <1>4, <1>9, <1>11, <1>13, <1>15, BitsThere
<1>17. Inserted(st, pg, va, b, g)
  BY <1>2, <1>10, <1>12, <1>14, InsertCore DEF e
<1> QED
  BY <1>16, <1>17

-----------------------------------------------------------------------------
(* The inductive invariant.                                                 *)

\* Until mem_init() is done no user has a page table and the TLB is empty.
Booting ==
  /\ boot \in Nat \X Nat /\ boot[1] >= 1
  /\ ~Booted => (\A va \in VAs : tlb[va] = NoMap) /\ (\A d \in Dirs : d < UTOPDIR => ~Present(pde[d]))

Sound(st) == Struct(st) /\ UserPages(st) /\ Counted(st, NoPage) /\ Cached(st)

PageInv == Sound(Now) /\ Booting

\* What the functions return for a machine is the next one.
LEMMA NextMachine ==
  ASSUME NEW st, st \in Machine, Becomes(st)
  PROVE  Now' = st
BY DEF Becomes, Now, Machine

LEMMA NowFields ==
  Now.free = free /\ Now.ref = ref /\ Now.pde = pde /\ Now.mem = mem /\ Now.tlb = tlb
BY DEF Now

\* The TLB after page_insert() and page_remove(), and after a walk.
LEMMA CachedAfter ==
  ASSUME NEW st, Struct(st), Cached(st), NEW va \in VAs, NEW w,
         \A v \in Dirs \X Slots : v # va => Pte(w, v) = Pte(st, v),
         w.tlb = IF Present(Pte(st, va)) THEN [st.tlb EXCEPT ![va] = NoMap] ELSE st.tlb
  PROVE  Cached(w)
<1> SUFFICES ASSUME NEW v \in VAs, w.tlb[v] # NoMap
             PROVE  /\ Present(Pte(w, v)) /\ w.tlb[v].page = Pte(w, v).page
                    /\ w.tlb[v].bits \subseteq Pte(w, v).bits \ {"P"}
  BY DEF Cached
<1>1. st.tlb \in [VAs -> [page : Nat, bits : SUBSET Bits] \cup {NoMap}]
  BY DEF Struct, Machine
<1>2. w.tlb[va] = NoMap
  BY <1>1 DEF Cached
<1>3. v # va /\ w.tlb[v] = st.tlb[v]
  BY <1>1, <1>2
<1>4. Pte(w, v) = Pte(st, v)
  BY <1>3, PageMapAssumption
<1> QED
  BY <1>3, <1>4 DEF Cached

LEMMA CachedWalk ==
  ASSUME NEW st, Cached(st), NEW d, NEW w, Walked(st, d, w)
  PROVE  Cached(w)
<1>1. \A v \in VAs : Pte(w, v) = Pte(st, v)
  BY PageMapAssumption DEF Walked, SameEntries
<1>2. w.tlb = st.tlb
  BY DEF Walked
<1> QED
  BY <1>1, <1>2 DEF Cached

\* page_insert() and page_remove() leave the machine sound.
LEMMA InsertSound ==
  ASSUME NEW st, Sound(st), NEW va \in UserVAs, NEW pg, NEW b, NEW w, Inserted(st, pg, va, b, w)
  PROVE  Sound(w)
<1>1. va \in VAs
  BY DEF UserVAs
<1>2. Cached(w)
  BY <1>1, CachedAfter DEF Sound, Inserted
<1> QED
  BY <1>2 DEF Sound, Inserted

LEMMA RemoveSound ==
  ASSUME NEW st, Sound(st), NEW va \in UserVAs, NEW w, Removed(st, va, NoPage, w)
  PROVE  Sound(w)
<1>1. va \in VAs
  BY DEF UserVAs
<1>2. Cached(w)
  BY <1>1, CachedAfter DEF Sound, Removed
<1> QED
  BY <1>2 DEF Sound, Removed

\* An entry is written that users do not have, or its page and its presence stay.
LEMMA StoreSound ==
  ASSUME NEW st, Sound(st), NEW va \in Dirs \X Slots, NEW e, NEW w, Stored(st, va, e, w),
         \/ va \notin UserVAs
         \/ e.page = Pte(st, va).page /\ (Present(e) <=> Present(Pte(st, va))),
         va \in VAs => (\/ st.tlb[va] = NoMap
                        \/ e.page = Pte(st, va).page /\ Pte(st, va).bits \subseteq e.bits)
  PROVE  Sound(w) /\ \A pg : UsersIn(w, pg) = UsersIn(st, pg)
<1>1. UserVAs \subseteq Dirs \X Slots /\ VAs \subseteq Dirs \X Slots
  BY PageMapAssumption DEF UserVAs
<1>2. \A v \in UserVAs : Pte(w, v).page = Pte(st, v).page /\ (Present(Pte(w, v)) <=> Present(Pte(st, v)))
  BY <1>1 DEF Stored
<1>3. \A pg : UsersIn(w, pg) = UsersIn(st, pg)
  BY <1>2 DEF UsersIn
<1>4. Taken(w) = Taken(st) /\ Struct(w) /\ w.ref = st.ref /\ w.pde = st.pde /\ w.tlb = st.tlb
  BY DEF Stored
<1>5. UserPages(w)
  BY <1>2, <1>4 DEF Sound, UserPages
<1>6. \A pg : TableDirs(w, pg) = TableDirs(st, pg)
  BY <1>4 DEF TableDirs
<1>7. Counted(w, NoPage)
  BY <1>3, <1>4, <1>6 DEF Sound, Counted
<1>8. Cached(w)
  <2> SUFFICES ASSUME NEW v \in VAs, w.tlb[v] # NoMap
               PROVE  /\ Present(Pte(w, v)) /\ w.tlb[v].page = Pte(w, v).page
                      /\ w.tlb[v].bits \subseteq Pte(w, v).bits \ {"P"}
    BY DEF Cached
  <2>1. /\ Present(Pte(st, v)) /\ st.tlb[v].page = Pte(st, v).page
        /\ st.tlb[v].bits \subseteq Pte(st, v).bits \ {"P"}
    BY <1>4 DEF Sound, Cached
  <2>2. CASE v = va
    <3>1. e.page = Pte(st, va).page /\ Pte(st, va).bits \subseteq e.bits /\ Pte(w, va) = e
      BY <1>4, <2>2 DEF Stored
    <3> QED
      BY <1>4, <2>1, <2>2, <3>1 DEF Present
  <2>3. CASE v # va
    <3>1. Pte(w, v) = Pte(st, v)
      BY <1>1, <2>3 DEF Stored
    <3> QED
      BY <1>4, <2>1, <3>1
  <2> QED
    BY <2>2, <2>3
<1> QED
  BY <1>3, <1>4, <1>5, <1>7, <1>8 DEF Sound

\* Quotient and remainder.
LEMMA DivMod ==
  ASSUME NEW x \in Int, NEW n \in Int, n > 0
  PROVE  x = n * (x \div n) + (x % n) /\ x \div n \in Int /\ x % n \in 0 .. n - 1
OBVIOUS

LEMMA QuotientBound ==
  ASSUME NEW n \in Nat, n > 0, NEW a \in Nat, NEW b \in Nat, NEW q \in Int, NEW r \in 0 .. n - 1,
         a * n <= n * q + r, n * q + r < b * n
  PROVE  q >= a /\ q < b
<1>1. CASE q < a
  <2>1. n * (q + 1) <= n * a
    BY <1>1
  <2> QED
    BY <1>1, <2>1
<1>2. CASE q >= b
  <2>1. n * q >= n * b
    BY <1>2
  <2> QED
    BY <1>2, <2>1
<1> QED
  BY <1>1, <1>2

\* A static region is mapped above UTOP.
LEMMA RegionAddress ==
  ASSUME NEW i \in 1 .. 3, NEW k \in Nat, k < Regions[i].size \div PGSIZE,
         NEW va, va = AddrOf(Regions[i].va \div PGSIZE + k)
  PROVE  /\ va \in Dirs \X Slots /\ va[1] \in Dirs /\ va[1] >= UTOPDIR
         /\ [page |-> Regions[i].pa + k, bits |-> Regions[i].bits \cup {"P"}] \in Entry
<1> DEFINE p == Regions[i].va \div PGSIZE
           z == Regions[i].size \div PGSIZE
           n == p + k
<1>1. p \in Nat /\ z \in Nat /\ UTOPDIR * NPT <= p /\ p + z <= NPD * NPT
  <2>1. Regions[i].va \in Nat /\ Regions[i].size \in Nat
    BY RegionsAssumption
  <2>2. p \in Nat /\ z \in Nat
    BY <2>1, PageMapAssumption
  <2> QED
    BY <2>2, RegionsAssumption
<1>2. k < z /\ va = <<n \div NPT, n % NPT>>
  BY DEF AddrOf
<1>3. Regions[i].pa \in Nat /\ Regions[i].bits \subseteq Bits
  BY RegionsAssumption
<1> HIDE DEF p, z
<1>4. NPT \in Nat /\ NPT > 0 /\ NPD \in Nat /\ UTOPDIR \in Nat
  BY PageMapAssumption
<1>5. n \in Nat /\ UTOPDIR * NPT <= n /\ n < NPD * NPT
  BY <1>1, <1>2, <1>4
<1> HIDE DEF n
<1>6. n = NPT * (n \div NPT) + (n % NPT) /\ n \div NPT \in Int /\ n % NPT \in 0 .. NPT - 1
  BY <1>4, <1>5, DivMod
<1>8. n \div NPT >= UTOPDIR /\ n \div NPT < NPD
  BY <1>4, <1>5, <1>6, QuotientBound
<1>9. n \div NPT \in Dirs /\ n % NPT \in Slots
  BY <1>4, <1>6, <1>8 DEF Dirs, Slots
<1>10. va \in Dirs \X Slots /\ va[1] = n \div NPT
  BY <1>2, <1>9
<1>11. [page |-> Regions[i].pa + k, bits |-> Regions[i].bits \cup {"P"}] \in Entry
  BY <1>3 DEF Entry, AllBits
<1> QED
  BY <1>8, <1>9, <1>10, <1>11

-----------------------------------------------------------------------------
(* The address space that users see.                                        *)

MapOf(st) ==
  [va \in UserVAs |->
     IF Present(Pte(st, va)) THEN [page |-> Pte(st, va).page, bits |-> Pte(st, va).bits \ {"P"}] ELSE NoMap]
UsedOf(st) == Page \ Taken(st)
MappedIn(m) == {m[va].page : va \in {v \in UserVAs : m[v] # NoMap}}

\* Map and pages in use before and after a step of AddrSpace.
Remapped(m, u, n, w) == w = u \ (MappedIn(m) \ MappedIn(n))
SpaceStep(m, u, n, w) ==
  \/ n = m /\ w = u
  \/ \E pg \in Page : pg \notin u /\ w = u \cup {pg} /\ n = m
  \/ \E pg \in Page : pg \in u \ MappedIn(m) /\ w = u \ {pg} /\ n = m
  \/ \E va \in UserVAs : n = [m EXCEPT ![va] = NoMap] /\ Remapped(m, u, n, w)
  \/ \E va \in UserVAs, b \in SUBSET Bits :
       m[va] # NoMap /\ n = [m EXCEPT ![va].bits = @ \cup b] /\ Remapped(m, u, n, w)
  \/ \E va \in UserVAs, pg \in Page, b \in SUBSET Bits :
       pg \in u /\ n = [m EXCEPT ![va] = [page |-> pg, bits |-> b]] /\ Remapped(m, u, n, w)

\* Translate() and Allocated in terms of the machine.
LEMMA ViewOf ==
  ASSUME NEW st, Struct(st)
  PROVE  /\ [va \in UserVAs |-> IF Present(Pte(st, va))
                THEN [page |-> Pte(st, va).page, bits |-> (Pte(st, va).bits \cap st.pde[va[1]].bits) \ {"P"}]
                ELSE NoMap] = MapOf(st)
         /\ Page \ (Reserved \cup {st.pde[d].page : d \in {x \in Dirs : Present(st.pde[x])}} \cup FreeIn(st)) = UsedOf(st)
<1>1. ASSUME NEW va \in Dirs \X Slots, Present(Pte(st, va))
      PROVE  Pte(st, va).bits \cap st.pde[va[1]].bits = Pte(st, va).bits
  <2>1. ~Present(Zero)
    BY DEF Present, Zero
  <2>2. Present(st.pde[va[1]]) /\ va[1] \in Dirs
    BY <1>1, <2>1 DEF Pte
  <2>3. st.pde[va[1]].bits = AllBits
    BY <2>2 DEF Struct, TablesApart
  <2>4. Pte(st, va).bits \subseteq AllBits
    BY PteType DEF Entry
  <2> QED
    BY <2>3, <2>4
<1>2. UserVAs \subseteq Dirs \X Slots
  BY PageMapAssumption DEF UserVAs
<1>3. \A va \in UserVAs : Present(Pte(st, va)) => Pte(st, va).bits \cap st.pde[va[1]].bits = Pte(st, va).bits
  BY <1>1, <1>2
<1>4. Page \ (Reserved \cup {st.pde[d].page : d \in {x \in Dirs : Present(st.pde[x])}} \cup FreeIn(st)) = UsedOf(st)
  BY DEF UsedOf, Taken, TableDirs
<1> QED
  BY <1>3, <1>4 DEF MapOf

LEMMA NowView ==
  ASSUME Struct(Now)
  PROVE  [va \in UserVAs |-> Translate(va)] = MapOf(Now) /\ Allocated = UsedOf(Now)
<1>1. \A va \in UserVAs : Translate(va) =
        IF Present(Pte(Now, va))
          THEN [page |-> Pte(Now, va).page, bits |-> (Pte(Now, va).bits \cap Now.pde[va[1]].bits) \ {"P"}]
          ELSE NoMap
  BY NowFields DEF Translate
<1>2. Allocated = Page \ (Reserved \cup {Now.pde[d].page : d \in {x \in Dirs : Present(Now.pde[x])}} \cup FreeIn(Now))
  BY NowFields DEF Allocated, Tables, InFree, FreeIn
<1> QED
  BY <1>1, <1>2, ViewOf

LEMMA NextView ==
  ASSUME Struct(Now')
  PROVE  [va \in UserVAs |-> Translate(va)]' = MapOf(Now') /\ Allocated' = UsedOf(Now')
<1>0. Now'.pde = pde' /\ Now'.free = free'
  BY DEF Now
<1>1. \A va \in UserVAs : Translate(va)' =
        IF Present(Pte(Now', va))
          THEN [page |-> Pte(Now', va).page, bits |-> (Pte(Now', va).bits \cap Now'.pde[va[1]].bits) \ {"P"}]
          ELSE NoMap
  BY <1>0 DEF Translate
<1>2. Allocated' = Page \ (Reserved \cup {Now'.pde[d].page : d \in {x \in Dirs : Present(Now'.pde[x])}} \cup FreeIn(Now'))
  BY <1>0 DEF Allocated, Tables, InFree, FreeIn
<1> QED
  BY <1>1, <1>2, ViewOf

LEMMA AbstractStep ==
  ASSUME Struct(Now), Struct(Now'), SpaceStep(MapOf(Now), UsedOf(Now), MapOf(Now'), UsedOf(Now'))
  PROVE  [S!SpaceNext]_(S!spaceVars)
<1> DEFINE m == [va \in UserVAs |-> Translate(va)]
           u == Allocated
<1>1. SpaceStep(m, u, m', u')
  BY NowView, NextView
<1>2. CASE m' = m /\ u' = u
  BY <1>2 DEF S!spaceVars
<1>3. ASSUME NEW pg \in Page, pg \notin u, u' = u \cup {pg}, m' = m PROVE S!SpaceNext
  BY <1>3 DEF S!SpaceNext, S!Alloc
<1>4. ASSUME NEW pg \in Page, pg \in u \ MappedIn(m), u' = u \ {pg}, m' = m PROVE S!SpaceNext
  BY <1>4 DEF S!SpaceNext, S!Free, S!Mapped, MappedIn
<1>8. ASSUME NEW n, m' = n, Remapped(m, u, m', u') PROVE S!Remap(n)
  <2>1. u' = u \ (MappedIn(m) \ MappedIn(n))
    BY <1>8 DEF Remapped
  <2>2. S!Mapped(m) = MappedIn(m) /\ S!Mapped(n) = MappedIn(n)
    BY DEF S!Mapped, MappedIn
  <2> QED
    BY <1>8, <2>1, <2>2 DEF S!Remap
<1>5. ASSUME NEW va \in UserVAs, m' = [m EXCEPT ![va] = NoMap], Remapped(m, u, m', u') PROVE S!SpaceNext
  <2>1. S!Remap([m EXCEPT ![va] = NoMap])
    BY <1>5, <1>8
  <2>2. S!Remove(va)
    BY <2>1 DEF S!Remove
  <2> QED
    BY <2>2 DEF S!SpaceNext
<1>6. ASSUME NEW va \in UserVAs, NEW b \in SUBSET Bits, m[va] # NoMap,
             m' = [m EXCEPT ![va].bits = @ \cup b], Remapped(m, u, m', u') PROVE S!SpaceNext
  <2>1. S!Remap([m EXCEPT ![va].bits = @ \cup b])
    BY <1>6, <1>8
  <2>2. S!Permit(va, b)
    BY <1>6, <2>1 DEF S!Permit
  <2> QED
    BY <2>2 DEF S!SpaceNext
<1>7. ASSUME NEW va \in UserVAs, NEW pg \in Page, NEW b \in SUBSET Bits, pg \in u,
             m' = [m EXCEPT ![va] = [page |-> pg, bits |-> b]], Remapped(m, u, m', u') PROVE S!SpaceNext
  <2>1. S!Remap([m EXCEPT ![va] = [page |-> pg, bits |-> b]])
    BY <1>7, <1>8
  <2>2. S!Insert(va, pg, b)
    BY <1>7, <2>1 DEF S!Insert
  <2> QED
    BY <2>2 DEF S!SpaceNext
<1> HIDE DEF m, u
<1> QED
  BY <1>1, <1>2, <1>3, <1>4, <1>5, <1>6, <1>7 DEF SpaceStep

\* Pages that are mapped are pages that have users.
LEMMA MappedUsers ==
  ASSUME NEW st, Struct(st)
  PROVE  /\ MappedIn(MapOf(st)) = {q \in Nat : UsersIn(st, q) # {}}
         /\ \A va \in UserVAs : MapOf(st)[va] # NoMap <=> Present(Pte(st, va))
<1>1. UserVAs \subseteq Dirs \X Slots
  BY PageMapAssumption DEF UserVAs
<1>2. \A va \in UserVAs : Pte(st, va).page \in Nat /\ Pte(st, va).bits \ {"P"} \subseteq Bits
  BY <1>1, PteType DEF Entry, AllBits
<1>3. \A va \in UserVAs : [page |-> Pte(st, va).page, bits |-> Pte(st, va).bits \ {"P"}] # NoMap
  BY <1>2, PageMapAssumption
<1>4. \A va \in UserVAs : MapOf(st)[va] # NoMap <=> Present(Pte(st, va))
  BY <1>3 DEF MapOf
<1>5. \A va \in UserVAs : Present(Pte(st, va)) => MapOf(st)[va].page = Pte(st, va).page
  BY DEF MapOf
<1>6. MappedIn(MapOf(st)) = {q \in Nat : UsersIn(st, q) # {}}
  BY <1>2, <1>4, <1>5 DEF MappedIn, UsersIn
<1> QED
  BY <1>4, <1>6

\* The pages that lose their last mapping, when the entry at va becomes one of page
\* pg or (pg = NoPage) goes.
LEMMA LostPages ==
  ASSUME NEW st, Struct(st), UserPages(st), NEW w, Struct(w), NEW va \in UserVAs, NEW pg,
         \A v \in Dirs \X Slots : v # va => Pte(w, v) = Pte(st, v),
         \/ Present(Pte(w, va)) /\ Pte(w, va).page = pg
         \/ ~Present(Pte(w, va)) /\ pg = NoPage,
         Taken(w) = Taken(st) \cup {q \in Page : q # pg /\ UsersIn(st, q) = {va}}
  PROVE  Remapped(MapOf(st), UsedOf(st), MapOf(w), UsedOf(w))
<1>1. UserVAs \subseteq Dirs \X Slots
  BY PageMapAssumption DEF UserVAs
<1>2. \A v \in UserVAs : v # va => Pte(w, v) = Pte(st, v)
  BY <1>1
<1>3. \A q \in Page : UsersIn(st, q) \ {va} = UsersIn(w, q) \ {va}
  BY <1>2 DEF UsersIn
<1>4. \A q \in Page : va \in UsersIn(w, q) <=> q = pg
  <2>1. NoPage \notin Page
    BY DEF NoPage, Page
  <2> QED
    BY <2>1 DEF UsersIn
<1>5. \A q \in Page : UsersIn(st, q) # {} /\ UsersIn(w, q) = {} <=> q # pg /\ UsersIn(st, q) = {va}
  <2> SUFFICES ASSUME NEW q \in Page
               PROVE  UsersIn(st, q) # {} /\ UsersIn(w, q) = {} <=> q # pg /\ UsersIn(st, q) = {va}
    OBVIOUS
  <2>1. UsersIn(st, q) \ {va} = UsersIn(w, q) \ {va}
    BY <1>3
  <2>2. va \in UsersIn(w, q) <=> q = pg
    BY <1>4
  <2> QED
    BY <2>1, <2>2
<1>6. Page \subseteq Nat
  BY DEF Page
<1>7. MappedIn(MapOf(st)) = {q \in Nat : UsersIn(st, q) # {}} /\ MappedIn(MapOf(w)) = {q \in Nat : UsersIn(w, q) # {}}
  BY MappedUsers
<1>8. \A q \in Page : q \in MappedIn(MapOf(st)) \ MappedIn(MapOf(w)) <=> q # pg /\ UsersIn(st, q) = {va}
  BY <1>5, <1>6, <1>7
<1>9. UsedOf(w) = UsedOf(st) \ (MappedIn(MapOf(st)) \ MappedIn(MapOf(w)))
  BY <1>8 DEF UsedOf
<1> QED
  BY <1>9 DEF Remapped

LEMMA InsertView ==
  ASSUME NEW st, Sound(st), NEW va \in UserVAs, NEW pg \in Page \ Taken(st), NEW b \in SUBSET Bits,
         NEW w, Inserted(st, pg, va, b, w)
  PROVE  SpaceStep(MapOf(st), UsedOf(st), MapOf(w), UsedOf(w))
<1>1. Remapped(MapOf(st), UsedOf(st), MapOf(w), UsedOf(w))
  <2>1. Present(Pte(w, va)) /\ Pte(w, va).page = pg
    BY DEF Inserted, Present
  <2>2. Remapped(MapOf(st), UsedOf(st), MapOf(w), UsedOf(w))
    <3>1. /\ Struct(st) /\ UserPages(st) /\ Struct(w)
          /\ \A v \in Dirs \X Slots : v # va => Pte(w, v) = Pte(st, v)
          /\ Taken(w) = Taken(st) \cup {q \in Page : q # pg /\ UsersIn(st, q) = {va}}
      BY DEF Sound, Inserted
    <3> QED
      BY <2>1, <3>1, LostPages, ZenonT(60)
  <2> QED
    BY <2>2
<1>2. UserVAs \subseteq Dirs \X Slots
  BY PageMapAssumption DEF UserVAs
<1>3. \A v \in UserVAs : v # va => MapOf(w)[v] = MapOf(st)[v]
  BY <1>2 DEF Inserted, MapOf
<1>4. MapOf(w)[va] = [page |-> pg, bits |-> b]
  <2>1. (b \cup {"P"}) \ {"P"} = b
    BY PageMapAssumption
  <2>2. Pte(w, va) = [page |-> pg, bits |-> b \cup {"P"}] /\ Present(Pte(w, va))
    BY DEF Inserted, Present
  <2> QED
    BY <2>1, <2>2 DEF MapOf
<1>5. MapOf(w) = [MapOf(st) EXCEPT ![va] = [page |-> pg, bits |-> b]]
  <2>1. MapOf(w) = [v \in UserVAs |-> MapOf(w)[v]] /\ MapOf(st) = [v \in UserVAs |-> MapOf(st)[v]]
    BY DEF MapOf
  <2> QED
    BY <1>3, <1>4, <2>1
<1>6. pg \in Page /\ pg \in UsedOf(st)
  BY DEF UsedOf
<1> QED
  BY <1>1, <1>5, <1>6 DEF SpaceStep

LEMMA RemoveView ==
  ASSUME NEW st, Sound(st), NEW va \in UserVAs, NEW w, Removed(st, va, NoPage, w)
  PROVE  SpaceStep(MapOf(st), UsedOf(st), MapOf(w), UsedOf(w))
<1>1. Remapped(MapOf(st), UsedOf(st), MapOf(w), UsedOf(w))
  BY LostPages DEF Sound, Removed
<1>2. UserVAs \subseteq Dirs \X Slots
  BY PageMapAssumption DEF UserVAs
<1>3. \A v \in UserVAs : v # va => MapOf(w)[v] = MapOf(st)[v]
  BY <1>2 DEF Removed, MapOf
<1>4. MapOf(w)[va] = NoMap
  BY DEF MapOf, Removed
<1>5. MapOf(w) = [MapOf(st) EXCEPT ![va] = NoMap]
  <2>1. MapOf(w) = [v \in UserVAs |-> MapOf(w)[v]] /\ MapOf(st) = [v \in UserVAs |-> MapOf(st)[v]]
    BY DEF MapOf
  <2> QED
    BY <1>3, <1>4, <2>1
<1> QED
  BY <1>1, <1>5 DEF SpaceStep

\* Nothing users see has changed.
LEMMA SameView ==
  ASSUME NEW st, NEW w, \A v \in UserVAs : Pte(w, v) = Pte(st, v), Taken(w) = Taken(st)
  PROVE  SpaceStep(MapOf(st), UsedOf(st), MapOf(w), UsedOf(w))
<1>1. MapOf(w) = MapOf(st)
  BY DEF MapOf
<1>2. UsedOf(w) = UsedOf(st)
  BY DEF UsedOf
<1> QED
  BY <1>1, <1>2 DEF SpaceStep

LEMMA MoreBits ==
  ASSUME NEW p, NEW x, NEW b
  PROVE  [[page |-> p, bits |-> x] EXCEPT !.bits = @ \cup b] = [page |-> p, bits |-> x \cup b]
OBVIOUS

\* setperm.
LEMMA PermitView ==
  ASSUME NEW st, Sound(st), NEW va \in VAs, NEW b \in SUBSET Bits,
         NEW w, Stored(st, va, [Pte(st, va) EXCEPT !.bits = @ \cup b], w),
         \A pg : UsersIn(w, pg) = UsersIn(st, pg)
  PROVE  SpaceStep(MapOf(st), UsedOf(st), MapOf(w), UsedOf(w))
<1>1. UserVAs \subseteq Dirs \X Slots /\ VAs \subseteq Dirs \X Slots
  BY PageMapAssumption DEF UserVAs
<1>2. \A v \in UserVAs : v # va => Pte(w, v) = Pte(st, v)
  BY <1>1 DEF Stored
<1>3. Taken(w) = Taken(st) /\ Struct(w) /\ Struct(st)
  BY DEF Stored, Sound
<1>4. CASE va \notin UserVAs
  BY <1>2, <1>3, <1>4, SameView
<1>5. CASE va \in UserVAs
  <2> DEFINE e == Pte(st, va)
  <2>1. e \in Entry
    BY <1>1, <1>3, PteType
  <2>2. /\ Pte(w, va).page = e.page /\ Pte(w, va).bits = e.bits \cup b
        /\ Present(Pte(w, va)) <=> Present(e)
    <3>1. Pte(w, va) = [e EXCEPT !.bits = @ \cup b]
      BY DEF Stored
    <3>2. "P" \notin b
      BY PageMapAssumption
    <3> HIDE DEF e
    <3> QED
      BY <2>1, <3>1, <3>2 DEF Entry, Present
  <2>3. \A v \in UserVAs : v # va => MapOf(w)[v] = MapOf(st)[v]
    BY <1>2 DEF MapOf
  <2>4. MapOf(w) = [v \in UserVAs |-> MapOf(w)[v]] /\ MapOf(st) = [v \in UserVAs |-> MapOf(st)[v]]
    BY DEF MapOf
  <2>5. UsedOf(w) = UsedOf(st)
    BY <1>3 DEF UsedOf
  <2>6. CASE ~Present(e)
    <3>1. MapOf(w)[va] = NoMap /\ MapOf(st)[va] = NoMap
      BY <1>5, <2>2, <2>6 DEF MapOf
    <3>2. MapOf(w) = MapOf(st)
      BY <2>3, <2>4, <3>1
    <3> QED
      BY <2>5, <3>2 DEF SpaceStep
  <2>7. CASE Present(e)
    <3>1. MapOf(st)[va] = [page |-> e.page, bits |-> e.bits \ {"P"}]
      BY <1>5, <2>7 DEF MapOf
    <3>2. (e.bits \cup b) \ {"P"} = (e.bits \ {"P"}) \cup b
      BY PageMapAssumption
    <3>3. MapOf(w)[va] = [page |-> e.page, bits |-> (e.bits \ {"P"}) \cup b]
      BY <1>5, <2>2, <2>7, <3>2 DEF MapOf
    <3> HIDE DEF e
    <3>4. MapOf(w)[va] = [MapOf(st)[va] EXCEPT !.bits = @ \cup b]
      <4>2. [[page |-> e.page, bits |-> e.bits \ {"P"}] EXCEPT !.bits = @ \cup b]
              = [page |-> e.page, bits |-> (e.bits \ {"P"}) \cup b]
        BY MoreBits
      <4> QED
        BY <3>1, <3>3, <4>2
    <3>5. MapOf(w) = [MapOf(st) EXCEPT ![va].bits = @ \cup b]
      BY <1>5, <2>3, <2>4, <3>4
    <3>6. MapOf(st)[va] # NoMap
      BY <1>3, <1>5, <2>7, MappedUsers DEF e
    <3>7. MappedIn(MapOf(w)) = MappedIn(MapOf(st))
      BY <1>3, MappedUsers
    <3>8. Remapped(MapOf(st), UsedOf(st), MapOf(w), UsedOf(w))
      BY <2>5, <3>7 DEF Remapped
    <3> QED
      BY <1>5, <3>5, <3>6, <3>8 DEF SpaceStep
  <2> QED
    BY <2>6, <2>7
<1> QED
  BY <1>4, <1>5

-----------------------------------------------------------------------------
(* page_alloc() and page_free() by clients.                                 *)

\* A machine that differs in its free list only.
LEMMA OtherFreeList ==
  ASSUME NEW st, Sound(st), NEW w, NEW f \in Seq(Page), w = [st EXCEPT !.free = f],
         \A j, k \in DOMAIN f : f[j] = f[k] => j = k,
         \A k \in DOMAIN f : f[k] \notin Reserved /\ TableDirs(st, f[k]) = {} /\ UsersIn(st, f[k]) = {}
  PROVE  /\ Sound(w) /\ MapOf(w) = MapOf(st)
         /\ FreeIn(w) = {f[k] : k \in DOMAIN f} /\ \A pg : TableDirs(w, pg) = TableDirs(st, pg)
<1>1. st \in Machine
  BY DEF Sound, Struct
<1>2. /\ w.free = f /\ w.ref = st.ref /\ w.pde = st.pde /\ w.mem = st.mem /\ w.tlb = st.tlb
      /\ w = [free |-> w.free, ref |-> w.ref, pde |-> w.pde, mem |-> w.mem, tlb |-> w.tlb]
  BY <1>1 DEF Machine
<1>3. w \in Machine
  BY <1>1, <1>2 DEF Machine
<1>4. /\ FreeIn(w) = {f[k] : k \in DOMAIN f} /\ (\A pg : TableDirs(w, pg) = TableDirs(st, pg))
      /\ (\A v : Pte(w, v) = Pte(st, v))
  BY <1>2 DEF FreeIn, TableDirs, Pte
<1>5. \A pg : UsersIn(w, pg) = UsersIn(st, pg)
  BY <1>4 DEF UsersIn
<1>6. MapOf(w) = MapOf(st)
  BY <1>4 DEF MapOf
<1>7. FreeOnce(w)
  BY <1>2 DEF FreeOnce
<1>8. TablesApart(w)
  <2>1. \A d \in Dirs : Present(st.pde[d]) => st.pde[d].page \notin FreeIn(w)
    BY <1>4 DEF TableDirs
  <2> QED
    BY <1>2, <2>1 DEF TablesApart, Sound, Struct
<1>9. \A va \in UserVAs : Present(Pte(st, va)) => Pte(st, va).page \in Page \ Taken(w)
  <2> SUFFICES ASSUME NEW va \in UserVAs, Present(Pte(st, va)) PROVE Pte(st, va).page \in Page \ Taken(w)
    OBVIOUS
  <2>1. Pte(st, va).page \in Page \ Taken(st)
    BY DEF Sound, UserPages
  <2>2. va \in UsersIn(st, Pte(st, va).page)
    BY DEF UsersIn
  <2>3. Pte(st, va).page \notin FreeIn(w)
    BY <1>4, <2>2
  <2> QED
    BY <1>4, <2>1, <2>3 DEF Taken
<1>10. UserPages(w)
  BY <1>4, <1>9 DEF UserPages
<1>11. Counted(w, NoPage)
  BY <1>2, <1>4, <1>5 DEF Counted, Sound
<1>12. Cached(w)
  BY <1>2, <1>4 DEF Cached, Sound
<1> QED
  BY <1>3, <1>4, <1>6, <1>7, <1>8, <1>10, <1>11, <1>12 DEF Sound, Struct

LEMMA AllocShape ==
  ASSUME NEW st, Sound(st), st.free # << >>, NEW w, w = [st EXCEPT !.free = Tail(st.free)]
  PROVE  Sound(w) /\ SpaceStep(MapOf(st), UsedOf(st), MapOf(w), UsedOf(w))
<1> DEFINE f == st.free
           t == Tail(f)
           pg == Head(f)
<1>1. f \in Seq(Page) /\ \A j, k \in DOMAIN f : f[j] = f[k] => j = k
  BY DEF Sound, Struct, Machine, FreeOnce
<1>2. FrontTaken(f, t, pg)
  BY <1>1, FreeTail
<1>3. Loose(st, NoPage)
  BY DEF Loose
<1>4. \A q \in FreeIn(st) : q \in Page \ Reserved /\ TableDirs(st, q) = {} /\ UsersIn(st, q) = {}
  BY <1>3, FreeUnused DEF Sound
<1>5. FreeIn(st) = {f[k] : k \in DOMAIN f}
  BY DEF FreeIn
<1>6. w = [st EXCEPT !.free = t]
  OBVIOUS
<1> HIDE DEF f, t, pg
<1>7. \A k \in DOMAIN t : t[k] \in FreeIn(st)
  BY <1>2, <1>5 DEF FrontTaken
<1>8. \A k \in DOMAIN t : t[k] \notin Reserved /\ TableDirs(st, t[k]) = {} /\ UsersIn(st, t[k]) = {}
  BY <1>4, <1>7
<1>9. t \in Seq(Page) /\ \A j, k \in DOMAIN t : t[j] = t[k] => j = k
  BY <1>2 DEF FrontTaken
<1>10. /\ Sound(w) /\ MapOf(w) = MapOf(st)
       /\ FreeIn(w) = {t[k] : k \in DOMAIN t} /\ \A q : TableDirs(w, q) = TableDirs(st, q)
  BY <1>6, <1>8, <1>9, OtherFreeList
<1>11. pg \in FreeIn(st) /\ FreeIn(w) = FreeIn(st) \ {pg}
  BY <1>2, <1>5, <1>10 DEF FrontTaken
<1>12. pg \in Page /\ pg \notin UsedOf(st) /\ UsedOf(w) = UsedOf(st) \cup {pg}
  BY <1>4, <1>10, <1>11 DEF UsedOf, Taken
<1> QED
  BY <1>10, <1>12 DEF SpaceStep

LEMMA FreeShape ==
  ASSUME NEW st, Sound(st), NEW pg \in Page \ Taken(st), st.ref[pg] = 0,
         NEW w, w = [st EXCEPT !.free = <<pg>> \o st.free]
  PROVE  Sound(w) /\ SpaceStep(MapOf(st), UsedOf(st), MapOf(w), UsedOf(w))
<1> DEFINE f == st.free
           g == <<pg>> \o f
<1>1. f \in Seq(Page) /\ \A j, k \in DOMAIN f : f[j] = f[k] => j = k
  BY DEF Sound, Struct, Machine, FreeOnce
<1>2. pg \notin Reserved /\ pg \notin FreeIn(st) /\ TableDirs(st, pg) = {}
  BY DEF Taken
<1>3. FreeIn(st) = {f[k] : k \in DOMAIN f}
  BY DEF FreeIn
<1>4. \A k \in DOMAIN f : f[k] # pg
  BY <1>2, <1>3
<1>5. w = [st EXCEPT !.free = g]
  OBVIOUS
<1> HIDE DEF f
<1>6. /\ g \in Seq(Page) /\ {g[k] : k \in DOMAIN g} = {f[k] : k \in DOMAIN f} \cup {pg}
      /\ \A j, k \in DOMAIN g : g[j] = g[k] => j = k
  BY <1>1, <1>4, FreeFront
<1> HIDE DEF g
<1>7. UsersIn(st, pg) = {}
  <2>1. pg # NoPage
    BY DEF NoPage, Page
  <2>2. st.ref[pg] = Cardinality(UsersIn(st, pg)) + Cardinality(TableDirs(st, pg)) + 0
    BY <1>2, <2>1 DEF Sound, Counted
  <2>3. Cardinality(UsersIn(st, pg)) \in Nat /\ Cardinality(TableDirs(st, pg)) \in Nat /\ IsFiniteSet(UsersIn(st, pg))
    BY Finite
  <2>4. Cardinality(UsersIn(st, pg)) = 0
    BY <2>2, <2>3
  <2> QED
    BY <2>3, <2>4, FS_EmptySet
<1>8. Loose(st, NoPage)
  BY DEF Loose
<1>9. \A q \in FreeIn(st) : q \in Page \ Reserved /\ TableDirs(st, q) = {} /\ UsersIn(st, q) = {}
  BY <1>8, FreeUnused DEF Sound
<1>10. \A k \in DOMAIN g : g[k] \in FreeIn(st) \cup {pg}
  BY <1>3, <1>6
<1>11. \A k \in DOMAIN g : g[k] \notin Reserved /\ TableDirs(st, g[k]) = {} /\ UsersIn(st, g[k]) = {}
  BY <1>2, <1>7, <1>9, <1>10
<1>12. /\ Sound(w) /\ MapOf(w) = MapOf(st)
       /\ FreeIn(w) = {g[k] : k \in DOMAIN g} /\ \A q : TableDirs(w, q) = TableDirs(st, q)
  BY <1>5, <1>6, <1>11, OtherFreeList
<1>13. pg \in UsedOf(st) /\ UsedOf(w) = UsedOf(st) \ {pg}
  BY <1>3, <1>6, <1>12 DEF UsedOf, Taken
<1>14. pg \notin MappedIn(MapOf(st))
  <2>1. Struct(st)
    BY DEF Sound
  <2> QED
    BY <1>7, <2>1, MappedUsers
<1> QED
  BY <1>12, <1>13, <1>14 DEF SpaceStep

-----------------------------------------------------------------------------
(* The invariant holds at the start and is kept.                            *)

\* page_init() puts every page that is not reserved on the list, once.
LEMMA AllFree ==
  ASSUME NEW f \in FreeLists
  PROVE  /\ f \in Seq(Page) /\ {f[k] : k \in DOMAIN f} = Page \ Reserved
         /\ \A j, k \in DOMAIN f : f[j] = f[k] => j = k
<1> DEFINE P == Page \ Reserved
           n == Cardinality(P)
<1>1. IsFiniteSet(P) /\ n \in Nat
  <2>1. IsFiniteSet(Page)
    BY FS_Interval, PageMapAssumption DEF Page
  <2> QED
    BY <2>1, FS_Subset, FS_CardinalityType
<1>2. f \in [1 .. n -> P] /\ \A j, k \in DOMAIN f : j < k => f[j] > f[k]
  BY DEF FreeLists
<1>3. P \subseteq Page /\ P \subseteq Int
  BY DEF Page
<1> HIDE DEF P, n
<1>4. ASSUME NEW j \in DOMAIN f, NEW k \in DOMAIN f, f[j] = f[k] PROVE j = k
  <2>1. j \in 1 .. n /\ k \in 1 .. n /\ f[j] \in P /\ f[k] \in P
    BY <1>2
  <2>2. ~(j < k) /\ ~(k < j)
    <3>1. f[j] \in Int /\ f[k] \in Int
      BY <1>3, <2>1
    <3> QED
      BY <1>2, <1>4, <3>1
  <2> QED
    BY <1>1, <2>1, <2>2
<1>5. ASSUME NEW p \in P PROVE \E k \in DOMAIN f : f[k] = p
  <2> SUFFICES ASSUME \A k \in DOMAIN f : f[k] # p PROVE FALSE
    OBVIOUS
  <2>1. f \in [1 .. n -> P \ {p}]
    BY <1>2
  <2>2. IsFiniteSet(1 .. n) /\ Cardinality(1 .. n) = n
    BY <1>1, FS_Interval
  <2>3. IsFiniteSet(P \ {p}) /\ Cardinality(P \ {p}) = n - 1
    BY <1>1, FS_RemoveElement DEF n
  <2>4. Cardinality(P \ {p}) < Cardinality(1 .. n)
    BY <1>1, <2>2, <2>3
  <2>5. \E x, y \in 1 .. n : x # y /\ f[x] = f[y]
    <3> DEFINE D == 1 .. n
               Q == P \ {p}
    <3>1. IsFiniteSet(D) /\ IsFiniteSet(Q) /\ Cardinality(Q) < Cardinality(D) /\ f \in [D -> Q]
      BY <2>1, <2>2, <2>3, <2>4
    <3> HIDE DEF D, Q
    <3>2. \E x, y \in D : x # y /\ f[x] = f[y]
      BY <3>1, FS_PigeonHole
    <3> QED
      BY <3>2 DEF D
  <2> QED
    BY <1>2, <1>4, <2>5
<1>6. f \in Seq(Page)
  <2>1. f \in [1 .. n -> Page]
    BY <1>2, <1>3
  <2> QED
    BY <1>1, <2>1, SeqDef
<1>7. {f[k] : k \in DOMAIN f} = P
  BY <1>2, <1>5
<1> QED
  BY <1>4, <1>6, <1>7 DEF P

LEMMA PageInvInit == PageInit => PageInv /\ S!SpaceInit
<1> SUFFICES ASSUME PageInit PROVE PageInv /\ S!SpaceInit
  OBVIOUS
<1>1. ~Present(Zero) /\ Zero \in Entry
  BY DEF Present, Zero, Entry
<1>2. Junk \in Entry
  BY PageMapAssumption DEF Junk, Entry
<1>3. /\ Now.free = free /\ Now.ref = ref /\ Now.pde = pde /\ Now.mem = mem /\ Now.tlb = tlb
      /\ Now = [free |-> free, ref |-> ref, pde |-> pde, mem |-> mem, tlb |-> tlb]
  BY DEF Now
<1>4. /\ free \in Seq(Page) /\ {free[k] : k \in DOMAIN free} = Page \ Reserved
      /\ \A j, k \in DOMAIN free : free[j] = free[k] => j = k
  BY AllFree DEF PageInit
<1>5. FreeIn(Now) = Page \ Reserved
  BY <1>3, <1>4 DEF FreeIn
<1>6. ref \in [Page -> 0 .. REFMOD - 1]
  <2>1. 1 < REFMOD /\ REFMOD \in Nat
    BY RefRange
  <2> QED
    BY <2>1 DEF PageInit
<1>7. Now \in Machine
  BY <1>1, <1>2, <1>3, <1>4, <1>6 DEF PageInit, Machine
<1>8. \A d \in Dirs : ~Present(pde[d])
  BY <1>1 DEF PageInit
<1>9. Struct(Now)
  BY <1>3, <1>4, <1>7, <1>8 DEF Struct, FreeOnce, TablesApart
<1>10. UserVAs \subseteq Dirs \X Slots
  BY PageMapAssumption DEF UserVAs
<1>11. \A va \in UserVAs : ~Present(Pte(Now, va))
  BY <1>1, <1>3, <1>8, <1>10 DEF Pte
<1>12. \A pg : UsersIn(Now, pg) = {} /\ TableDirs(Now, pg) = {}
  BY <1>3, <1>8, <1>11 DEF UsersIn, TableDirs
<1>13. Counted(Now, NoPage)
  <2> SUFFICES ASSUME NEW pg \in Page \ Reserved
               PROVE  Now.ref[pg] = Cardinality(UsersIn(Now, pg)) + Cardinality(TableDirs(Now, pg)) + (IF pg = NoPage THEN 1 ELSE 0)
    BY DEF Counted
  <2>1. FreeAtBoot(pg)
    BY DEF Reserved
  <2>2. Now.ref[pg] = 0
    BY <1>3, <2>1 DEF PageInit
  <2>3. pg # NoPage
    BY DEF NoPage, Page
  <2>4. Cardinality(UsersIn(Now, pg)) = 0 /\ Cardinality(TableDirs(Now, pg)) = 0
    BY <1>12, FS_EmptySet
  <2> QED
    BY <2>2, <2>3, <2>4
<1>14. UserPages(Now)
  BY <1>11 DEF UserPages
<1>15. \A va \in VAs : tlb[va] = NoMap
  BY DEF PageInit
<1>16. Cached(Now)
  BY <1>3, <1>15 DEF Cached
<1>17. Booting
  BY <1>8, <1>15 DEF Booting, PageInit
<1>18. PageInv
  BY <1>9, <1>13, <1>14, <1>16, <1>17 DEF PageInv, Sound
<1>19. MapOf(Now) = [va \in UserVAs |-> NoMap]
  BY <1>11 DEF MapOf
<1>20. UsedOf(Now) = {}
  BY <1>5 DEF UsedOf, Taken
<1>21. S!SpaceInit
  BY <1>9, <1>19, <1>20, NowView DEF S!SpaceInit
<1> QED
  BY <1>18, <1>21

\* What a step of the machine has to show.
StepSound == Sound(Now') /\ Booting' /\ SpaceStep(MapOf(Now), UsedOf(Now), MapOf(Now'), UsedOf(Now'))

\* Booting is over for good.
LEMMA BootedStays ==
  ASSUME Booting, Booted, UNCHANGED boot
  PROVE  Booting'
BY DEF Booting, Booted

LEMMA BootStep ==
  ASSUME PageInv, BootMapPage
  PROVE  StepSound
<1> DEFINE r == Regions[boot[1]]
           va == AddrOf(r.va \div PGSIZE + boot[2])
           e == [page |-> r.pa + boot[2], bits |-> r.bits \cup {"P"}]
           w == Walk(Now, va[1])
           g == Store(w, va, e)
<1>1. boot[1] \in 1 .. 3 /\ boot[2] \in Nat /\ boot[1] \in Nat
  <2>1. Len(Regions) = 3
    BY DEF Regions
  <2> QED
    BY <2>1 DEF BootMapPage, Booted, PageInv, Booting
<1>2. boot[2] < r.size \div PGSIZE /\ CanWalk(Now, va[1]) /\ Becomes(g) /\ boot' = [boot EXCEPT ![2] = @ + 1]
  BY DEF BootMapPage
<1>3. va = AddrOf(Regions[boot[1]].va \div PGSIZE + boot[2])
  OBVIOUS
<1>4. va \in Dirs \X Slots /\ va[1] \in Dirs /\ va[1] >= UTOPDIR /\ e \in Entry
  <2> HIDE DEF va
  <2> QED
    BY <1>1, <1>2, <1>3, RegionAddress
<1>5. w = Walk(Now, va[1]) /\ g = Store(w, va, e)
  OBVIOUS
<1> HIDE DEF r, va, e, w, g
<1>6. Sound(Now) /\ Struct(Now)
  BY DEF PageInv, Sound
<1>7. Walked(Now, va[1], w)
  BY <1>2, <1>4, <1>5, <1>6, WalkShape
<1>8. Struct(w) /\ Present(w.pde[va[1]]) /\ w.tlb = Now.tlb /\ Taken(w) = Taken(Now)
      /\ \A v \in Dirs \X Slots : Pte(w, v) = Pte(Now, v)
  BY <1>7 DEF Walked, SameEntries
<1>9. Stored(w, va, e, g)
  BY <1>4, <1>5, <1>8, StoreShape
<1>10. Loose(Now, NoPage)
  BY DEF Loose
<1>11. Sound(w)
  BY <1>4, <1>6, <1>7, <1>8, <1>10, WalkCounts, CachedWalk DEF Sound
<1>12. va \notin UserVAs
  <2>1. va[1] \in Int /\ UTOPDIR \in Int
    BY <1>4, PageMapAssumption DEF Dirs
  <2> QED
    BY <1>4, <2>1 DEF UserVAs
<1>13. ~Booted /\ \A v \in VAs : tlb[v] = NoMap
  BY DEF BootMapPage, PageInv, Booting
<1>14. va \in VAs => w.tlb[va] = NoMap
  BY <1>8, <1>13, NowFields
<1>15. Sound(g)
  BY <1>4, <1>9, <1>11, <1>12, <1>14, StoreSound
<1>16. Now' = g
  BY <1>2, <1>15, NextMachine DEF Sound, Struct
<1>17. g.tlb = w.tlb /\ g.pde = w.pde /\ Taken(g) = Taken(w)
       /\ \A v \in Dirs \X Slots : v # va => Pte(g, v) = Pte(w, v)
  BY <1>9 DEF Stored
<1>18. tlb' = tlb /\ pde' = w.pde
  <2>1. tlb' = g.tlb /\ pde' = g.pde
    BY <1>2 DEF Becomes
  <2> QED
    BY <1>8, <1>17, <2>1, NowFields
<1>19. \A d \in Dirs : d < UTOPDIR => ~Present(w.pde[d])
  <2>1. \A d \in Dirs : d < UTOPDIR => ~Present(pde[d]) /\ d # va[1]
    <3>1. va[1] \in Int /\ UTOPDIR \in Int /\ Dirs \subseteq Int
      BY <1>4, PageMapAssumption DEF Dirs
    <3>2. \A d \in Dirs : d < UTOPDIR => ~Present(pde[d])
      BY <1>13 DEF PageInv, Booting
    <3> QED
      BY <1>4, <3>1, <3>2
  <2>2. CASE w = Now
    BY <2>1, <2>2, NowFields
  <2>3. ASSUME NEW pg \in Page, NewTable(Now, va[1], pg, w)
        PROVE  \A d \in Dirs : d < UTOPDIR => ~Present(w.pde[d])
    <3>1. pde \in [Dirs -> Entry]
      BY <1>6, NowFields DEF Struct, Machine
    <3>2. w.pde = [pde EXCEPT ![va[1]] = [page |-> pg, bits |-> AllBits]]
      BY <2>3, NowFields DEF NewTable
    <3> QED
      BY <2>1, <3>1, <3>2
  <2> QED
    BY <1>7, <2>2, <2>3 DEF Walked
<1>20. Booting'
  <2>1. boot' \in Nat \X Nat /\ boot'[1] = boot[1]
    BY <1>1, <1>2 DEF PageInv, Booting
  <2> QED
    BY <1>1, <1>13, <1>18, <1>19, <2>1 DEF Booting
<1>21. SpaceStep(MapOf(Now), UsedOf(Now), MapOf(g), UsedOf(g))
  <2>1. UserVAs \subseteq Dirs \X Slots
    BY PageMapAssumption DEF UserVAs
  <2>2. \A v \in UserVAs : Pte(g, v) = Pte(Now, v)
    BY <1>8, <1>12, <1>17, <2>1
  <2>3. Taken(g) = Taken(Now)
    BY <1>8, <1>17
  <2> QED
    BY <2>2, <2>3, SameView
<1> QED
  BY <1>15, <1>16, <1>20, <1>21 DEF StepSound

\* A machine that differs in its TLB only.
LEMMA OtherTlb ==
  ASSUME NEW st, Sound(st), NEW t \in [VAs -> [page : Nat, bits : SUBSET Bits] \cup {NoMap}],
         NEW w, w = [st EXCEPT !.tlb = t],
         \A va \in VAs : t[va] # NoMap =>
           /\ Present(Pte(st, va)) /\ t[va].page = Pte(st, va).page
           /\ t[va].bits \subseteq Pte(st, va).bits \ {"P"}
  PROVE  Sound(w) /\ SpaceStep(MapOf(st), UsedOf(st), MapOf(w), UsedOf(w))
<1>1. st \in Machine /\ Struct(st)
  BY DEF Sound, Struct
<1>2. /\ w.free = st.free /\ w.ref = st.ref /\ w.pde = st.pde /\ w.mem = st.mem /\ w.tlb = t
      /\ w = [free |-> w.free, ref |-> w.ref, pde |-> w.pde, mem |-> w.mem, tlb |-> w.tlb]
  BY <1>1 DEF Machine
<1>3. w \in Machine
  BY <1>1, <1>2 DEF Machine
<1>4. /\ FreeIn(w) = FreeIn(st) /\ (\A pg : TableDirs(w, pg) = TableDirs(st, pg))
      /\ (\A v : Pte(w, v) = Pte(st, v))
  <2>1. FreeIn(w) = FreeIn(st)
    BY <1>2 DEF FreeIn
  <2>2. \A pg : TableDirs(w, pg) = TableDirs(st, pg)
    BY <1>2 DEF TableDirs
  <2>3. \A v : Pte(w, v) = Pte(st, v)
    BY <1>2 DEF Pte
  <2> QED
    BY <2>1, <2>2, <2>3
<1>5. \A pg : UsersIn(w, pg) = UsersIn(st, pg)
  BY <1>4 DEF UsersIn
<1>6. Taken(w) = Taken(st)
  BY <1>4 DEF Taken
<1>7. Struct(w)
  BY <1>1, <1>2, <1>3, <1>4 DEF Struct, FreeOnce, TablesApart
<1>8. UserPages(w)
  BY <1>4, <1>6 DEF UserPages, Sound
<1>9. Counted(w, NoPage)
  BY <1>2, <1>4, <1>5 DEF Counted, Sound
<1>10. Cached(w)
  BY <1>2, <1>4 DEF Cached
<1> QED
  BY <1>4, <1>6, <1>7, <1>8, <1>9, <1>10, SameView DEF Sound

LEMMA PageInvStep ==
  ASSUME PageInv, [PageNext]_pageVars
  PROVE  StepSound
<1>1. Sound(Now) /\ Struct(Now) /\ Booting /\ Now \in Machine
  BY DEF PageInv, Sound, Struct
<1>2. /\ Now.free = free /\ Now.ref = ref /\ Now.pde = pde /\ Now.mem = mem /\ Now.tlb = tlb
      /\ Now = [free |-> free, ref |-> ref, pde |-> pde, mem |-> mem, tlb |-> tlb]
      /\ Now' = [free |-> free', ref |-> ref', pde |-> pde', mem |-> mem', tlb |-> tlb']
  BY DEF Now
<1>3. Allocated = Page \ Taken(Now)
  BY <1>1, NowView DEF UsedOf
<1>4. ASSUME Now' = Now PROVE Sound(Now') /\ SpaceStep(MapOf(Now), UsedOf(Now), MapOf(Now'), UsedOf(Now'))
  BY <1>1, <1>4, SameView
<1>5. CASE UNCHANGED pageVars
  <2>1. Now' = Now
    BY <1>2, <1>5 DEF pageVars
  <2>2. Booting'
    BY <1>1, <1>5 DEF pageVars, Booting, Booted
  <2> QED
    BY <1>4, <2>1, <2>2 DEF StepSound
<1>6. CASE BootMapPage
  BY <1>6, BootStep
<1>7. CASE BootNextRegion
  <2>1. Now' = Now
    BY <1>2, <1>7 DEF BootNextRegion
  <2>2. boot' = <<boot[1] + 1, 0>> /\ tlb' = tlb /\ pde' = pde /\ ~Booted
    BY <1>7 DEF BootNextRegion
  <2>3. boot' \in Nat \X Nat /\ boot'[1] >= 1
    BY <1>1, <2>2 DEF Booting
  <2>4. Booting'
    BY <1>1, <2>2, <2>3 DEF Booting
  <2> QED
    BY <1>4, <2>1, <2>4 DEF StepSound
<1>8. CASE PageAlloc
  <2>1. Now.free # << >> /\ Booted /\ boot' = boot
    BY <1>2, <1>8 DEF PageAlloc
  <2>2. Now' = [Now EXCEPT !.free = Tail(Now.free)]
    <3> DEFINE f == Tail(Now.free)
    <3>1. ref' = ref /\ pde' = pde /\ mem' = mem /\ tlb' = tlb
      BY <1>8 DEF PageAlloc
    <3>2. free' = f
      BY <1>2, <1>8 DEF PageAlloc
    <3> HIDE DEF f
    <3>4. [Now EXCEPT !.free = f] = [free |-> f, ref |-> ref, pde |-> pde, mem |-> mem, tlb |-> tlb]
      BY <1>2
    <3>3. Now' = [Now EXCEPT !.free = f]
      BY <1>2, <3>1, <3>2, <3>4, ZenonT(60)
    <3> QED
      BY <3>3 DEF f
  <2> QED
    BY <1>1, <2>1, <2>2, AllocShape, BootedStays DEF StepSound
<1>9. ASSUME NEW pg \in Page, PageFree(pg) PROVE StepSound
  <2>1. pg \in Page \ Taken(Now) /\ Now.ref[pg] = 0 /\ Booted /\ boot' = boot
    BY <1>2, <1>3, <1>9 DEF PageFree
  <2>2. Now' = [Now EXCEPT !.free = <<pg>> \o Now.free]
    <3> DEFINE f == <<pg>> \o Now.free
    <3>1. ref' = ref /\ pde' = pde /\ mem' = mem /\ tlb' = tlb
      BY <1>9 DEF PageFree
    <3>2. free' = f
      BY <1>2, <1>9 DEF PageFree
    <3> HIDE DEF f
    <3>4. [Now EXCEPT !.free = f] = [free |-> f, ref |-> ref, pde |-> pde, mem |-> mem, tlb |-> tlb]
      BY <1>2
    <3>3. Now' = [Now EXCEPT !.free = f]
      BY <1>2, <3>1, <3>2, <3>4, ZenonT(60)
    <3> QED
      BY <3>3 DEF f
  <2> QED
    BY <1>1, <2>1, <2>2, FreeShape, BootedStays DEF StepSound
<1>10. ASSUME NEW pg \in Page, NEW va \in UserVAs, NEW b \in PermArgs, PageInsert(pg, va, b) PROVE StepSound
  <2> DEFINE w == InsertResult(Now, pg, va, b)
  <2>1. pg \in Page \ Taken(Now) /\ CanWalk(Now, va[1]) /\ Booted /\ boot' = boot
    BY <1>3, <1>10 DEF PageInsert
  <2>2. Becomes(w)
    BY <1>10 DEF PageInsert, InsertResult
  <2>3. b \in SUBSET Bits
    BY PageMapAssumption
  <2>4. Inserted(Now, pg, va, b, w)
    BY <1>1, <2>1, <2>3, InsertShape DEF Sound
  <2> HIDE DEF w
  <2>5. Sound(w)
    BY <1>1, <2>4, InsertSound
  <2>6. SpaceStep(MapOf(Now), UsedOf(Now), MapOf(w), UsedOf(w))
    BY <1>1, <2>1, <2>3, <2>4, InsertView
  <2>7. Now' = w
    BY <2>2, <2>5, NextMachine DEF Sound, Struct
  <2> QED
    BY <1>1, <2>1, <2>5, <2>6, <2>7, BootedStays DEF StepSound
<1>11. ASSUME NEW va \in UserVAs, PageRemove(va) PROVE StepSound
  <2> DEFINE w == Remove(Now, va)
  <2>1. Becomes(w) /\ Booted /\ boot' = boot
    BY <1>11 DEF PageRemove
  <2>2. Loose(Now, NoPage)
    BY DEF Loose
  <2>3. Removed(Now, va, NoPage, w)
    BY <1>1, <2>2, RemoveShape DEF Sound
  <2> HIDE DEF w
  <2>4. Sound(w) /\ SpaceStep(MapOf(Now), UsedOf(Now), MapOf(w), UsedOf(w))
    BY <1>1, <2>3, RemoveSound, RemoveView
  <2>5. Now' = w
    BY <2>1, <2>4, NextMachine DEF Sound, Struct
  <2> QED
    BY <1>1, <2>1, <2>4, <2>5, BootedStays DEF StepSound
<1>12. ASSUME NEW va \in VAs, NEW b \in SUBSET SetBits, SetPerm(va, b) PROVE StepSound
  <2> DEFINE e == Pte(Now, va)
             n == [e EXCEPT !.bits = @ \cup b]
             w == Store(Now, va, n)
  <2>1. Becomes(w) /\ Booted /\ boot' = boot /\ Present(Now.pde[va[1]])
    BY <1>2, <1>12 DEF SetPerm
  <2>2. va \in Dirs \X Slots /\ b \in SUBSET Bits /\ "P" \notin b
    BY PageMapAssumption
  <2>3. e \in Entry
    BY <1>1, <2>2, PteType
  <2>4. w = Store(Now, va, n) /\ n = [e EXCEPT !.bits = @ \cup b]
    OBVIOUS
  <2> HIDE DEF e, n, w
  <2>5. n \in Entry /\ n.page = e.page /\ n.bits = e.bits \cup b /\ (Present(n) <=> Present(e))
    BY <2>2, <2>3, <2>4 DEF Entry, AllBits, Present
  <2>6. Stored(Now, va, n, w)
    BY <1>1, <2>1, <2>2, <2>4, <2>5, StoreShape
  <2>7. Sound(w) /\ \A pg : UsersIn(w, pg) = UsersIn(Now, pg)
    <3>1. n.page = Pte(Now, va).page /\ (Present(n) <=> Present(Pte(Now, va))) /\ Pte(Now, va).bits \subseteq n.bits
      BY <2>5 DEF e
    <3> QED
      BY <1>1, <2>2, <2>6, <3>1, StoreSound
  <2>8. SpaceStep(MapOf(Now), UsedOf(Now), MapOf(w), UsedOf(w))
    <3>1. n = [Pte(Now, va) EXCEPT !.bits = @ \cup b]
      BY <2>4 DEF e
    <3> QED
      BY <1>1, <2>2, <2>6, <2>7, <3>1, PermitView
  <2>9. Now' = w
    BY <2>1, <2>7, NextMachine DEF Sound, Struct
  <2> QED
    BY <1>1, <2>1, <2>7, <2>8, <2>9, BootedStays DEF StepSound
<1>13. ASSUME NEW va \in VAs, TlbFill(va) PROVE StepSound
  <2> DEFINE e == Pte(Now, va)
             t == [tlb EXCEPT ![va] = Translate(va)]
  <2>1. /\ Translate(va) # NoMap /\ Booted /\ boot' = boot /\ tlb' = t
        /\ free' = free /\ ref' = ref /\ pde' = pde /\ mem' = mem
    BY <1>13 DEF TlbFill
  <2>2. va \in Dirs \X Slots
    BY PageMapAssumption
  <2>3. e \in Entry
    BY <1>1, <2>2, PteType
  <2>4. Present(e) /\ Translate(va) = [page |-> e.page, bits |-> (e.bits \cap pde[va[1]].bits) \ {"P"}]
    BY <2>1 DEF Translate
  <2>5. tlb \in [VAs -> [page : Nat, bits : SUBSET Bits] \cup {NoMap}]
    BY <1>1, <1>2 DEF Machine
  <2>6. Translate(va) \in [page : Nat, bits : SUBSET Bits]
    BY <2>3, <2>4 DEF Entry, AllBits
  <2>7. t \in [VAs -> [page : Nat, bits : SUBSET Bits] \cup {NoMap}]
    BY <2>5, <2>6
  <2>8. ASSUME NEW v \in VAs, t[v] # NoMap
        PROVE  /\ Present(Pte(Now, v)) /\ t[v].page = Pte(Now, v).page
               /\ t[v].bits \subseteq Pte(Now, v).bits \ {"P"}
    <3>1. CASE v = va
      <4>1. t[v] = [page |-> e.page, bits |-> (e.bits \cap pde[va[1]].bits) \ {"P"}]
        BY <2>4, <2>5, <3>1
      <4> QED
        BY <2>4, <3>1, <4>1
    <3>2. CASE v # va
      <4>1. t[v] = tlb[v]
        BY <2>5, <3>2
      <4> QED
        BY <1>1, <1>2, <2>8, <4>1 DEF Sound, Cached
    <3> QED
      BY <3>1, <3>2
  <2>9. Now' = [Now EXCEPT !.tlb = t]
    BY <1>2, <2>1
  <2> HIDE DEF t
  <2>10. Sound(Now') /\ SpaceStep(MapOf(Now), UsedOf(Now), MapOf(Now'), UsedOf(Now'))
    BY <1>1, <2>7, <2>8, <2>9, OtherTlb
  <2> QED
    BY <1>1, <2>1, <2>10, BootedStays DEF StepSound
<1>14. ASSUME NEW va \in VAs, TlbEvict(va) PROVE StepSound
  <2> DEFINE t == [tlb EXCEPT ![va] = NoMap]
  <2>1. /\ boot' = boot /\ tlb' = t /\ free' = free /\ ref' = ref /\ pde' = pde /\ mem' = mem
    BY <1>14 DEF TlbEvict
  <2>2. tlb \in [VAs -> [page : Nat, bits : SUBSET Bits] \cup {NoMap}]
    BY <1>1, <1>2 DEF Machine
  <2>3. t \in [VAs -> [page : Nat, bits : SUBSET Bits] \cup {NoMap}]
    BY <2>2
  <2>4. \A v \in VAs : t[v] # NoMap => t[v] = tlb[v]
    BY <2>2
  <2>5. \A v \in VAs : tlb[v] # NoMap =>
           /\ Present(Pte(Now, v)) /\ tlb[v].page = Pte(Now, v).page
           /\ tlb[v].bits \subseteq Pte(Now, v).bits \ {"P"}
    BY <1>1, <1>2 DEF Sound, Cached
  <2>6. Now' = [Now EXCEPT !.tlb = t]
    BY <1>2, <2>1
  <2>7. \A v \in VAs : tlb[v] = NoMap => tlb'[v] = NoMap
    BY <2>1, <2>2
  <2>8. Booting'
    BY <1>1, <2>1, <2>7 DEF Booting, Booted
  <2> HIDE DEF t
  <2>9. \A v \in VAs : t[v] # NoMap =>
           /\ Present(Pte(Now, v)) /\ t[v].page = Pte(Now, v).page
           /\ t[v].bits \subseteq Pte(Now, v).bits \ {"P"}
    BY <2>4, <2>5
  <2>10. Sound(Now') /\ SpaceStep(MapOf(Now), UsedOf(Now), MapOf(Now'), UsedOf(Now'))
    BY <1>1, <2>3, <2>6, <2>9, OtherTlb
  <2> QED
    BY <2>8, <2>10 DEF StepSound
<1> QED
  BY <1>5, <1>6, <1>7, <1>8, <1>9, <1>10, <1>11, <1>12, <1>13, <1>14 DEF PageNext

-----------------------------------------------------------------------------
(* The theorems.                                                            *)

\* The inductive invariant: page tables are pages of their own, every reference is
\* counted, users have pages of clients, and the TLB has what the tables have.
THEOREM PageInvariance == PageSpec => []PageInv
<1>1. PageInit => PageInv
  BY PageInvInit
<1>2. PageInv /\ [PageNext]_pageVars => PageInv'
  <2> SUFFICES ASSUME PageInv, [PageNext]_pageVars PROVE PageInv'
    OBVIOUS
  <2>1. Sound(Now') /\ Booting'
    BY PageInvStep DEF StepSound
  <2> QED
    BY <2>1 DEF PageInv
<1> QED
  BY <1>1, <1>2, PTL DEF PageSpec

\* page_insert(), page_remove(), page_decref() and pgdir_walk() keep pp_ref equal to
\* the number of mappings, and a page on page_free_list is there once and in no
\* page table and not in the TLB, for any memory and any set of user addresses.
THEOREM PagesAreAccounted == PageSpec => []PagesAccounted
<1>1. PageInv => PagesAccounted
  <2> SUFFICES ASSUME PageInv PROVE PagesAccounted
    OBVIOUS
  <2>1. Sound(Now) /\ Struct(Now)
    BY DEF PageInv, Sound
  <2>2. Now.free = free /\ Now.ref = ref /\ Now.pde = pde /\ Now.tlb = tlb
    BY NowFields
  <2>3. \A pg : Users(pg) = UsersIn(Now, pg)
    BY DEF Users, UsersIn
  <2>4. \A pg : {d \in Dirs : Present(pde[d]) /\ pde[d].page = pg} = TableDirs(Now, pg)
    BY <2>2 DEF TableDirs
  <2>5. ASSUME NEW pg \in Page \ Reserved
        PROVE  ref[pg] = Cardinality(Users(pg)) + Cardinality({d \in Dirs : Present(pde[d]) /\ pde[d].page = pg})
    <3>1. pg # NoPage
      BY DEF NoPage, Page
    <3>2. ref[pg] = Cardinality(UsersIn(Now, pg)) + Cardinality(TableDirs(Now, pg)) + 0
      BY <2>1, <2>2, <3>1 DEF Sound, Counted
    <3>3. Cardinality(UsersIn(Now, pg)) \in Nat /\ Cardinality(TableDirs(Now, pg)) \in Nat
      BY Finite
    <3>4. ref[pg] = Cardinality(UsersIn(Now, pg)) + Cardinality(TableDirs(Now, pg))
      BY <3>2, <3>3
    <3> QED
      BY <2>3, <2>4, <3>4
  <2>6. RefsCount
    BY <2>5 DEF RefsCount
  <2>7. FreeIsFree
    <3>1. \A j, k \in DOMAIN free : free[j] = free[k] => j = k
      BY <2>1, <2>2 DEF Struct, FreeOnce
    <3>2. Loose(Now, NoPage)
      BY DEF Loose
    <3>3. InFree = FreeIn(Now)
      BY <2>2 DEF InFree, FreeIn
    <3>4. ASSUME NEW pg \in InFree
          PROVE  /\ pg \notin Reserved \cup Tables /\ Users(pg) = {}
                 /\ \A va \in UserVAs : tlb[va] # NoMap => tlb[va].page # pg
      <4>1. pg \in Page \ Reserved /\ UsersIn(Now, pg) = {} /\ TableDirs(Now, pg) = {}
        BY <2>1, <3>2, <3>3, FreeUnused DEF Sound
      <4>2. pg \notin Tables
        BY <2>2, <4>1 DEF Tables, TableDirs
      <4>3. \A va \in UserVAs : tlb[va] # NoMap => Present(Pte(Now, va)) /\ tlb[va].page = Pte(Now, va).page
        BY <2>1, <2>2 DEF Sound, Cached, UserVAs
      <4>4. \A va \in UserVAs : tlb[va] # NoMap => tlb[va].page # pg
        BY <4>1, <4>3 DEF UsersIn
      <4> QED
        BY <2>3, <4>1, <4>2, <4>4
    <3> QED
      BY <3>1, <3>4 DEF FreeIsFree
  <2> QED
    BY <2>6, <2>7 DEF PagesAccounted
<1> QED
  BY <1>1, PageInvariance, PTL

\* The TLB never goes beyond the page tables: page_remove() and page_insert()
\* invalidate what they take away, and setperm only adds.
THEOREM TlbIsSound == PageSpec => []TlbSound
<1>1. PageInv => TlbSound
  <2> SUFFICES ASSUME PageInv, NEW va \in VAs, tlb[va] # NoMap
               PROVE  /\ Translate(va) # NoMap
                      /\ tlb[va].page = Translate(va).page /\ tlb[va].bits \subseteq Translate(va).bits
    BY DEF TlbSound
  <2> DEFINE e == Pte(Now, va)
  <2>1. Sound(Now) /\ Struct(Now)
    BY DEF PageInv, Sound
  <2>2. va \in Dirs \X Slots /\ va[1] \in Dirs
    BY PageMapAssumption
  <2>3. Now.pde = pde /\ Now.tlb = tlb
    BY NowFields
  <2>4. Present(e) /\ tlb[va].page = e.page /\ tlb[va].bits \subseteq e.bits \ {"P"}
    BY <2>1, <2>3 DEF Sound, Cached
  <2>5. e \in Entry
    BY <2>1, <2>2, PteType
  <2>6. pde[va[1]].bits = AllBits
    <3>1. ~Present(Zero)
      BY DEF Present, Zero
    <3>2. Present(Now.pde[va[1]])
      BY <2>4, <3>1 DEF Pte
    <3> QED
      BY <2>1, <2>2, <2>3, <3>2 DEF Struct, TablesApart
  <2>7. e.bits \cap pde[va[1]].bits = e.bits
    BY <2>5, <2>6 DEF Entry
  <2>8. Translate(va) = [page |-> e.page, bits |-> e.bits \ {"P"}]
    BY <2>4, <2>7 DEF Translate
  <2>9. [page |-> e.page, bits |-> e.bits \ {"P"}] \in [page : Nat, bits : SUBSET Bits]
    BY <2>5 DEF Entry, AllBits
  <2>10. Translate(va) # NoMap
    BY <2>8, <2>9, PageMapAssumption
  <2> HIDE DEF e
  <2> QED
    BY <2>4, <2>8, <2>10
<1> QED
  BY <1>1, PageInvariance, PTL

\* The two-level page table with reference counts, page tables made on demand and
\* freed pages used again implements a plain map from addresses to pages.
THEOREM PageMapIsAddressSpace == PageSpec => AddressSpace
<1>1. PageInit => S!SpaceInit
  BY PageInvInit
<1>2. PageInv /\ [PageNext]_pageVars => [S!SpaceNext]_(S!spaceVars)
  <2> SUFFICES ASSUME PageInv, [PageNext]_pageVars PROVE [S!SpaceNext]_(S!spaceVars)
    OBVIOUS
  <2>1. StepSound
    BY PageInvStep
  <2>2. Struct(Now) /\ Struct(Now')
    BY <2>1 DEF PageInv, Sound, StepSound
  <2> QED
    BY <2>1, <2>2, AbstractStep DEF StepSound
<1> QED
  BY <1>1, <1>2, PageInvariance, PTL DEF PageSpec, AddressSpace, S!SpaceSpec

-----------------------------------------------------------------------------
(* The search for debugging information.                                    *)

USE KDebugAssumption

\* The greatest of some numbers, and the least, once they are known.
LEMMA MaxIs ==
  ASSUME NEW Z \in SUBSET Int, NEW m \in Z, \A y \in Z : m >= y
  PROVE  Max(Z) = m
<1>1. \E x \in Z : \A y \in Z : x >= y
  OBVIOUS
<1>2. Max(Z) \in Z /\ \A y \in Z : Max(Z) >= y
  BY <1>1 DEF Max
<1>3. Max(Z) >= m /\ m >= Max(Z) /\ m \in Int /\ Max(Z) \in Int
  BY <1>2
<1> QED
  BY <1>3

LEMMA MinIs ==
  ASSUME NEW Z \in SUBSET Int, NEW m \in Z, \A y \in Z : m <= y
  PROVE  Min(Z) = m
<1>1. \E x \in Z : \A y \in Z : x <= y
  OBVIOUS
<1>2. Min(Z) \in Z /\ \A y \in Z : Min(Z) <= y
  BY <1>1 DEF Min
<1>3. Min(Z) <= m /\ m <= Min(Z) /\ m \in Int /\ Min(Z) \in Int
  BY <1>2
<1> QED
  BY <1>3

\* Numbers with a bound have a greatest one.
LEMMA MaxIn ==
  ASSUME NEW Z \in SUBSET Int, Z # {}, NEW u \in Int, \A x \in Z : x <= u
  PROVE  Max(Z) \in Z /\ \A y \in Z : Max(Z) >= y
<1>1. IsWellFoundedOn(OpToRel(<, Nat), Nat)
  BY NatLessThanWellFounded
<1>2. PICK T : T = {u - x : x \in Z}
  OBVIOUS
<1>3. \A x \in Z : u - x \in Nat
  OBVIOUS
<1>4. T \subseteq Nat
  BY <1>2, <1>3
<1>5. PICK z : z \in Z
  OBVIOUS
<1>6. u - z \in T
  BY <1>2, <1>5
<1>7. T \in SUBSET Nat /\ T # {}
  BY <1>4, <1>6
<1>8. \E t \in T : \A y \in T : ~ (<<y, t>> \in OpToRel(<, Nat))
  BY <1>1, <1>7, WFMin
<1>9. \A t \in T, y \in T : ~ (<<y, t>> \in OpToRel(<, Nat)) => t <= y
  BY <1>7 DEF OpToRel
<1>10. PICK t \in T : \A y \in T : t <= y
  BY <1>8, <1>9
<1>11. PICK x \in Z : t = u - x
  BY <1>2
<1>12. ASSUME NEW y \in Z PROVE x >= y
  <2>1. u - y \in T
    BY <1>2
  <2>2. u - x <= u - y
    BY <1>10, <1>11, <2>1
  <2> QED
    BY <2>2
<1> QED
  BY <1>12 DEF Max

-----------------------------------------------------------------------------

Index == 0 .. NStabs - 1

StabType ==
  /\ stabs \in [Index -> [type : StabTypes, value : Nat]]
  /\ Sorted(stabs, "SO") /\ Sorted(stabs, "FUN") /\ stabs[0].type = "other"
  /\ sought \in Nat /\ phase \in {"SO", "FUN", "done", "fail"}

\* A stab of the type, at or below the address, or above it.
Below(type, k) == stabs[k].type = type /\ stabs[k].value <= sought
Above(type, k) == stabs[k].type = type /\ stabs[k].value > sought

\* stab_binsearch() for a type in lo .. hi: the stabs before sl are not above the address,
\* those after sr are, and sr and the right end go together.
Searching(type, lo, hi) ==
  /\ lo \in Index /\ hi \in Index /\ sl \in Int /\ sr \in Int
  /\ lo <= sl /\ sl <= sr + 1 /\ sr <= hi /\ rr = sr /\ rl \in Int
  /\ \A k \in lo .. hi : stabs[k].type = type /\ k < sl => stabs[k].value <= sought
  /\ \A k \in lo .. hi : stabs[k].type = type /\ k > sr => stabs[k].value > sought
  /\ sr = hi \/ (sr + 1 \in lo .. hi /\ stabs[sr + 1].type = type)
  /\ rl = lo \/ (rl \in lo .. hi /\ Below(type, rl))
  /\ any \in BOOLEAN
  /\ ~any => rl = lo /\ sr = hi /\ \A k \in lo .. hi : stabs[k].type = type => k >= sl
  /\ addr = sought \/ (addr = sought + 1 /\ \E k \in Index : stabs[k].type = type /\ stabs[k].value = sought)

FileIs ==
  /\ lfile \in Index /\ rfile \in Index /\ lfile <= rfile
  /\ lfile = Containing("SO", 0, NStabs - 1) /\ rfile = RegionEnd("SO", lfile, NStabs - 1)

StabInv ==
  /\ StabType
  /\ phase = "SO" /\ ~ByteRegion("SO") => Searching("SO", 0, NStabs - 1)
  /\ phase \in {"FUN", "done"} /\ ~ByteRegion("SO") => FileIs
  /\ phase = "FUN" /\ ~ByteRegion("SO") /\ ~ByteRegion("FUN") => Searching("FUN", lfile, rfile)
  /\ RegionsRight

\* The middle lies between.
LEMMA MiddleIn ==
  ASSUME sl \in Int, sr \in Int, sl <= sr
  PROVE  Middle \in Int /\ sl <= Middle /\ Middle <= sr
BY DEF Middle

LEMMA BeforeIn ==
  ASSUME sl \in Int, sr \in Int, sl <= sr
  PROVE  /\ Before \in Int /\ sl - 1 <= Before /\ Before <= Middle
         /\ Before >= sl => stabs[Before].type = phase
         /\ \A k \in sl .. Middle : stabs[k].type = phase => k <= Before
<1>1. Middle \in Int /\ sl <= Middle
  BY MiddleIn
<1>2. PICK Z : Z = {sl - 1} \cup {m \in sl .. Middle : stabs[m].type = phase}
  OBVIOUS
<1>3. Z \in SUBSET Int /\ Z # {} /\ \A x \in Z : x <= Middle
  BY <1>1, <1>2
<1>4. Max(Z) \in Z /\ \A y \in Z : Max(Z) >= y
  BY <1>1, <1>3, MaxIn
<1>5. Before = Max(Z)
  BY <1>2 DEF Before
<1> QED
  BY <1>1, <1>2, <1>3, <1>4, <1>5

\* A round of the search keeps what is known of it.
LEMMA RoundKeeps ==
  ASSUME StabType, SearchRound, phase \in {"SO", "FUN"}, ~ByteRegion(phase),
         NEW lo, NEW hi, Searching(phase, lo, hi)
  PROVE  Searching(phase, lo, hi)'
<1>1. PICK m, T : m = Before /\ T = phase
  OBVIOUS
<1>2. /\ sl \in Int /\ sr \in Int /\ sl <= sr /\ lo \in Index /\ hi \in Index /\ lo \in Int /\ hi \in Int
      /\ lo <= sl /\ sr <= hi /\ rr = sr /\ rl \in Int /\ any \in BOOLEAN
  BY DEF Searching, SearchRound, Index
<1>3. /\ \A k \in lo .. hi : stabs[k].type = T /\ k < sl => stabs[k].value <= sought
      /\ \A k \in lo .. hi : stabs[k].type = T /\ k > sr => stabs[k].value > sought
      /\ sr = hi \/ (sr + 1 \in lo .. hi /\ stabs[sr + 1].type = T)
      /\ rl = lo \/ (rl \in lo .. hi /\ Below(T, rl))
      /\ ~any => rl = lo /\ sr = hi /\ \A k \in lo .. hi : stabs[k].type = T => k >= sl
      /\ addr = sought \/ (addr = sought + 1 /\ \E k \in Index : stabs[k].type = T /\ stabs[k].value = sought)
  BY <1>1 DEF Searching
<1>4. /\ m \in Int /\ sl - 1 <= m /\ m <= Middle /\ Middle <= sr /\ sl <= Middle /\ Middle \in Int
      /\ m >= sl => stabs[m].type = T
      /\ \A k \in sl .. Middle : stabs[k].type = T => k <= m
  BY <1>1, <1>2, BeforeIn, MiddleIn
<1>5. /\ \A i, j \in Index : i < j /\ stabs[i].type = T /\ stabs[j].type = T =>
                                stabs[i].value <= stabs[j].value
      /\ \A k \in Index : stabs[k].value \in Nat
      /\ sought \in Nat /\ DOMAIN stabs = Index
  BY <1>1 DEF StabType, Sorted
<1>6. lo .. hi \subseteq Index
  BY <1>2 DEF Index
<1>7. stabs' = stabs /\ sought' = sought /\ phase' = phase /\ lfile' = lfile /\ rfile' = rfile
  BY DEF SearchRound
<1>8. \A k, j \in Index : stabs[k].type = T /\ stabs[k].value = sought /\ stabs[j].type = T =>
                          stabs[j].value # sought + 1
  BY <1>1, <1>5 DEF ByteRegion
<1> DEFINE Kept(l, r, rgl, a, ad) ==
      /\ lo <= l /\ l <= r + 1 /\ r <= hi /\ l \in Int /\ r \in Int /\ rgl \in Int
      /\ \A k \in lo .. hi : stabs[k].type = T /\ k < l => stabs[k].value <= sought
      /\ \A k \in lo .. hi : stabs[k].type = T /\ k > r => stabs[k].value > sought
      /\ r = hi \/ (r + 1 \in lo .. hi /\ stabs[r + 1].type = T)
      /\ rgl = lo \/ (rgl \in lo .. hi /\ Below(T, rgl))
      /\ ~a => rgl = lo /\ r = hi /\ \A k \in lo .. hi : stabs[k].type = T => k >= l
      /\ ad = sought \/ (ad = sought + 1 /\ \E k \in Index : stabs[k].type = T /\ stabs[k].value = sought)
<1>9. SUFFICES Kept(sl', sr', rl', any', addr') /\ rr' = sr' /\ any' \in BOOLEAN
  BY <1>1, <1>2, <1>7 DEF Searching, Below, Index
<1>10. CASE m < sl
  <2>1. sl' = Middle + 1 /\ sr' = sr /\ rl' = rl /\ rr' = rr /\ addr' = addr /\ any' = any
    BY <1>1, <1>10 DEF SearchRound
  <2>2. \A k \in lo .. hi : stabs[k].type = T /\ k < Middle + 1 => k < sl
    BY <1>2, <1>4, <1>10
  <2> QED
    BY <1>2, <1>3, <1>4, <2>1, <2>2
<1>11. CASE m >= sl
  <2>1. m \in lo .. hi /\ stabs[m].type = T /\ m \in Index
    BY <1>2, <1>4, <1>6, <1>11
  <2>2. any' = TRUE
    BY <1>1, <1>2, <1>4, <1>11 DEF SearchRound
  <2>3. CASE stabs[m].value < addr
    <3>1. rl' = m /\ sl' = Middle + 1 /\ sr' = sr /\ rr' = rr /\ addr' = addr
      BY <1>1, <1>2, <1>3, <1>4, <1>5, <1>11, <2>1, <2>3 DEF SearchRound
    <3>2. stabs[m].value <= sought
      BY <1>3, <1>5, <2>1, <2>3
    <3>3. ASSUME NEW k \in lo .. hi, stabs[k].type = T, k < Middle + 1 PROVE stabs[k].value <= sought
      <4>1. k <= m \/ k < sl
        BY <1>2, <1>4, <3>3
      <4> QED
        BY <1>2, <1>3, <1>4, <1>5, <1>6, <2>1, <3>2, <3>3, <4>1
    <3>4. Below(T, m) /\ m \in lo .. hi
      BY <2>1, <3>2 DEF Below
    <3>5. lo <= sl' /\ sl' <= sr' + 1 /\ sr' <= hi /\ sl' \in Int /\ sr' \in Int /\ rl' \in Int
      BY <1>2, <1>4, <3>1
    <3>6. \A k \in lo .. hi : stabs[k].type = T /\ k < sl' => stabs[k].value <= sought
      BY <3>1, <3>3
    <3> QED
      BY <1>2, <1>3, <2>2, <3>1, <3>4, <3>5, <3>6
  <2>4. CASE stabs[m].value > addr
    <3>1. rr' = m - 1 /\ sr' = m - 1 /\ sl' = sl /\ rl' = rl /\ addr' = addr
      BY <1>1, <1>2, <1>3, <1>4, <1>5, <1>11, <2>1, <2>4 DEF SearchRound
    <3>2. stabs[m].value > sought
      BY <1>3, <1>5, <2>1, <2>4
    <3>3. ASSUME NEW k \in lo .. hi, stabs[k].type = T, k > m - 1 PROVE stabs[k].value > sought
      BY <1>2, <1>4, <1>5, <1>6, <2>1, <3>2, <3>3
    <3>4. /\ lo <= sl' /\ sl' <= sr' + 1 /\ sr' <= hi /\ sl' \in Int /\ sr' \in Int /\ rl' \in Int
          /\ sr' + 1 = m
      BY <1>2, <1>4, <1>11, <3>1
    <3>5. \A k \in lo .. hi : stabs[k].type = T /\ k > sr' => stabs[k].value > sought
      BY <3>1, <3>3
    <3>6. \A k \in lo .. hi : stabs[k].type = T /\ k < sl' => stabs[k].value <= sought
      BY <1>3, <3>1
    <3> QED
      BY <1>3, <2>1, <2>2, <3>1, <3>4, <3>5, <3>6
  <2>5. CASE stabs[m].value = addr
    <3>1. rl' = m /\ sl' = m /\ addr' = addr + 1 /\ sr' = sr /\ rr' = rr
      BY <1>1, <1>2, <1>3, <1>4, <1>5, <1>11, <2>1, <2>5 DEF SearchRound
    <3>2. addr = sought
      BY <1>3, <1>5, <1>8, <2>1, <2>5
    <3>3. ASSUME NEW k \in lo .. hi, stabs[k].type = T, k < m PROVE stabs[k].value <= sought
      BY <1>2, <1>4, <1>5, <1>6, <2>1, <2>5, <3>2, <3>3
    <3> QED
      BY <1>2, <1>3, <1>4, <1>5, <1>11, <2>1, <2>2, <2>5, <3>1, <3>2, <3>3 DEF Below
  <2> QED
    BY <1>3, <1>5, <2>1, <2>3, <2>4, <2>5
<1> QED
  BY <1>2, <1>4, <1>10, <1>11

\* At the end of the search the region is that of the stab sought, or begins where the
\* search did when there is none.
LEMMA SearchEnds ==
  ASSUME StabType, phase \in {"SO", "FUN"}, NEW lo, NEW hi, Searching(phase, lo, hi), sl > sr
  PROVE  /\ Containing(phase, lo, hi) = -1 => Region[1] = lo
         /\ Containing(phase, lo, hi) # -1 =>
              /\ Containing(phase, lo, hi) \in lo .. hi
              /\ stabs[Containing(phase, lo, hi)].type = phase
              /\ Region[1] = Containing(phase, lo, hi)
              /\ Region[2] = RegionEnd(phase, Containing(phase, lo, hi), hi)
              /\ Region[2] \in Containing(phase, lo, hi) .. hi
<1>1. PICK T : T = phase
  OBVIOUS
<1>2. /\ sl \in Int /\ sr \in Int /\ sl = sr + 1 /\ lo \in Int /\ hi \in Int /\ lo >= 0
      /\ lo <= sl /\ sr <= hi /\ rr = sr /\ rl \in Int /\ any \in BOOLEAN
  BY DEF Searching, Index
<1>3. /\ \A k \in lo .. hi : stabs[k].type = T /\ k < sl => stabs[k].value <= sought
      /\ \A k \in lo .. hi : stabs[k].type = T /\ k > sr => stabs[k].value > sought
      /\ sr = hi \/ (sr + 1 \in lo .. hi /\ stabs[sr + 1].type = T)
      /\ rl = lo \/ (rl \in lo .. hi /\ Below(T, rl))
      /\ ~any => rl = lo /\ sr = hi /\ \A k \in lo .. hi : stabs[k].type = T => k >= sl
  BY <1>1 DEF Searching
<1>4. \A k \in lo .. hi : stabs[k].value \in Nat /\ sought \in Nat
  BY DEF StabType, Searching, Index
<1>5. \A k \in lo .. hi : stabs[k].type = T => (Below(T, k) <=> k <= sr)
  BY <1>2, <1>3, <1>4 DEF Below
<1>6. PICK B : B = {k \in lo .. hi : Below(T, k)}
  OBVIOUS
<1>7. Containing(phase, lo, hi) = Max({-1} \cup B)
  BY <1>1, <1>6 DEF Containing, Below
<1>8. B \subseteq Int /\ \A k \in B : k >= 0 /\ k <= sr /\ k \in lo .. hi /\ stabs[k].type = T
  BY <1>2, <1>5, <1>6 DEF Below
<1>9. CASE B = {}
  <2>1. Containing(phase, lo, hi) = -1
    <3>1. PICK Z : Z = {-1} \cup B
      OBVIOUS
    <3>2. Z \in SUBSET Int /\ -1 \in Z /\ \A y \in Z : -1 >= y
      BY <1>9, <3>1
    <3>3. Max(Z) = -1
      BY <3>2, MaxIs
    <3> QED
      BY <1>7, <3>1, <3>3
  <2>2. rl = lo
    BY <1>3, <1>6, <1>9
  <2>3. CASE any
    <3>1. PICK Z : Z = {rl} \cup {k \in rl .. rr : stabs[k].type = phase}
      OBVIOUS
    <3>2. ASSUME NEW k \in rl .. rr, stabs[k].type = phase PROVE FALSE
      <4>1. k \in lo .. hi /\ k <= sr
        BY <1>2, <2>2
      <4>2. k \in B
        BY <1>1, <1>5, <1>6, <3>2, <4>1
      <4> QED
        BY <1>9, <4>2
    <3>3. Z = {rl}
      BY <3>1, <3>2
    <3>4. Z \in SUBSET Int /\ rl \in Z /\ \A y \in Z : rl >= y
      BY <1>2, <3>3
    <3>5. Max(Z) = rl
      BY <3>4, MaxIs
    <3> QED
      BY <2>1, <2>2, <2>3, <3>1, <3>5 DEF Region
  <2> QED
    BY <1>2, <2>1, <2>2, <2>3 DEF Region
<1>10. CASE B # {}
  <2>1. PICK c : c = Max(B)
    OBVIOUS
  <2>2. c \in B /\ \A y \in B : c >= y
    BY <1>2, <1>8, <1>10, <2>1, MaxIn
  <2>3. c \in Int /\ c >= 0 /\ c <= sr /\ c \in lo .. hi /\ stabs[c].type = T
    BY <1>8, <2>2
  <2>4. Containing(phase, lo, hi) = c
    <3>1. PICK Z : Z = {-1} \cup B
      OBVIOUS
    <3>2. Z \in SUBSET Int /\ c \in Z /\ \A y \in Z : c >= y
      BY <1>8, <2>2, <2>3, <3>1
    <3>3. Max(Z) = c
      BY <3>2, MaxIs
    <3> QED
      BY <1>7, <3>1, <3>3
  <2>5. any
    BY <1>2, <1>3, <2>3
  <2>6. Region[1] = c
    <3>1. PICK Z : Z = {rl} \cup {k \in rl .. rr : stabs[k].type = phase}
      OBVIOUS
    <3>2. rl <= c
      BY <1>2, <1>3, <1>6, <2>2, <2>3
    <3>3. c \in Z
      BY <1>1, <1>2, <2>3, <3>1, <3>2
    <3>4. ASSUME NEW k \in rl .. rr, stabs[k].type = phase PROVE c >= k
      <4>1. k \in lo .. hi /\ k <= sr
        BY <1>2, <1>3
      <4>2. k \in B
        BY <1>1, <1>5, <1>6, <3>4, <4>1
      <4> QED
        BY <2>2, <4>2
    <3>5. Z \in SUBSET Int /\ \A y \in Z : c >= y
      BY <1>2, <3>1, <3>2, <3>4
    <3>6. Max(Z) = c
      BY <3>3, <3>5, MaxIs
    <3> QED
      BY <2>5, <3>1, <3>6 DEF Region
  <2>7. Region[2] = sr
    BY <1>2, <2>5 DEF Region
  <2>8. RegionEnd(phase, c, hi) = sr
    <3>1. PICK Z : Z = {hi} \cup {n - 1 : n \in {j \in c + 1 .. hi : stabs[j].type = phase}}
      OBVIOUS
    <3>2. ASSUME NEW n \in c + 1 .. hi, stabs[n].type = phase PROVE sr <= n - 1
      <4>1. n \in lo .. hi /\ n > c /\ n \in Int
        BY <1>2, <2>3
      <4>2. n \notin B
        BY <2>2, <2>3, <4>1
      <4>3. ~ (n <= sr)
        BY <1>1, <1>5, <1>6, <3>2, <4>1, <4>2
      <4> QED
        BY <1>2, <4>1, <4>3
    <3>3. \A y \in Z : y \in Int /\ sr <= y
      BY <1>2, <2>3, <3>1, <3>2
    <3>4. sr \in Z
      <4>1. CASE sr = hi
        BY <3>1, <4>1
      <4>2. CASE sr + 1 \in lo .. hi /\ stabs[sr + 1].type = T
        <5>1. sr + 1 \in {j \in c + 1 .. hi : stabs[j].type = phase} /\ (sr + 1) - 1 = sr
          BY <1>1, <1>2, <2>3, <4>2
        <5>2. (sr + 1) - 1 \in Z
          BY <3>1, <5>1
        <5> QED
          BY <5>1, <5>2
      <4> QED
        BY <1>3, <4>1, <4>2
    <3>5. Z \in SUBSET Int
      BY <3>3
    <3>6. Min(Z) = sr
      BY <3>3, <3>4, <3>5, MinIs
    <3> QED
      BY <3>1, <3>6 DEF RegionEnd
  <2>9. sr \in c .. hi /\ c # -1
    BY <1>2, <2>3
  <2> QED
    BY <1>1, <2>3, <2>4, <2>6, <2>7, <2>8, <2>9
<1> QED
  BY <1>9, <1>10

-----------------------------------------------------------------------------

LEMMA StabInitInv ==
  ASSUME StabInit
  PROVE  StabInv
<1>1. StabType
  BY DEF StabInit, StabType, Index, StabTypes
<1>2. Searching("SO", 0, NStabs - 1)
  <2>1. /\ sl = 0 /\ rl = 0 /\ sr = NStabs - 1 /\ rr = NStabs - 1 /\ any = FALSE /\ addr = sought
    BY DEF StabInit
  <2>2. 0 \in Index /\ NStabs - 1 \in Index /\ NStabs - 1 \in Int /\ 0 <= NStabs - 1
    BY DEF Index
  <2>3. \A k \in 0 .. NStabs - 1 : k >= 0 /\ ~ (k < 0) /\ ~ (k > NStabs - 1)
    OBVIOUS
  <2>4. /\ sl \in Int /\ sr \in Int /\ 0 <= sl /\ sl <= sr + 1 /\ sr <= NStabs - 1 /\ rr = sr /\ rl \in Int
    BY <2>1, <2>2
  <2>5. /\ \A k \in 0 .. NStabs - 1 : stabs[k].type = "SO" /\ k < sl => stabs[k].value <= sought
        /\ \A k \in 0 .. NStabs - 1 : stabs[k].type = "SO" /\ k > sr => stabs[k].value > sought
    BY <2>1, <2>3
  <2>6. any \in BOOLEAN
    BY <2>1
  <2>7. ~any => rl = 0 /\ sr = NStabs - 1 /\ \A k \in 0 .. NStabs - 1 : stabs[k].type = "SO" => k >= sl
    BY <2>1, <2>3
  <2> QED
    BY <2>1, <2>2, <2>4, <2>5, <2>6, <2>7, Zenon DEF Searching
<1>3. phase = "SO"
  BY DEF StabInit
<1> QED
  BY <1>1, <1>2, <1>3 DEF StabInv, RegionsRight

\* What stays while the table and the address do.
LEMMA TableKept ==
  ASSUME stabs' = stabs, sought' = sought
  PROVE  /\ \A type : ByteRegion(type)' <=> ByteRegion(type)
         /\ \A type, lo, hi : Containing(type, lo, hi)' = Containing(type, lo, hi)
         /\ \A type, k, hi : RegionEnd(type, k, hi)' = RegionEnd(type, k, hi)
BY DEF ByteRegion, Containing, RegionEnd

LEMMA RoundInv ==
  ASSUME StabInv, SearchRound
  PROVE  StabInv'
<1>1. /\ phase \in {"SO", "FUN"} /\ phase' = phase /\ stabs' = stabs /\ sought' = sought
      /\ lfile' = lfile /\ rfile' = rfile
  BY DEF SearchRound
<1>2. StabType /\ StabType'
  BY <1>1 DEF StabInv, StabType, Sorted
<1>3. ASSUME phase = "SO", ~ByteRegion("SO") PROVE Searching("SO", 0, NStabs - 1)'
  <2>1. PICK lo, hi : lo = 0 /\ hi = NStabs - 1
    OBVIOUS
  <2>2. Searching(phase, lo, hi) /\ ~ByteRegion(phase)
    BY <1>3, <2>1 DEF StabInv
  <2>3. Searching(phase, lo, hi)'
    BY <1>1, <1>2, <2>2, RoundKeeps
  <2> QED
    BY <1>1, <1>3, <2>1, <2>3
<1>4. ASSUME phase = "FUN", ~ByteRegion("SO"), ~ByteRegion("FUN") PROVE Searching("FUN", lfile, rfile)'
  <2>1. PICK lo, hi : lo = lfile /\ hi = rfile
    OBVIOUS
  <2>2. Searching(phase, lo, hi) /\ ~ByteRegion(phase)
    BY <1>4, <2>1 DEF StabInv
  <2>3. Searching(phase, lo, hi)'
    BY <1>1, <1>2, <2>2, RoundKeeps
  <2> QED
    BY <1>1, <1>4, <2>1, <2>3
<1>5. /\ \A type : ByteRegion(type)' <=> ByteRegion(type)
      /\ \A type, lo, hi : Containing(type, lo, hi)' = Containing(type, lo, hi)
      /\ \A type, k, hi : RegionEnd(type, k, hi)' = RegionEnd(type, k, hi)
  BY <1>1, TableKept
<1>6. phase = "FUN" /\ ~ByteRegion("SO") => FileIs
  BY DEF StabInv
<1>7. phase = "FUN" /\ ~ByteRegion("SO") => FileIs'
  BY <1>1, <1>5, <1>6 DEF FileIs, Index
<1>8. RegionsRight'
  BY <1>1, <1>5, <1>7 DEF RegionsRight, FileIs
<1> QED
  BY <1>1, <1>2, <1>3, <1>4, <1>5, <1>7, <1>8 DEF StabInv

LEMMA FileInv ==
  ASSUME StabInv, FileFound
  PROVE  StabInv'
<1>1. phase = "SO" /\ sl > sr /\ stabs' = stabs /\ sought' = sought
  BY DEF FileFound
<1>2. StabType /\ phase' \in {"fail", "FUN"}
  BY DEF StabInv, FileFound
<1>3. StabType'
  BY <1>1, <1>2 DEF StabType, Sorted
<1>4. PICK lo, hi, c, T : lo = 0 /\ hi = NStabs - 1 /\ c = Containing("SO", 0, NStabs - 1) /\ T = "SO"
  OBVIOUS
<1>5. /\ \A type : ByteRegion(type)' <=> ByteRegion(type)
      /\ \A type, l, h : Containing(type, l, h)' = Containing(type, l, h)
      /\ \A type, k, h : RegionEnd(type, k, h)' = RegionEnd(type, k, h)
  BY <1>1, TableKept
<1>6. CASE ByteRegion("SO")
  BY <1>2, <1>3, <1>5, <1>6 DEF StabInv, RegionsRight
<1>7. CASE ~ByteRegion("SO")
  <2>1. Searching(phase, lo, hi)
    BY <1>1, <1>4, <1>7 DEF StabInv
  <2>2. /\ Containing(phase, lo, hi) = -1 => Region[1] = lo
        /\ Containing(phase, lo, hi) # -1 =>
              /\ Containing(phase, lo, hi) \in lo .. hi
              /\ stabs[Containing(phase, lo, hi)].type = phase
              /\ Region[1] = Containing(phase, lo, hi)
              /\ Region[2] = RegionEnd(phase, Containing(phase, lo, hi), hi)
              /\ Region[2] \in Containing(phase, lo, hi) .. hi
    BY <1>1, <1>2, <2>1, SearchEnds
  <2>3. c = Containing(phase, lo, hi)
    BY <1>1, <1>4
  <2>4. stabs[0].type = "other"
    BY <1>2 DEF StabType
  <2>5. CASE c = -1
    <3>1. phase' = "fail"
      BY <1>4, <2>2, <2>3, <2>5 DEF FileFound
    <3>2. Containing("SO", 0, NStabs - 1)' = -1
      BY <1>4, <1>5, <2>5
    <3> QED
      BY <1>3, <3>1, <3>2 DEF StabInv, RegionsRight
  <2>6. CASE c # -1
    <3>1. c \in 0 .. hi /\ Region[1] = c /\ Region[2] = RegionEnd("SO", c, hi) /\ Region[2] \in c .. hi /\ c # 0
      BY <1>1, <1>4, <2>2, <2>3, <2>4, <2>6
    <3>2. PICK e : e = Region[2]
      OBVIOUS
    <3>3. /\ phase' = "FUN" /\ addr' = sought /\ any' = FALSE /\ lfile' = c /\ rfile' = e
          /\ sl' = c /\ rl' = c /\ sr' = e /\ rr' = e
      BY <3>1, <3>2 DEF FileFound
    <3>4. c \in Index /\ e \in Index /\ c <= e /\ c \in Int /\ e \in Int
      BY <1>4, <3>1, <3>2 DEF Index
    <3>5. c = Containing("SO", 0, NStabs - 1)' /\ e = RegionEnd("SO", c, NStabs - 1)
      BY <1>4, <1>5, <3>1, <3>2
    <3>6. RegionEnd("SO", lfile, NStabs - 1)' = RegionEnd("SO", c, NStabs - 1)
      BY <1>1, <3>3 DEF RegionEnd
    <3>7. FileIs'
      BY <3>3, <3>4, <3>5, <3>6 DEF FileIs, Index
    <3>8. Searching("FUN", lfile, rfile)'
      <4>1. \A k \in c .. e : k >= c /\ ~ (k < c) /\ ~ (k > e)
        BY <3>4
      <4>2. c \in Index' /\ e \in Index'
        BY <3>4 DEF Index
      <4>3. /\ lfile' \in Index' /\ rfile' \in Index' /\ sl' \in Int /\ sr' \in Int /\ lfile' <= sl'
            /\ sl' <= sr' + 1 /\ sr' <= rfile' /\ rr' = sr' /\ rl' \in Int
        BY <3>3, <3>4, <4>2
      <4>4. /\ \A k \in lfile' .. rfile' : stabs'[k].type = "FUN" /\ k < sl' => stabs'[k].value <= sought'
            /\ \A k \in lfile' .. rfile' : stabs'[k].type = "FUN" /\ k > sr' => stabs'[k].value > sought'
        BY <3>3, <4>1
      <4>5. any' \in BOOLEAN
        BY <3>3
      <4>6. any' \/ (rl' = lfile' /\ sr' = rfile'
                     /\ \A k \in lfile' .. rfile' : stabs'[k].type = "FUN" => k >= sl')
        BY <3>3, <4>1
      <4>7. sr' = rfile' /\ rl' = lfile' /\ addr' = sought'
        BY <1>1, <3>3
      <4> QED
        BY <4>3, <4>4, <4>5, <4>6, <4>7, Zenon DEF Searching
    <3>9. RegionsRight'
      BY <3>3, <3>7 DEF RegionsRight, FileIs
    <3> QED
      BY <1>3, <3>3, <3>7, <3>8, <3>9 DEF StabInv
  <2> QED
    BY <2>5, <2>6
<1> QED
  BY <1>6, <1>7

LEMMA FunctionInv ==
  ASSUME StabInv, FunctionFound
  PROVE  StabInv'
<1>1. /\ phase = "FUN" /\ sl > sr /\ stabs' = stabs /\ sought' = sought /\ phase' = "done"
      /\ lfile' = lfile /\ rfile' = rfile /\ rl' = Region[1] /\ rr' = Region[2]
  BY DEF FunctionFound
<1>2. StabType
  BY DEF StabInv
<1>3. StabType'
  BY <1>1, <1>2 DEF StabType, Sorted
<1>4. /\ \A type : ByteRegion(type)' <=> ByteRegion(type)
      /\ \A type, l, h : Containing(type, l, h)' = Containing(type, l, h)
      /\ \A type, k, h : RegionEnd(type, k, h)' = RegionEnd(type, k, h)
  BY <1>1, TableKept
<1>5. PICK lo, hi, c : lo = lfile /\ hi = rfile /\ c = Containing("FUN", lfile, rfile)
  OBVIOUS
<1>6. ~ByteRegion("SO") => FileIs
  BY <1>1 DEF StabInv
<1>7. ~ByteRegion("SO") => FileIs'
  BY <1>1, <1>4, <1>6 DEF FileIs, Index
<1>8. c = Containing("FUN", lfile, rfile)'
  BY <1>1, <1>5 DEF Containing
<1>9. ASSUME ~ByteRegion("SO"), ~ByteRegion("FUN"), c # -1
      PROVE  rl' = c /\ rr' = RegionEnd("FUN", c, hi)
  <2>1. Searching(phase, lo, hi)
    BY <1>1, <1>5, <1>9 DEF StabInv
  <2>2. c = Containing(phase, lo, hi)
    BY <1>1, <1>5
  <2>3. Region[1] = c /\ Region[2] = RegionEnd(phase, c, hi)
    BY <1>1, <1>2, <1>9, <2>1, <2>2, SearchEnds
  <2> QED
    BY <1>1, <2>3
<1>10. ASSUME ~ByteRegion("SO"), ~ByteRegion("FUN"), c # -1
       PROVE  rl' = c /\ rr' = RegionEnd("FUN", rl, rfile)'
  <2>1. RegionEnd("FUN", rl, rfile)' = RegionEnd("FUN", c, hi)
    BY <1>1, <1>5, <1>9, <1>10 DEF RegionEnd
  <2> QED
    BY <1>9, <1>10, <2>1
<1>11. RegionsRight'
  BY <1>1, <1>4, <1>7, <1>8, <1>10 DEF RegionsRight, FileIs
<1> QED
  BY <1>1, <1>3, <1>4, <1>7, <1>11 DEF StabInv

\* The invariant is one of the specification.
LEMMA StabInvariance ==
  ASSUME StabInv, [StabNext]_stabVars
  PROVE  StabInv'
<1>1. CASE StabNext
  BY <1>1, RoundInv, FileInv, FunctionInv DEF StabNext
<1>2. CASE UNCHANGED stabVars
  <2>1. /\ stabs' = stabs /\ sought' = sought /\ phase' = phase /\ addr' = addr /\ sl' = sl /\ sr' = sr
        /\ rl' = rl /\ rr' = rr /\ any' = any /\ lfile' = lfile /\ rfile' = rfile
    BY <1>2 DEF stabVars
  <2> QED
    BY <2>1 DEF StabInv, StabType, Sorted, Searching, FileIs, RegionsRight, ByteRegion, Containing,
                RegionEnd, Below, Index
<1> QED
  BY <1>1, <1>2

\* debuginfo_eip() finds the file and the function that contain the address, with the whole
\* of their stabs, and fails if no file does, in every table with sorted addresses; regions
\* of a single byte, where stab_binsearch() goes wrong, apart.
THEOREM StabsFound == StabSpec => []RegionsRight
<1>1. StabInit => StabInv
  BY StabInitInv
<1>2. StabInv /\ [StabNext]_stabVars => StabInv'
  BY StabInvariance
<1>3. StabInv => RegionsRight
  BY DEF StabInv
<1> QED
  BY <1>1, <1>2, <1>3, PTL DEF StabSpec
=============================================================================
