--------------------------- MODULE FileSysProofs ---------------------------
(***************************************************************************)
(* Proofs about FileSys: reference counts are exact, nothing in use or     *)
(* named is freed, and link counts cover the names.  The invariant follows *)
(* each system call through its stages: which references and which locks   *)
(* a process has, and which links it has counted but not yet written (or   *)
(* erased but not yet counted).  A step of one process either leaves       *)
(* directories and inodes on disk alone (QuietStep), or changes only       *)
(* inodes it uses and directories nobody else has locked (ChangeStep).     *)
(***************************************************************************)
EXTENDS FileSys, FiniteSetTheorems, SequenceTheorems, WellFoundedInduction, TLAPS

USE FileSysAssumption DEF ROOTINO

Stages == {"idle", "walk", "parent", "target", "existing", "new", "made", "unlink",
           "bad", "erased", "linked", "exists", "linkbad"}
CallRec == [pc : Stages \cup {"put", "drop"}, call : Calls \cup {"none"},
            path : Seq(Names \cup {Dot}), at : 0 .. ninodes - 1, ip : 0 .. ninodes - 1,
            put : 0 .. ninodes - 1, ret : Stages]

\* Where a process is, an iput() on the way aside.
Stage(q) == IF q.pc \in {"put", "drop"} THEN q.ret ELSE q.pc

FsType ==
  /\ disk \in [Inums -> [type : FileTypes, nlink : Int]]
  /\ cache \in [Inums -> [type : FileTypes, nlink : Int]]
  /\ valid \in [Inums -> BOOLEAN] /\ ref \in [Inums -> Int]
  /\ lock \in [Inums -> Procs \cup {NoProc}]
  /\ DOMAIN ent = Inums
  /\ \A i \in Inums : /\ DOMAIN ent[i] \subseteq Names
                      /\ \A n \in DOMAIN ent[i] : ent[i][n] \in Inums
  /\ file \in [Procs -> 0 .. ninodes - 1] /\ cwd \in [Procs -> Inums]
  /\ proc \in [Procs -> CallRec] /\ calls \in [Procs -> Nat]

\* What is cached is what the disk has.
Cached == \A i \in Inums : valid[i] => cache[i] = disk[i] /\ disk[i].type # "none"

AtStages == {"walk", "parent", "new", "unlink", "bad", "exists"}
IpStages == {"target", "existing", "new", "made", "unlink", "erased", "linked", "exists",
             "linkbad"}

\* Which references a process holds at which stage of which call.
ShapeOf(q) ==
  /\ (q.put # 0) <=> q.pc \in {"put", "drop"}
  /\ (q.at # 0) <=> Stage(q) \in AtStages
  /\ Stage(q) \in IpStages => q.ip # 0
  /\ q.ip # 0 => \/ Stage(q) \in IpStages
                \/ (Stage(q) \in {"walk", "parent"} /\ q.call = "link")
  /\ Stage(q) \in {"walk", "parent", "new", "unlink"} => q.path # <<>>
  /\ Stage(q) = "new" => q.call \in {"create", "mkdir", "mknod"}
  /\ Stage(q) = "parent" => q.call # "link" \/ q.ip # 0
  /\ q.pc \in {"put", "drop"} => q.ret \notin {"new", "unlink"}
Shape == \A p \in Procs : ShapeOf(proc[p])

Live(i) == disk[i].type # "none"

\* Process p is going to use inode i.
Uses(p, i) ==
  \/ cwd[p] = i \/ file[p] = i \/ proc[p].at = i \/ proc[p].ip = i
  \/ (proc[p].put = i /\ proc[p].pc = "put")

Alive ==
  /\ \A i \in Inums : (\E p \in Procs : Uses(p, i)) => Live(i)
  /\ \A i \in Inums : \A n \in DOMAIN ent[i] : Live(ent[i][n])
  /\ \A i \in Inums : ~Live(i) => DOMAIN ent[i] = {}
  /\ disk[ROOTINO].type = "DIR"

LocksAt == {"new", "unlink", "bad", "exists"}
LocksIp == {"made", "erased"}

\* The locks kept from one step to the next.
LockOwned ==
  \A p \in Procs :
    /\ Stage(proc[p]) \in LocksAt => lock[proc[p].at] = p
    /\ Stage(proc[p]) \in LocksIp => lock[proc[p].ip] = p

\* A link the count has and the directories do not have, yet or any more.
Owes(q) == q.ip # 0 /\ Stage(q) \in {"walk", "parent", "exists", "linkbad", "erased"}
Debt(i) == {p \in Procs : Owes(proc[p]) /\ proc[p].ip = i}
SubdirsOf(i) == SubdirsIn(disk, ent, i)

LinkBook ==
  \A i \in Inums :
    disk[i].nlink >= Cardinality(NamesOf(i)) + Cardinality(SubdirsOf(i)) + Cardinality(Debt(i))
                     + (IF i = ROOTINO THEN 1 ELSE 0)

\* The entry an unlink() is about to erase is there.
EntryOf(q) == Head(q.path) \in DOMAIN ent[q.at] /\ ent[q.at][Head(q.path)] = q.ip
Erasing == \A p \in Procs : Stage(proc[p]) = "unlink" => EntryOf(proc[p])

\* The inode of ialloc() is its maker's alone until it has a name.
Fresh(p) ==
  LET q == proc[p] IN
  /\ Head(q.path) \in Names /\ Head(q.path) \notin DOMAIN ent[q.at]
  /\ disk[q.ip].nlink = 0 /\ DOMAIN ent[q.ip] = {}
  /\ disk[q.ip].type = TypeOf(q.call)
  /\ cwd[p] # q.ip /\ file[p] # q.ip
  /\ \A r \in Procs \ {p} : ~Uses(r, q.ip)
Making == \A p \in Procs : Stage(proc[p]) = "new" => Fresh(p)

\* Directories get no second name.
Linking ==
  \A p \in Procs : Stage(proc[p]) \in {"walk", "parent"} /\ proc[p].ip # 0 =>
                     disk[proc[p].ip].type # "DIR"

FsInv ==
  /\ FsType /\ Cached /\ Shape /\ Alive /\ LockOwned /\ RefsExact /\ LinkBook
  /\ Erasing /\ Making /\ Linking

-----------------------------------------------------------------------------
(* Counting.                                                                *)

One(x, i) == IF x = i THEN 1 ELSE 0

\* Two sets that differ in one element at most.
LEMMA CardStep ==
  ASSUME NEW A, IsFiniteSet(A), NEW B, NEW e, A \ {e} = B \ {e}
  PROVE  /\ IsFiniteSet(B) /\ Cardinality(A) \in Nat /\ Cardinality(B) \in Nat
         /\ Cardinality(B) = Cardinality(A) + (IF e \in B THEN 1 ELSE 0) - (IF e \in A THEN 1 ELSE 0)
<1> DEFINE R == A \ {e}
<1>1. /\ IsFiniteSet(R) /\ Cardinality(A) \in Nat
      /\ Cardinality(R) = Cardinality(A) - (IF e \in A THEN 1 ELSE 0)
  BY FS_RemoveElement, FS_CardinalityType
<1>2. IsFiniteSet(B)
  <2>1. IsFiniteSet(R \cup {e})
    BY <1>1, FS_AddElement
  <2>2. B \in SUBSET (R \cup {e})
    OBVIOUS
  <2> QED
    BY <2>1, <2>2, FS_Subset
<1>3. R = B \ {e}
  OBVIOUS
<1> HIDE DEF R
<1>4. /\ Cardinality(B) \in Nat
      /\ Cardinality(R) = Cardinality(B) - (IF e \in B THEN 1 ELSE 0)
  <2>1. Cardinality(B) \in Nat
    BY <1>2, FS_CardinalityType
  <2>2. Cardinality(B \ {e}) = IF e \in B THEN Cardinality(B) - 1 ELSE Cardinality(B)
    BY <1>2, FS_RemoveElement
  <2> QED
    BY <1>3, <2>1, <2>2
<1> QED
  BY <1>1, <1>2, <1>4

\* The sets that the counts of an inode are about are finite.
LEMMA CountedFinite ==
  ASSUME FsType, NEW i \in Inums
  PROVE  /\ IsFiniteSet(Holders(i)) /\ Cardinality(Holders(i)) \in Nat
         /\ IsFiniteSet(NamesOf(i)) /\ Cardinality(NamesOf(i)) \in Nat
         /\ IsFiniteSet(SubdirsOf(i)) /\ Cardinality(SubdirsOf(i)) \in Nat
         /\ IsFiniteSet(Debt(i)) /\ Cardinality(Debt(i)) \in Nat
<1> DEFINE Kinds == {"cwd", "file", "at", "ip", "put"}
<1>1. IsFiniteSet(Holders(i))
  <2>1. IsFiniteSet(Kinds)
    <3>1. IsFiniteSet({"cwd"} \cup {"file"})
      BY FS_Singleton, FS_AddElement
    <3>2. IsFiniteSet(({"cwd"} \cup {"file"}) \cup {"at"})
      BY <3>1, FS_AddElement
    <3>3. IsFiniteSet((({"cwd"} \cup {"file"}) \cup {"at"}) \cup {"ip"})
      BY <3>2, FS_AddElement
    <3>4. IsFiniteSet(((({"cwd"} \cup {"file"}) \cup {"at"}) \cup {"ip"}) \cup {"put"})
      BY <3>3, FS_AddElement
    <3>5. Kinds = ((({"cwd"} \cup {"file"}) \cup {"at"}) \cup {"ip"}) \cup {"put"}
      OBVIOUS
    <3> QED
      BY <3>4, <3>5
  <2>2. IsFiniteSet(Procs \X Kinds)
    BY <2>1, FS_Product
  <2>3. Holders(i) \in SUBSET (Procs \X Kinds)
    BY DEF Holders
  <2> QED
    BY <2>2, <2>3, FS_Subset
<1>2. IsFiniteSet(NamesOf(i))
  <2>1. IsFiniteSet(Inums)
    BY FS_Interval DEF Inums
  <2>2. IsFiniteSet(Inums \X Names)
    BY <2>1, FS_Product
  <2>3. NamesOf(i) \in SUBSET (Inums \X Names)
    BY DEF NamesOf, NamesIn
  <2> QED
    BY <2>2, <2>3, FS_Subset
<1>3. IsFiniteSet(SubdirsOf(i))
  <2>1. SubdirsOf(i) \in SUBSET Names
    BY DEF SubdirsOf, SubdirsIn, FsType
  <2> QED
    BY <2>1, FS_Subset
<1>4. IsFiniteSet(Debt(i))
  <2>1. Debt(i) \in SUBSET Procs
    BY DEF Debt
  <2> QED
    BY <2>1, FS_Subset
<1> QED
  BY <1>1, <1>2, <1>3, <1>4, FS_CardinalityType

\* Which references process p has to inode i.
LEMMA HoldersOf ==
  ASSUME NEW p \in Procs, NEW i
  PROVE  /\ <<p, "cwd">> \in Holders(i) <=> cwd[p] = i
         /\ <<p, "file">> \in Holders(i) <=> file[p] = i
         /\ <<p, "at">> \in Holders(i) <=> proc[p].at = i
         /\ <<p, "ip">> \in Holders(i) <=> proc[p].ip = i
         /\ <<p, "put">> \in Holders(i) <=> proc[p].put = i
BY DEF Holders

\* Only p takes a step.
Only(p) ==
  \A r \in Procs \ {p} : proc'[r] = proc[r] /\ cwd'[r] = cwd[r] /\ file'[r] = file[r]

\* What a step of p does to the number of references to inode i.
LEMMA HoldersStep ==
  ASSUME FsType, NEW p \in Procs, Only(p), NEW i \in Inums
  PROVE  Cardinality(Holders(i)') = Cardinality(Holders(i))
           + One(cwd'[p], i) - One(cwd[p], i) + One(file'[p], i) - One(file[p], i)
           + One(proc'[p].at, i) - One(proc[p].at, i)
           + One(proc'[p].ip, i) - One(proc[p].ip, i)
           + One(proc'[p].put, i) - One(proc[p].put, i)
<1> DEFINE With(H, k, v) == (H \ {<<p, k>>}) \cup {h \in {<<p, k>>} : v = i}
           H0 == Holders(i)
           H1 == With(H0, "cwd", cwd'[p])
           H2 == With(H1, "file", file'[p])
           H3 == With(H2, "at", proc'[p].at)
           H4 == With(H3, "ip", proc'[p].ip)
           H5 == With(H4, "put", proc'[p].put)
<1>1. /\ <<p, "cwd">> \in H0 <=> cwd[p] = i
      /\ <<p, "file">> \in H1 <=> file[p] = i
      /\ <<p, "at">> \in H2 <=> proc[p].at = i
      /\ <<p, "ip">> \in H3 <=> proc[p].ip = i
      /\ <<p, "put">> \in H4 <=> proc[p].put = i
  BY HoldersOf
<1>2. Holders(i)' = H5
  <2>1. ASSUME NEW h \in Holders(i)' PROVE h \in H5
    BY <2>1 DEF Holders, Only
  <2>2. ASSUME NEW h \in H5 PROVE h \in Holders(i)'
    BY <2>2 DEF Holders, Only
  <2> QED
    BY <2>1, <2>2
<1>3. IsFiniteSet(H0) /\ Cardinality(H0) \in Nat
  BY CountedFinite
<1>4. ASSUME NEW H, IsFiniteSet(H), NEW k, NEW v
      PROVE  /\ IsFiniteSet(With(H, k, v)) /\ Cardinality(With(H, k, v)) \in Nat
             /\ Cardinality(With(H, k, v)) = Cardinality(H) + One(v, i)
                                               - (IF <<p, k>> \in H THEN 1 ELSE 0)
  <2> DEFINE B == With(H, k, v)
             e == <<p, k>>
  <2>1. H \ {e} = B \ {e} /\ (e \in B <=> v = i)
    OBVIOUS
  <2> HIDE DEF B, e
  <2>2. /\ IsFiniteSet(B) /\ Cardinality(H) \in Nat /\ Cardinality(B) \in Nat
        /\ Cardinality(B) = Cardinality(H) + (IF e \in B THEN 1 ELSE 0) - (IF e \in H THEN 1 ELSE 0)
    BY <1>4, <2>1, CardStep
  <2>3. Cardinality(B) = Cardinality(H) + One(v, i) - (IF e \in H THEN 1 ELSE 0)
    BY <2>1, <2>2 DEF One
  <2> QED
    BY <2>2, <2>3 DEF B, e
<1> HIDE DEF H0, With
<1>5. IsFiniteSet(H1) /\ Cardinality(H1) = Cardinality(H0) + One(cwd'[p], i) - One(cwd[p], i)
  BY <1>1, <1>3, <1>4 DEF One
<1> HIDE DEF H1
<1>6. IsFiniteSet(H2) /\ Cardinality(H2) = Cardinality(H1) + One(file'[p], i) - One(file[p], i)
  BY <1>1, <1>4, <1>5 DEF One
<1> HIDE DEF H2
<1>7. IsFiniteSet(H3) /\ Cardinality(H3) = Cardinality(H2) + One(proc'[p].at, i) - One(proc[p].at, i)
  BY <1>1, <1>4, <1>6 DEF One
<1> HIDE DEF H3
<1>8. IsFiniteSet(H4) /\ Cardinality(H4) = Cardinality(H3) + One(proc'[p].ip, i) - One(proc[p].ip, i)
  BY <1>1, <1>4, <1>7 DEF One
<1> HIDE DEF H4
<1>9. Cardinality(H5) = Cardinality(H4) + One(proc'[p].put, i) - One(proc[p].put, i)
  BY <1>1, <1>4, <1>8 DEF One
<1> HIDE DEF H5
<1> QED
  BY <1>2, <1>3, <1>5, <1>6, <1>7, <1>8, <1>9 DEF H0, One

-----------------------------------------------------------------------------
(* Steps that leave directories and inodes on disk alone.                   *)

\* The change of the references to i that process p holds.
Change(p, i) ==
  One(cwd'[p], i) - One(cwd[p], i) + One(file'[p], i) - One(file[p], i)
    + One(proc'[p].at, i) - One(proc[p].at, i) + One(proc'[p].ip, i) - One(proc[p].ip, i)
    + One(proc'[p].put, i) - One(proc[p].put, i)

\* The same, by the references before and after.
LEMMA ChangeOf ==
  ASSUME NEW p, NEW i, NEW c, NEW f, NEW a, NEW n, NEW u, cwd'[p] = c, file'[p] = f,
         proc'[p].at = a, proc'[p].ip = n, proc'[p].put = u
  PROVE  Change(p, i) = (One(c, i) + One(f, i) + One(a, i) + One(n, i) + One(u, i))
           - (One(cwd[p], i) + One(file[p], i) + One(proc[p].at, i) + One(proc[p].ip, i)
              + One(proc[p].put, i))
BY DEF Change, One

LEMMA RefsStep ==
  ASSUME FsType, RefsExact, NEW p \in Procs, Only(p),
         \A i \in Inums : ref'[i] = ref[i] + Change(p, i)
  PROVE  RefsExact'
<1> SUFFICES ASSUME NEW i \in Inums PROVE ref'[i] = Cardinality(Holders(i)')
  BY DEF RefsExact
<1>1. Cardinality(Holders(i)') = Cardinality(Holders(i)) + Change(p, i)
  <2>1. Cardinality(Holders(i)) \in Nat
    BY CountedFinite
  <2> QED
    BY <2>1, HoldersStep DEF Change, One
<1>2. ref[i] = Cardinality(Holders(i))
  BY DEF RefsExact
<1> QED
  BY <1>1, <1>2

\* What a step of p does to the links that an inode is owed.
LEMMA DebtStep ==
  ASSUME FsType, NEW p \in Procs, Only(p), NEW i \in Inums
  PROVE  /\ Cardinality(Debt(i)) \in Nat /\ Cardinality(Debt(i)') \in Nat
         /\ Cardinality(Debt(i)') = Cardinality(Debt(i))
              + (IF Owes(proc'[p]) /\ proc'[p].ip = i THEN 1 ELSE 0)
              - (IF Owes(proc[p]) /\ proc[p].ip = i THEN 1 ELSE 0)
<1>1. IsFiniteSet(Debt(i))
  BY CountedFinite
<1>2. Debt(i) \ {p} = Debt(i)' \ {p}
  BY DEF Debt, Only
<1>3. /\ p \in Debt(i) <=> Owes(proc[p]) /\ proc[p].ip = i
      /\ p \in Debt(i)' <=> Owes(proc'[p]) /\ proc'[p].ip = i
  BY DEF Debt
<1>4. /\ Cardinality(Debt(i)) \in Nat /\ Cardinality(Debt(i)') \in Nat
      /\ Cardinality(Debt(i)') = Cardinality(Debt(i))
           + (IF p \in Debt(i)' THEN 1 ELSE 0) - (IF p \in Debt(i) THEN 1 ELSE 0)
  <2>1. PICK A, B : A = Debt(i) /\ B = Debt(i)'
    OBVIOUS
  <2>2. /\ Cardinality(A) \in Nat /\ Cardinality(B) \in Nat
        /\ Cardinality(B) = Cardinality(A)
             + (IF p \in B THEN 1 ELSE 0) - (IF p \in A THEN 1 ELSE 0)
    <3>1. IsFiniteSet(A) /\ A \ {p} = B \ {p}
      BY <1>1, <1>2, <2>1
    <3> QED
      BY <3>1, CardStep
  <2> QED
    BY <2>1, <2>2
<1> QED
  BY <1>3, <1>4 DEF Owes

\* An inode that the root's link or a directory keeps.
Named(i) == i = ROOTINO \/ \E d \in Inums : \E n \in DOMAIN ent[d] : ent[d][n] = i

LEMMA NamedLinked ==
  ASSUME FsType, LinkBook, NEW i \in Inums, Named(i)
  PROVE  disk[i].nlink >= 1 /\ disk[i].nlink \in Int
<1>1. /\ Cardinality(NamesOf(i)) \in Nat /\ Cardinality(SubdirsOf(i)) \in Nat
      /\ Cardinality(Debt(i)) \in Nat /\ IsFiniteSet(NamesOf(i))
  BY CountedFinite
<1>2. disk[i].nlink \in Int
  BY DEF FsType
<1>3. disk[i].nlink >= Cardinality(NamesOf(i)) + Cardinality(SubdirsOf(i)) + Cardinality(Debt(i))
                       + (IF i = ROOTINO THEN 1 ELSE 0)
  BY DEF LinkBook
<1>4. CASE i = ROOTINO
  BY <1>1, <1>2, <1>3, <1>4
<1>5. CASE i # ROOTINO
  <2>1. PICK d \in Inums : \E n \in DOMAIN ent[d] : ent[d][n] = i
    BY <1>5 DEF Named
  <2>2. PICK n \in DOMAIN ent[d] : ent[d][n] = i
    BY <2>1
  <2>3. <<d, n>> \in NamesOf(i)
    BY <2>2 DEF NamesOf, NamesIn, FsType
  <2>4. Cardinality(NamesOf(i)) # 0
    BY <1>1, <2>3, FS_EmptySet
  <2> QED
    BY <1>1, <1>2, <1>3, <2>4
<1> QED
  BY <1>4, <1>5

\* Locks: a process keeps its own, the others keep theirs.
LocksKept(p) ==
  /\ \A r \in Procs \ {p} : \A i \in Inums : lock[i] = r => lock'[i] = r
  /\ Stage(proc'[p]) \in LocksAt => lock'[proc'[p].at] = p
  /\ Stage(proc'[p]) \in LocksIp => lock'[proc'[p].ip] = p

\* The inodes a process works on at each stage.
LEMMA ShapeInums ==
  ASSUME FsType, Shape, NEW p \in Procs
  PROVE  /\ proc[p].at \in Int /\ proc[p].ip \in Int /\ proc[p].put \in Int
         /\ proc[p].at # 0 => proc[p].at \in Inums
         /\ proc[p].ip # 0 => proc[p].ip \in Inums
         /\ proc[p].put # 0 => proc[p].put \in Inums
         /\ Stage(proc[p]) \in AtStages => proc[p].at \in Inums
         /\ Stage(proc[p]) \in IpStages => proc[p].ip \in Inums
         /\ Stage(proc[p]) \in Stages
<1>1. /\ proc[p].at \in 0 .. ninodes - 1 /\ proc[p].ip \in 0 .. ninodes - 1
      /\ proc[p].put \in 0 .. ninodes - 1
      /\ proc[p].pc \in Stages \cup {"put", "drop"} /\ proc[p].ret \in Stages
  BY DEF FsType, CallRec
<1>2. /\ (proc[p].at # 0) <=> Stage(proc[p]) \in AtStages
      /\ Stage(proc[p]) \in IpStages => proc[p].ip # 0
  BY DEF Shape, ShapeOf
<1>3. Stage(proc[p]) \in Stages
  BY <1>1 DEF Stage
<1> QED
  BY <1>1, <1>2, <1>3 DEF Inums

LEMMA LockStep ==
  ASSUME FsType, Shape, LockOwned, NEW p \in Procs, Only(p), LocksKept(p)
  PROVE  LockOwned'
<1> SUFFICES ASSUME NEW r \in Procs
             PROVE  /\ Stage(proc'[r]) \in LocksAt => lock'[proc'[r].at] = r
                    /\ Stage(proc'[r]) \in LocksIp => lock'[proc'[r].ip] = r
  BY DEF LockOwned
<1>1. CASE r = p
  BY <1>1 DEF LocksKept
<1>2. CASE r # p
  <2>1. proc'[r] = proc[r]
    BY <1>2 DEF Only
  <2>2. /\ Stage(proc[r]) \in LocksAt => proc[r].at \in Inums /\ lock[proc[r].at] = r
        /\ Stage(proc[r]) \in LocksIp => proc[r].ip \in Inums /\ lock[proc[r].ip] = r
    BY ShapeInums DEF LockOwned, LocksAt, LocksIp, AtStages, IpStages
  <2> QED
    BY <1>2, <2>1, <2>2 DEF LocksKept
<1> QED
  BY <1>1, <1>2

LEMMA ShapeStep ==
  ASSUME Shape, NEW p \in Procs, Only(p), ShapeOf(proc'[p])
  PROVE  Shape'
<1> SUFFICES ASSUME NEW r \in Procs PROVE ShapeOf(proc'[r])
  BY DEF Shape
<1> QED
  BY DEF Shape, Only

\* The uses of the other processes stay as they are.
LEMMA OthersUse ==
  ASSUME NEW p, Only(p), NEW r \in Procs \ {p}, NEW i
  PROVE  Uses(r, i)' <=> Uses(r, i)
BY DEF Only, Uses

\* A step that changes no directory and no inode on disk: new uses come from names,
\* and no link is owed anew.
LEMMA QuietStep ==
  ASSUME FsInv, NEW p \in Procs, Only(p), FsType', Cached', disk' = disk, ent' = ent,
         ShapeOf(proc'[p]), LocksKept(p),
         \A i \in Inums : ref'[i] = ref[i] + Change(p, i),
         \A i \in Inums : Uses(p, i)' => Uses(p, i) \/ Named(i),
         Stage(proc'[p]) # "new",
         Stage(proc'[p]) = "unlink" => EntryOf(proc'[p]),
         Owes(proc'[p]) => Owes(proc[p]) /\ proc'[p].ip = proc[p].ip,
         Stage(proc'[p]) \in {"walk", "parent"} /\ proc'[p].ip # 0 =>
           Stage(proc[p]) \in {"walk", "parent"} /\ proc'[p].ip = proc[p].ip
  PROVE  FsInv'
<1> USE DEF FsInv
<1>1. Shape' /\ LockOwned' /\ RefsExact'
  BY ShapeStep, LockStep, RefsStep
<1>2. Alive'
  <2>1. ASSUME NEW i \in Inums, NEW r \in Procs, Uses(r, i)' PROVE Live(i)
    <3>1. Uses(r, i) \/ Named(i)
      BY <2>1, OthersUse
    <3>2. Named(i) => Live(i)
      BY DEF Named, Alive, Live
    <3> QED
      BY <3>1, <3>2 DEF Alive
  <2> QED
    BY <2>1 DEF Alive, Live
<1>3. LinkBook'
  <2> SUFFICES ASSUME NEW i \in Inums
               PROVE  disk[i].nlink >= Cardinality(NamesOf(i)) + Cardinality(SubdirsOf(i))
                                       + Cardinality(Debt(i)') + (IF i = ROOTINO THEN 1 ELSE 0)
    BY DEF LinkBook, NamesOf, SubdirsOf
  <2>1. /\ Cardinality(NamesOf(i)) \in Nat /\ Cardinality(SubdirsOf(i)) \in Nat
        /\ disk[i].nlink \in Int
    BY CountedFinite DEF FsType
  <2>2. /\ Cardinality(Debt(i)) \in Nat /\ Cardinality(Debt(i)') \in Nat
        /\ Cardinality(Debt(i)') <= Cardinality(Debt(i))
    BY DebtStep DEF Owes
  <2>3. disk[i].nlink >= Cardinality(NamesOf(i)) + Cardinality(SubdirsOf(i))
                         + Cardinality(Debt(i)) + (IF i = ROOTINO THEN 1 ELSE 0)
    BY DEF LinkBook
  <2> QED
    BY <2>1, <2>2, <2>3
<1>4. Erasing'
  BY DEF Erasing, EntryOf, Only
<1>5. Making'
  <2> SUFFICES ASSUME NEW r \in Procs, Stage(proc'[r]) = "new" PROVE Fresh(r)'
    BY DEF Making
  <2>1. r # p /\ proc'[r] = proc[r] /\ cwd'[r] = cwd[r] /\ file'[r] = file[r]
    BY DEF Only
  <2>2. Fresh(r)
    BY <2>1 DEF Making
  <2>3. PICK x : x = proc[r].ip
    OBVIOUS
  <2>4. x \in Inums
    BY <2>1, <2>3, ShapeInums DEF IpStages
  <2>5. ASSUME NEW s \in Procs \ {r} PROVE ~Uses(s, x)'
    <3>1. ~Uses(s, x)
      BY <2>2, <2>3 DEF Fresh
    <3>2. ~Named(x)
      BY <2>2, <2>3, <2>4, NamedLinked DEF Fresh
    <3> QED
      BY <2>4, <3>1, <3>2, OthersUse
  <2>6. \A s \in Procs \ {r} : ~Uses(s, proc[r].ip)'
    BY <2>1, <2>3, <2>5 DEF Uses
  <2> QED
    BY <2>1, <2>2, <2>6 DEF Fresh, Uses
<1>6. Linking'
  BY DEF Linking, Only
<1> QED
  BY <1>1, <1>2, <1>3, <1>4, <1>5, <1>6

-----------------------------------------------------------------------------
(* What the steps do to the record of a process.                            *)

\* The fields of the record of p after a step.
Now(p, pc, call, path, at, ip, put, ret) ==
  /\ proc' \in [Procs -> CallRec]
  /\ \A r \in Procs \ {p} : proc'[r] = proc[r]
  /\ proc'[p].pc = pc /\ proc'[p].call = call /\ proc'[p].path = path
  /\ proc'[p].at = at /\ proc'[p].ip = ip /\ proc'[p].put = put /\ proc'[p].ret = ret

LEMMA PutThenRec ==
  ASSUME FsType, NEW p \in Procs, NEW r \in CallRec, NEW i \in 0 .. ninodes - 1,
         NEW next \in Stages, PutThen(p, r, i, next)
  PROVE  Now(p, "put", r.call, r.path, r.at, r.ip, i, next)
<1>1. proc \in [Procs -> CallRec]
  BY DEF FsType
<1>2. PICK s : s = [r EXCEPT !.pc = "put", !.put = i, !.ret = next]
  OBVIOUS
<1>3. /\ s \in CallRec /\ s.pc = "put" /\ s.call = r.call /\ s.path = r.path /\ s.at = r.at
      /\ s.ip = r.ip /\ s.put = i /\ s.ret = next
  BY <1>2 DEF CallRec
<1>4. proc' = [proc EXCEPT ![p] = s]
  BY <1>2 DEF PutThen
<1> QED
  BY <1>1, <1>3, <1>4 DEF Now

LEMMA GotoRec ==
  ASSUME FsType, NEW p \in Procs, NEW r \in CallRec, NEW next \in Stages \cup {"drop"},
         Goto(p, r, next)
  PROVE  Now(p, next, r.call, r.path, r.at, r.ip, r.put, r.ret)
<1>1. proc \in [Procs -> CallRec]
  BY DEF FsType
<1>2. PICK s : s = [r EXCEPT !.pc = next]
  OBVIOUS
<1>3. /\ s \in CallRec /\ s.pc = next /\ s.call = r.call /\ s.path = r.path /\ s.at = r.at
      /\ s.ip = r.ip /\ s.put = r.put /\ s.ret = r.ret
  BY <1>2 DEF CallRec
<1>4. proc' = [proc EXCEPT ![p] = s]
  BY <1>2 DEF Goto
<1> QED
  BY <1>1, <1>3, <1>4 DEF Now

LEMMA IdleRec ==
  /\ Idle \in CallRec /\ Idle.pc = "idle" /\ Idle.call = "none" /\ Idle.path = <<>>
  /\ Idle.at = 0 /\ Idle.ip = 0 /\ Idle.put = 0 /\ Idle.ret = "idle"
BY DEF Idle, CallRec, Stages

LEMMA ToIdleRec ==
  ASSUME FsType, NEW p \in Procs, proc' = [proc EXCEPT ![p] = Idle]
  PROVE  Now(p, "idle", "none", <<>>, 0, 0, 0, "idle")
<1>1. proc \in [Procs -> CallRec]
  BY DEF FsType
<1> QED
  BY <1>1, IdleRec DEF Now

LEMMA DropRec ==
  ASSUME FsType, NEW p \in Procs, NEW q \in CallRec, NEW next \in Stages,
         proc' = [proc EXCEPT ![p] = [q EXCEPT !.pc = next, !.put = 0]]
  PROVE  Now(p, next, q.call, q.path, q.at, q.ip, 0, q.ret)
<1>1. proc \in [Procs -> CallRec]
  BY DEF FsType
<1>2. PICK s : s = [q EXCEPT !.pc = next, !.put = 0]
  OBVIOUS
<1>3. 0 \in 0 .. ninodes - 1
  OBVIOUS
<1>4. /\ s \in CallRec /\ s.pc = next /\ s.call = q.call /\ s.path = q.path /\ s.at = q.at
      /\ s.ip = q.ip /\ s.put = 0 /\ s.ret = q.ret
  BY <1>2, <1>3 DEF CallRec
<1> QED
  BY <1>1, <1>2, <1>4 DEF Now

LEMMA StartRec ==
  ASSUME FsType, NEW p \in Procs, NEW call \in Calls, NEW path \in Seq(Names \cup {Dot}),
         NEW from \in 0 .. ninodes - 1,
         proc' = [proc EXCEPT ![p] = [Idle EXCEPT !.pc = "walk", !.call = call,
                                                  !.path = path, !.at = from]]
  PROVE  Now(p, "walk", call, path, from, 0, 0, "idle")
<1>1. proc \in [Procs -> CallRec]
  BY DEF FsType
<1>2. PICK q : q = Idle
  OBVIOUS
<1>3. PICK s : s = [q EXCEPT !.pc = "walk", !.call = call, !.path = path, !.at = from]
  OBVIOUS
<1>4. q \in CallRec /\ q.ip = 0 /\ q.put = 0 /\ q.ret = "idle" /\ "walk" \in Stages
  BY <1>2, IdleRec DEF Stages
<1>5. /\ s \in CallRec /\ s.pc = "walk" /\ s.call = call /\ s.path = path /\ s.at = from
      /\ s.ip = 0 /\ s.put = 0 /\ s.ret = "idle"
  BY <1>3, <1>4 DEF CallRec
<1>6. proc' = [proc EXCEPT ![p] = s]
  BY <1>2, <1>3
<1> QED
  BY <1>1, <1>5, <1>6 DEF Now

\* The record of a process.
LEMMA RecOf ==
  ASSUME FsType, NEW p \in Procs
  PROVE  /\ proc[p] \in CallRec /\ proc[p].pc \in Stages \cup {"put", "drop"}
         /\ proc[p].call \in Calls \cup {"none"} /\ proc[p].path \in Seq(Names \cup {Dot})
         /\ proc[p].at \in 0 .. ninodes - 1 /\ proc[p].ip \in 0 .. ninodes - 1
         /\ proc[p].put \in 0 .. ninodes - 1 /\ proc[p].ret \in Stages
         /\ cwd[p] \in Inums /\ file[p] \in 0 .. ninodes - 1
BY DEF FsType, CallRec

\* What is locked is read from the disk or was.
LEMMA InodeDisk ==
  ASSUME Cached, NEW i \in Inums
  PROVE  Inode(i) = disk[i]
BY DEF Cached, Inode

InodeSet == [type : FileTypes, nlink : Int]

LEMMA LoadedSound ==
  ASSUME FsType, Cached, NEW i \in Inums, Live(i), Loaded(i), disk' = disk
  PROVE  /\ cache' \in [Inums -> [type : FileTypes, nlink : Int]]
         /\ valid' \in [Inums -> BOOLEAN] /\ Cached'
<1>1. Inode(i) = disk[i]
  BY InodeDisk
<1>2. /\ cache \in [Inums -> InodeSet] /\ disk \in [Inums -> InodeSet]
      /\ valid \in [Inums -> BOOLEAN]
  BY DEF FsType, InodeSet
<1>3. /\ cache' = [cache EXCEPT ![i] = disk[i]]
      /\ valid' = [valid EXCEPT ![i] = TRUE]
  BY <1>1 DEF Loaded
<1>4. cache' \in [Inums -> InodeSet]
  BY <1>2, <1>3
<1>5. Cached'
  BY <1>2, <1>3 DEF Cached, Live
<1> QED
  BY <1>2, <1>3, <1>4, <1>5 DEF InodeSet

-----------------------------------------------------------------------------
(* The steps, one by one.                                                   *)

LEMMA StartStep ==
  ASSUME FsInv, NEW p \in Procs, NEW call \in Calls, NEW path \in Paths,
         NEW from \in {ROOTINO, cwd[p]}, Start(p, call, path, from)
  PROVE  FsInv'
<1> USE DEF FsInv
<1>1. from \in Inums /\ from \in 0 .. ninodes - 1 /\ from # 0
  BY RecOf DEF Inums
<1>2. Now(p, "walk", call, path, from, 0, 0, "idle")
  <2>1. path \in Seq(Names \cup {Dot})
    OBVIOUS
  <2> QED
    BY <1>1, <2>1, StartRec DEF Start
<1>3. Only(p)
  BY <1>2 DEF Now, Only, Start
<1>4. /\ disk' = disk /\ ent' = ent /\ cache' = cache /\ valid' = valid /\ lock' = lock
      /\ file' = file /\ cwd' = cwd /\ ref' = [ref EXCEPT ![from] = @ + 1]
      /\ calls' = [calls EXCEPT ![p] = @ + 1]
  BY DEF Start, Iget
<1>5. FsType' /\ Cached'
  BY <1>1, <1>2, <1>4, SMTT(30) DEF FsType, Cached, Now
<1>6. proc[p].pc = "idle" /\ proc[p].at = 0 /\ proc[p].ip = 0 /\ proc[p].put = 0
  BY DEF Start, Shape, ShapeOf, Stage, AtStages, IpStages
<1>7. Stage(proc'[p]) = "walk" /\ ShapeOf(proc'[p])
  BY <1>1, <1>2 DEF Now, ShapeOf, Stage, AtStages, IpStages
<1>8. LocksKept(p)
  BY <1>4, <1>7 DEF LocksKept, LocksAt, LocksIp
<1>9. \A i \in Inums : ref'[i] = ref[i] + Change(p, i)
  <2> TAKE i \in Inums
  <2>1. Change(p, i) = One(from, i)
    BY <1>2, <1>4, <1>6, ChangeOf, SMTT(30) DEF Now, One, Inums
  <2>2. ref \in [Inums -> Int]
    BY DEF FsType
  <2> QED
    BY <1>1, <1>4, <2>1, <2>2 DEF One
<1>10. \A i \in Inums : Uses(p, i)' => Uses(p, i) \/ Named(i)
  BY <1>2, <1>4 DEF Now, Uses, Named, Inums
<1>11. ~Owes(proc'[p]) /\ proc'[p].ip = 0
  BY <1>2 DEF Now, Owes
<1> QED
  BY <1>3, <1>4, <1>5, <1>7, <1>8, <1>9, <1>10, <1>11, QuietStep

LEMMA IputDropStep ==
  ASSUME FsInv, NEW p \in Procs, IputDrop(p)
  PROVE  FsInv'
<1> USE DEF FsInv
<1>1. PICK i : i = proc[p].put
  OBVIOUS
<1>2. proc[p].pc = "drop" /\ i \in Inums /\ i # 0 /\ Stage(proc[p]) = proc[p].ret
  BY <1>1, ShapeInums DEF IputDrop, Shape, ShapeOf, Inums, Stage
<1>3. /\ proc[p].ret = "idle" => proc[p].at = 0 /\ proc[p].ip = 0
      /\ proc[p].ret \in Stages
  BY <1>2, RecOf DEF Shape, ShapeOf, AtStages, IpStages
<1>4. \E call, path : Now(p, proc[p].ret, call, path, proc[p].at, proc[p].ip, 0, proc'[p].ret)
                      /\ (proc[p].ret # "idle" => call = proc[p].call /\ path = proc[p].path)
  <2>1. CASE proc[p].ret = "idle"
    <3>1. proc' = [proc EXCEPT ![p] = Idle]
      BY <2>1 DEF IputDrop
    <3> QED
      BY <1>3, <2>1, <3>1, ToIdleRec, ZenonT(30) DEF Now
  <2>2. CASE proc[p].ret # "idle"
    <3>1. PICK q : q = proc[p]
      OBVIOUS
    <3>2. q \in CallRec
      BY <3>1, RecOf
    <3>3. proc' = [proc EXCEPT ![p] = [q EXCEPT !.pc = q.ret, !.put = 0]]
      BY <2>2, <3>1 DEF IputDrop
    <3>4. Now(p, q.ret, q.call, q.path, q.at, q.ip, 0, q.ret)
      BY <1>3, <3>1, <3>2, <3>3, DropRec
    <3> QED
      BY <3>1, <3>4 DEF Now
  <2> QED
    BY <2>1, <2>2
<1>5. PICK call, path :
        /\ Now(p, proc[p].ret, call, path, proc[p].at, proc[p].ip, 0, proc'[p].ret)
        /\ proc[p].ret # "idle" => call = proc[p].call /\ path = proc[p].path
  BY <1>4
<1>6. Only(p)
  BY <1>5 DEF Now, Only, IputDrop
<1>7. /\ disk' = disk /\ ent' = ent /\ lock' = lock /\ file' = file /\ cwd' = cwd
      /\ ref' = [ref EXCEPT ![i] = @ - 1] /\ calls' = calls
      /\ valid' = [valid EXCEPT ![i] = @ /\ ~(ref[i] = 1)]
      /\ cache' = IF ref[i] = 1 THEN [cache EXCEPT ![i] = Free] ELSE cache
  BY <1>1 DEF IputDrop
<1>8. FsType'
  <2>1. ref' \in [Inums -> Int] /\ valid' \in [Inums -> BOOLEAN]
    BY <1>2, <1>7 DEF FsType
  <2>2. cache' \in [Inums -> [type : FileTypes, nlink : Int]]
    <3>1. Free \in [type : FileTypes, nlink : Int]
      BY DEF Free, FileTypes
    <3> QED
      BY <1>2, <1>7, <3>1 DEF FsType
  <2> QED
    BY <1>5, <1>7, <2>1, <2>2 DEF FsType, Now
<1>9. Cached'
  BY <1>2, <1>7 DEF Cached, FsType
<1>10. Stage(proc'[p]) = Stage(proc[p]) /\ ShapeOf(proc'[p])
  <2>1. proc'[p].pc = proc[p].ret /\ proc[p].ret \notin {"put", "drop"}
    BY <1>3, <1>5 DEF Now, Stages
  <2>2. Stage(proc'[p]) = Stage(proc[p])
    BY <1>2, <2>1 DEF Stage
  <2>3. ShapeOf(proc[p])
    BY DEF Shape
  <2> QED
    BY <1>2, <1>5, <2>1, <2>2, <2>3 DEF Now, ShapeOf, AtStages, IpStages
<1>11. LocksKept(p)
  BY <1>5, <1>7, <1>10 DEF LocksKept, LockOwned, Now
<1>12. \A j \in Inums : ref'[j] = ref[j] + Change(p, j)
  <2> TAKE j \in Inums
  <2>1. Change(p, j) = 0 - One(i, j)
    BY <1>1, <1>5, <1>7, ChangeOf DEF Now, One, Inums
  <2>2. ref \in [Inums -> Int]
    BY DEF FsType
  <2> QED
    BY <1>2, <1>7, <2>1, <2>2 DEF One
<1>13. \A j \in Inums : Uses(p, j)' => Uses(p, j)
  BY <1>2, <1>5, <1>7 DEF Now, Uses, Inums
<1>14. /\ Owes(proc'[p]) => Owes(proc[p])
       /\ proc'[p].ip = proc[p].ip
  BY <1>5, <1>10 DEF Now, Owes
<1>15. Stage(proc'[p]) \notin {"new", "unlink"}
  BY <1>2, <1>10 DEF Shape, ShapeOf
<1> QED
  BY <1>6, <1>7, <1>8, <1>9, <1>10, <1>11, <1>12, <1>13, <1>14, <1>15, QuietStep

\* The state of the inode cache is sound after a step.
CacheSound ==
  /\ cache' \in [Inums -> [type : FileTypes, nlink : Int]]
  /\ valid' \in [Inums -> BOOLEAN] /\ Cached'

LEMMA CacheKept ==
  ASSUME FsType, Cached, cache' = cache, valid' = valid, disk' = disk
  PROVE  CacheSound
BY DEF CacheSound, FsType, Cached

\* A quiet step of p that leaves it with directory c and file f.
Frame(p, c, f) ==
  /\ disk' = disk /\ ent' = ent /\ calls' = calls /\ CacheSound
  /\ c \in Inums /\ cwd' = [cwd EXCEPT ![p] = c]
  /\ f \in 0 .. ninodes - 1 /\ file' = [file EXCEPT ![p] = f]
  /\ ref' \in [Inums -> Int] /\ lock' \in [Inums -> Procs \cup {NoProc}]
  /\ \A r \in Procs \ {p} : \A i \in Inums : lock[i] = r => lock'[i] = r

\* The fields of its record fit the stage.
Fits(p, pc, call, path, at, ip, put, ret, st) ==
  /\ st = IF pc \in {"put", "drop"} THEN ret ELSE pc
  /\ st \in LocksAt => lock'[at] = p
  /\ st \in LocksIp => lock'[ip] = p
  /\ (put # 0) <=> pc \in {"put", "drop"}
  /\ (at # 0) <=> st \in AtStages
  /\ st \in IpStages => ip # 0
  /\ ip # 0 => st \in IpStages \/ (st \in {"walk", "parent"} /\ call = "link")
  /\ st \in {"walk", "parent", "unlink"} => path # <<>>
  /\ st = "parent" => call # "link" \/ ip # 0
  /\ st # "new" /\ (put # 0 => st # "unlink")

\* Its references to inode i, given its directory, its file and the fields.
Refs(c, f, at, ip, put, i) == One(c, i) + One(f, i) + One(at, i) + One(ip, i) + One(put, i)

RefsMoved(p, c, f, at, ip, put) ==
  \A i \in Inums : ref'[i] = ref[i] + Refs(c, f, at, ip, put, i)
                     - Refs(cwd[p], file[p], proc[p].at, proc[p].ip, proc[p].put, i)

\* It had them, or found them by a name.
Found(p, c, f, at, ip, put) ==
  \A i \in {c, f, at, ip, put} : i # 0 => Uses(p, i) \/ Named(i)

\* It goes on with what it was doing.
Continues(p, path, at, ip, st) ==
  /\ st = "unlink" => Head(path) \in DOMAIN ent[at] /\ ent[at][Head(path)] = ip
  /\ ip # 0 /\ st \in {"walk", "parent", "exists", "linkbad", "erased"} =>
       Owes(proc[p]) /\ ip = proc[p].ip
  /\ st \in {"walk", "parent"} /\ ip # 0 => Stage(proc[p]) \in {"walk", "parent"}

\* The quiet steps of p, by what they leave of its record, its directory and file.
LEMMA QuietNow ==
  ASSUME FsInv, NEW p \in Procs, NEW pc, NEW call, NEW path, NEW at, NEW ip, NEW put, NEW ret,
         NEW st, NEW c, NEW f,
         Now(p, pc, call, path, at, ip, put, ret), Frame(p, c, f),
         Fits(p, pc, call, path, at, ip, put, ret, st), RefsMoved(p, c, f, at, ip, put),
         Found(p, c, f, at, ip, put), Continues(p, path, at, ip, st)
  PROVE  FsInv'
<1> USE DEF Frame
<1>0. FsType /\ Shape /\ Cached
  BY DEF FsInv
<1>1. /\ proc'[p].pc = pc /\ proc'[p].call = call /\ proc'[p].path = path /\ proc'[p].at = at
      /\ proc'[p].ip = ip /\ proc'[p].put = put /\ proc'[p].ret = ret
      /\ proc' \in [Procs -> CallRec]
  BY DEF Now
<1>2. cwd \in [Procs -> Inums] /\ file \in [Procs -> 0 .. ninodes - 1] /\ calls \in [Procs -> Nat]
  BY <1>0 DEF FsType
<1>3. Only(p)
  BY <1>2 DEF Now, Only
<1>4. cwd'[p] = c /\ file'[p] = f
  BY <1>2
<1>5. FsType'
  <2>1. cwd' \in [Procs -> Inums] /\ file' \in [Procs -> 0 .. ninodes - 1]
    BY <1>2
  <2> QED
    BY <1>0, <1>1, <2>1 DEF FsType, CacheSound
<1>6. Stage(proc'[p]) = st
  BY <1>1 DEF Stage, Fits
<1>7. ShapeOf(proc'[p])
  BY <1>1, <1>6 DEF ShapeOf, Stage, Fits
<1>8. LocksKept(p)
  BY <1>1, <1>6 DEF LocksKept, Fits
<1>9. \A i \in Inums : ref'[i] = ref[i] + Change(p, i)
  <2> TAKE i \in Inums
  <2>1. Change(p, i) = Refs(c, f, at, ip, put, i)
                       - Refs(cwd[p], file[p], proc[p].at, proc[p].ip, proc[p].put, i)
    BY <1>1, <1>4, ChangeOf DEF Refs
  <2>2. ref[i] \in Int
    BY <1>0 DEF FsType
  <2>3. ref'[i] = ref[i] + Refs(c, f, at, ip, put, i)
                     - Refs(cwd[p], file[p], proc[p].at, proc[p].ip, proc[p].put, i)
    BY DEF RefsMoved
  <2> QED
    BY <2>1, <2>2, <2>3 DEF One, Refs
<1>10. \A i \in Inums : Uses(p, i)' => Uses(p, i) \/ Named(i)
  <2> TAKE i \in Inums
  <2>1. Uses(p, i)' => i \in {c, f, at, ip, put}
    BY <1>1, <1>4 DEF Uses
  <2> QED
    BY <2>1 DEF Found, Inums
<1>11. Owes(proc'[p]) => Owes(proc[p]) /\ proc'[p].ip = proc[p].ip
  BY <1>1, <1>6 DEF Owes, Continues
<1>12. Stage(proc'[p]) = "unlink" => EntryOf(proc'[p])
  BY <1>1, <1>6 DEF EntryOf, Continues
<1>13. Cached' /\ disk' = disk /\ ent' = ent
  BY DEF CacheSound
<1>14. Stage(proc'[p]) # "new"
  BY <1>6 DEF Fits
<1>15. Stage(proc'[p]) \in {"walk", "parent"} /\ proc'[p].ip # 0 =>
         Stage(proc[p]) \in {"walk", "parent"} /\ proc'[p].ip = proc[p].ip
  BY <1>1, <1>6 DEF Continues
<1> HIDE DEF Frame
<1> QED
  BY <1>3, <1>5, <1>7, <1>8, <1>9, <1>10, <1>11, <1>12, <1>13, <1>14, <1>15, QuietStep

\* What p uses is allocated.
LEMMA UsedLive ==
  ASSUME FsInv, NEW p \in Procs, NEW i \in Inums, Uses(p, i)
  PROVE  Live(i)
BY DEF FsInv, Alive

\* dirlookup() finds an inode that has a name, or the directory itself.
LEMMA LookupNamed ==
  ASSUME FsInv, NEW d \in Inums, NEW n, Dirlookup(d, n) # 0
  PROVE  /\ Dirlookup(d, n) \in Inums
         /\ Dirlookup(d, n) = d \/ Named(Dirlookup(d, n))
BY DEF FsInv, FsType, Dirlookup, Named

\* Locks and references left alone, and what a process has when it stays as it is.
LEMMA FrameKept ==
  ASSUME FsInv, NEW p \in Procs, disk' = disk, ent' = ent, calls' = calls, CacheSound,
         cwd' = cwd, file' = file, ref' \in [Inums -> Int], lock' = lock
  PROVE  Frame(p, cwd[p], file[p])
<1>1. FsType
  BY DEF FsInv
<1>2. cwd \in [Procs -> Inums] /\ file \in [Procs -> 0 .. ninodes - 1]
  BY <1>1 DEF FsType
<1>3. cwd' = [cwd EXCEPT ![p] = cwd[p]] /\ file' = [file EXCEPT ![p] = file[p]]
  BY <1>2
<1>4. lock' \in [Inums -> Procs \cup {NoProc}]
  BY <1>1 DEF FsType
<1> QED
  BY <1>2, <1>3, <1>4 DEF Frame

\* iget() of one inode.
LEMMA IgetOne ==
  ASSUME FsInv, NEW i \in Inums, Iget(i)
  PROVE  ref' \in [Inums -> Int] /\ \A j \in Inums : ref'[j] = ref[j] + One(i, j)
BY DEF FsInv, FsType, Iget, One

LEMMA RefsTyped ==
  ASSUME FsInv
  PROVE  ref \in [Inums -> Int]
BY DEF FsInv, FsType

LEMMA WalkStep ==
  ASSUME FsInv, NEW p \in Procs, Walk(p)
  PROVE  FsInv'
<1>0. FsType /\ Cached /\ Shape
  BY DEF FsInv
<1>1. PICK q : q = proc[p]
  OBVIOUS
<1>2. /\ q \in CallRec /\ q.pc = "walk" /\ q.at \in Inums /\ q.at # 0 /\ q.put = 0
      /\ q.path \in Seq(Names \cup {Dot}) /\ q.path # <<>> /\ q.ip \in 0 .. ninodes - 1
      /\ q.ip # 0 => q.call = "link"
      /\ Stage(q) = "walk"
  BY <1>0, <1>1, RecOf, ShapeInums DEF Walk, Shape, ShapeOf, Stage, AtStages, IpStages, Inums
<1>3. Uses(p, q.at) /\ (q.ip # 0 => Uses(p, q.ip) /\ Owes(proc[p])) /\ Live(q.at)
  BY <1>0, <1>1, <1>2, UsedLive DEF Uses, Owes
<1>4. CacheSound
  BY <1>0, <1>1, <1>2, <1>3, LoadedSound DEF CacheSound, Walk
<1>5. /\ disk' = disk /\ ent' = ent /\ calls' = calls /\ cwd' = cwd /\ file' = file /\ lock' = lock
  BY DEF Walk
<1>6. cwd[p] \in Inums /\ Uses(p, cwd[p]) /\ Uses(p, file[p])
  BY <1>0, RecOf DEF Uses
<1>7. 0 \in 0 .. ninodes - 1 /\ q.at \in 0 .. ninodes - 1
  BY <1>2 DEF Inums
<1>8. ASSUME ref' = ref, PutThen(p, [q EXCEPT !.at = 0], q.at, Failed(q))
      PROVE  FsInv'
  <2>1. PICK r : r = [q EXCEPT !.at = 0]
    OBVIOUS
  <2>2. r \in CallRec /\ r.call = q.call /\ r.path = q.path /\ r.at = 0 /\ r.ip = q.ip
    BY <1>2, <1>7, <2>1 DEF CallRec
  <2>3. Failed(q) \in Stages /\ Failed(q) = IF q.ip # 0 THEN "linkbad" ELSE "idle"
    BY DEF Failed, Stages
  <2>4. Now(p, "put", q.call, q.path, 0, q.ip, q.at, Failed(q))
    BY <1>0, <1>7, <1>8, <2>1, <2>2, <2>3, PutThenRec
  <2>5. Frame(p, cwd[p], file[p])
    BY <1>4, <1>5, <1>8, FrameKept, RefsTyped
  <2>6. Fits(p, "put", q.call, q.path, 0, q.ip, q.at, Failed(q), Failed(q))
    BY <1>2, <2>3 DEF Fits, LocksAt, LocksIp, AtStages, IpStages
  <2>7. RefsMoved(p, cwd[p], file[p], 0, q.ip, q.at)
    BY <1>1, <1>2, <1>8, RefsTyped DEF RefsMoved, Refs, One, Inums
  <2>8. Found(p, cwd[p], file[p], 0, q.ip, q.at)
    BY <1>3, <1>6 DEF Found
  <2>9. Continues(p, q.path, 0, q.ip, Failed(q))
    BY <1>1, <1>3, <2>3 DEF Continues
  <2> QED
    BY <2>4, <2>5, <2>6, <2>7, <2>8, <2>9, QuietNow
<1>9. ASSUME ref' = ref, Goto(p, q, "parent"), ForParent(q)
      PROVE  FsInv'
  <2>1. Now(p, "parent", q.call, q.path, q.at, q.ip, 0, q.ret)
    BY <1>0, <1>2, <1>9, GotoRec DEF Stages
  <2>2. Frame(p, cwd[p], file[p])
    BY <1>4, <1>5, <1>9, FrameKept, RefsTyped
  <2>3. Fits(p, "parent", q.call, q.path, q.at, q.ip, 0, q.ret, "parent")
    BY <1>2, <1>9 DEF Fits, LocksAt, LocksIp, AtStages, IpStages, ForParent
  <2>4. RefsMoved(p, cwd[p], file[p], q.at, q.ip, 0)
    BY <1>1, <1>2, <1>9, RefsTyped DEF RefsMoved, Refs, One, Inums
  <2>5. Found(p, cwd[p], file[p], q.at, q.ip, 0)
    BY <1>3, <1>6 DEF Found
  <2>6. Continues(p, q.path, q.at, q.ip, "parent")
    BY <1>1, <1>2, <1>3 DEF Continues
  <2> QED
    BY <2>1, <2>2, <2>3, <2>4, <2>5, <2>6, QuietNow
<1>10. PICK next : next = Dirlookup(q.at, Head(q.path))
  OBVIOUS
<1>11. ASSUME next # 0, Iget(next), Len(q.path) = 1, ~ForParent(q),
              PutThen(p, [q EXCEPT !.at = 0, !.ip = next], q.at, "target")
       PROVE  FsInv'
  <2>1. PICK r : r = [q EXCEPT !.at = 0, !.ip = next]
    OBVIOUS
  <2>2. next \in Inums /\ next \in 0 .. ninodes - 1 /\ (Uses(p, next) \/ Named(next)) /\ q.ip = 0
    BY <1>2, <1>3, <1>10, <1>11, LookupNamed DEF Inums, ForParent
  <2>3. r \in CallRec /\ r.call = q.call /\ r.path = q.path /\ r.at = 0 /\ r.ip = next
    BY <1>2, <1>7, <2>1, <2>2 DEF CallRec
  <2>4. Now(p, "put", q.call, q.path, 0, next, q.at, "target")
    BY <1>0, <1>7, <1>11, <2>1, <2>3, PutThenRec DEF Stages
  <2>5. /\ ref' \in [Inums -> Int]
        /\ \A j \in Inums : ref'[j] = ref[j] + One(next, j)
    BY <1>11, <2>2, IgetOne
  <2>6. Frame(p, cwd[p], file[p])
    BY <1>4, <1>5, <2>5, FrameKept
  <2>7. Fits(p, "put", q.call, q.path, 0, next, q.at, "target", "target")
    BY <1>2, <1>11 DEF Fits, LocksAt, LocksIp, AtStages, IpStages
  <2>8. RefsMoved(p, cwd[p], file[p], 0, next, q.at)
    BY <1>1, <1>2, <2>2, <2>5, RefsTyped, SMTT(30) DEF RefsMoved, Refs, One, Inums
  <2>9. Found(p, cwd[p], file[p], 0, next, q.at)
    BY <1>3, <1>6, <2>2 DEF Found
  <2>10. Continues(p, q.path, 0, next, "target")
    BY DEF Continues
  <2> QED
    BY <2>4, <2>6, <2>7, <2>8, <2>9, <2>10, QuietNow
<1>12. ASSUME next # 0, Iget(next), Len(q.path) # 1,
              PutThen(p, [q EXCEPT !.at = next, !.path = Tail(@)], q.at, "walk")
       PROVE  FsInv'
  <2>1. PICK path, r : path = Tail(q.path) /\ r = [q EXCEPT !.at = next, !.path = path]
    OBVIOUS
  <2>2. next \in Inums /\ next \in 0 .. ninodes - 1 /\ (Uses(p, next) \/ Named(next))
    BY <1>2, <1>3, <1>10, <1>12, LookupNamed DEF Inums
  <2>3. path \in Seq(Names \cup {Dot}) /\ path # <<>>
    <3>1. Len(q.path) \in Nat /\ Len(q.path) # 0
      BY <1>2
    <3>2. path \in Seq(Names \cup {Dot}) /\ Len(path) = Len(q.path) - 1
      BY <1>2, <2>1
    <3>3. Len(path) # 0
      BY <1>12, <3>1, <3>2
    <3> QED
      BY <3>2, <3>3, EmptySeq
  <2>4. r \in CallRec /\ r.call = q.call /\ r.path = path /\ r.at = next /\ r.ip = q.ip
    BY <1>2, <2>1, <2>2, <2>3 DEF CallRec
  <2>5. r = [q EXCEPT !.at = next, !.path = Tail(@)]
    BY <1>2, <2>1 DEF CallRec
  <2>6. Now(p, "put", q.call, path, next, q.ip, q.at, "walk")
    BY <1>0, <1>7, <1>12, <2>4, <2>5, PutThenRec DEF Stages
  <2>7. /\ ref' \in [Inums -> Int]
        /\ \A j \in Inums : ref'[j] = ref[j] + One(next, j)
    BY <1>12, <2>2, IgetOne
  <2>8. Frame(p, cwd[p], file[p])
    BY <1>4, <1>5, <2>7, FrameKept
  <2>9. Fits(p, "put", q.call, path, next, q.ip, q.at, "walk", "walk")
    BY <1>2, <1>12, <2>3 DEF Fits, LocksAt, LocksIp, AtStages, IpStages
  <2>10. RefsMoved(p, cwd[p], file[p], next, q.ip, q.at)
    BY <1>1, <1>2, <2>2, <2>7, RefsTyped, SMTT(30) DEF RefsMoved, Refs, One, Inums
  <2>11. Found(p, cwd[p], file[p], next, q.ip, q.at)
    BY <1>3, <1>6, <2>2 DEF Found
  <2>12. Continues(p, path, next, q.ip, "walk")
    BY <1>1, <1>2, <1>3 DEF Continues
  <2> QED
    BY <2>6, <2>8, <2>9, <2>10, <2>11, <2>12, QuietNow
<1>13. \/ ref' = ref /\ PutThen(p, [q EXCEPT !.at = 0], q.at, Failed(q))
       \/ ref' = ref /\ Goto(p, q, "parent") /\ ForParent(q)
       \/ /\ next # 0 /\ Iget(next) /\ Len(q.path) = 1 /\ ~ForParent(q)
          /\ PutThen(p, [q EXCEPT !.at = 0, !.ip = next], q.at, "target")
       \/ /\ next # 0 /\ Iget(next) /\ Len(q.path) # 1
          /\ PutThen(p, [q EXCEPT !.at = next, !.path = Tail(@)], q.at, "walk")
  BY <1>1, <1>10 DEF Walk
<1> QED
  BY <1>8, <1>9, <1>11, <1>12, <1>13

\* The other processes keep their locks when p takes a free one or leaves its own.
LocksSound(p) ==
  /\ lock' \in [Inums -> Procs \cup {NoProc}]
  /\ \A r \in Procs \ {p} : \A i \in Inums : lock[i] = r => lock'[i] = r

LEMMA LockChange ==
  ASSUME FsInv, NEW p \in Procs
  PROVE  /\ lock' = lock => LocksSound(p)
         /\ \A x \in Inums : lock[x] = p /\ lock' = [lock EXCEPT ![x] = NoProc] => LocksSound(p)
         /\ \A x \in Inums : CanLock(x) /\ lock' = [lock EXCEPT ![x] = p] => LocksSound(p)
<1>1. lock \in [Inums -> Procs \cup {NoProc}]
  BY DEF FsInv, FsType
<1> QED
  BY <1>1 DEF LocksSound, CanLock

LEMMA FrameLocks ==
  ASSUME FsInv, NEW p \in Procs, disk' = disk, ent' = ent, calls' = calls, CacheSound,
         cwd' = cwd, file' = file, ref' \in [Inums -> Int], LocksSound(p)
  PROVE  Frame(p, cwd[p], file[p])
<1>1. FsType
  BY DEF FsInv
<1>2. cwd \in [Procs -> Inums] /\ file \in [Procs -> 0 .. ninodes - 1]
  BY <1>1 DEF FsType
<1>3. cwd' = [cwd EXCEPT ![p] = cwd[p]] /\ file' = [file EXCEPT ![p] = file[p]]
  BY <1>2
<1> QED
  BY <1>2, <1>3 DEF Frame, LocksSound

\* The call ends with iput() of the inode it is about.
LEMMA PutIp ==
  ASSUME FsInv, NEW p \in Procs, proc[p].ip # 0, proc[p].at = 0, proc[p].put = 0,
         PutThen(p, [proc[p] EXCEPT !.ip = 0], proc[p].ip, "idle"),
         disk' = disk, ent' = ent, calls' = calls, CacheSound, cwd' = cwd, file' = file,
         ref' = ref, LocksSound(p)
  PROVE  FsInv'
<1>0. FsType /\ Shape
  BY DEF FsInv
<1>1. PICK q : q = proc[p]
  OBVIOUS
<1>2. /\ q \in CallRec /\ q.ip \in Inums /\ q.ip # 0 /\ q.at = 0 /\ q.put = 0
      /\ 0 \in 0 .. ninodes - 1 /\ q.ip \in 0 .. ninodes - 1
  BY <1>0, <1>1, RecOf, ShapeInums DEF Inums
<1>3. PICK r : r = [q EXCEPT !.ip = 0]
  OBVIOUS
<1>4. r \in CallRec /\ r.call = q.call /\ r.path = q.path /\ r.at = 0 /\ r.ip = 0
  BY <1>2, <1>3 DEF CallRec
<1>5. Now(p, "put", q.call, q.path, 0, 0, q.ip, "idle")
  BY <1>0, <1>1, <1>2, <1>3, <1>4, PutThenRec, ZenonT(30) DEF Stages
<1>6. Frame(p, cwd[p], file[p])
  BY FrameLocks, RefsTyped
<1>7. Fits(p, "put", q.call, q.path, 0, 0, q.ip, "idle", "idle")
  BY <1>2 DEF Fits, LocksAt, LocksIp, AtStages, IpStages
<1>8. RefsMoved(p, cwd[p], file[p], 0, 0, q.ip)
  BY <1>1, <1>2, RefsTyped DEF RefsMoved, Refs, One, Inums
<1>9. Found(p, cwd[p], file[p], 0, 0, q.ip)
  BY <1>1 DEF Found, Uses
<1>10. Continues(p, q.path, 0, 0, "idle")
  BY DEF Continues
<1> QED
  BY <1>5, <1>6, <1>7, <1>8, <1>9, <1>10, QuietNow

\* The call goes on to next after iput() of the directory.
LEMMA PutAt ==
  ASSUME FsInv, NEW p \in Procs, proc[p].at # 0, proc[p].put = 0,
         NEW next, \/ next = "idle" /\ proc[p].ip = 0
                   \/ next = "linkbad" /\ proc[p].ip # 0 /\ Owes(proc[p]),
         PutThen(p, [proc[p] EXCEPT !.at = 0], proc[p].at, next),
         disk' = disk, ent' = ent, calls' = calls, CacheSound, cwd' = cwd, file' = file,
         ref' = ref, LocksSound(p)
  PROVE  FsInv'
<1>0. FsType /\ Shape
  BY DEF FsInv
<1>1. PICK q : q = proc[p]
  OBVIOUS
<1>2. /\ q \in CallRec /\ q.at \in Inums /\ q.at # 0 /\ q.put = 0
      /\ 0 \in 0 .. ninodes - 1 /\ q.at \in 0 .. ninodes - 1
      /\ q.ip \in 0 .. ninodes - 1
  BY <1>0, <1>1, RecOf, ShapeInums DEF Inums
<1>3. PICK r : r = [q EXCEPT !.at = 0]
  OBVIOUS
<1>4. r \in CallRec /\ r.call = q.call /\ r.path = q.path /\ r.at = 0 /\ r.ip = q.ip
  BY <1>2, <1>3 DEF CallRec
<1>5. Now(p, "put", q.call, q.path, 0, q.ip, q.at, next)
  <2>1. next \in Stages
    BY DEF Stages
  <2> QED
    BY <1>0, <1>1, <1>2, <1>3, <1>4, <2>1, PutThenRec, ZenonT(30)
<1>6. Frame(p, cwd[p], file[p])
  BY FrameLocks, RefsTyped
<1>7. Fits(p, "put", q.call, q.path, 0, q.ip, q.at, next, next)
  BY <1>1, <1>2 DEF Fits, LocksAt, LocksIp, AtStages, IpStages
<1>8. RefsMoved(p, cwd[p], file[p], 0, q.ip, q.at)
  BY <1>1, <1>2, RefsTyped DEF RefsMoved, Refs, One, Inums
<1>9. Found(p, cwd[p], file[p], 0, q.ip, q.at)
  BY <1>1 DEF Found, Uses
<1>10. Continues(p, q.path, 0, q.ip, next)
  BY <1>1 DEF Continues
<1> QED
  BY <1>5, <1>6, <1>7, <1>8, <1>9, <1>10, QuietNow

\* sys_open() with its inode.
LEMMA OpenedStep ==
  ASSUME FsInv, NEW p \in Procs, proc[p].ip # 0, proc[p].at = 0, proc[p].put = 0,
         Opened(p, proc[p].ip), disk' = disk, ent' = ent, calls' = calls, CacheSound,
         cwd' = cwd, ref' = ref, LocksSound(p)
  PROVE  FsInv'
<1>0. FsType /\ Shape
  BY DEF FsInv
<1>1. CASE file[p] = 0
  <2>1. /\ file' = [file EXCEPT ![p] = proc[p].ip]
        /\ proc' = [proc EXCEPT ![p] = Idle]
    BY <1>1 DEF Opened
  <2>2. PICK i : i = proc[p].ip
    OBVIOUS
  <2>3. i \in Inums /\ i # 0 /\ i \in 0 .. ninodes - 1
    BY <1>0, <2>2, ShapeInums DEF Inums
  <2>4. Now(p, "idle", "none", <<>>, 0, 0, 0, "idle")
    BY <1>0, <2>1, ToIdleRec
  <2>5. Frame(p, cwd[p], i)
    <3>1. cwd \in [Procs -> Inums] /\ cwd' = [cwd EXCEPT ![p] = cwd[p]]
      BY <1>0 DEF FsType
    <3> QED
      BY <2>1, <2>2, <2>3, <3>1, RefsTyped DEF Frame, LocksSound
  <2>6. Fits(p, "idle", "none", <<>>, 0, 0, 0, "idle", "idle")
    BY DEF Fits, LocksAt, LocksIp, AtStages, IpStages
  <2>7. RefsMoved(p, cwd[p], i, 0, 0, 0)
    BY <1>1, <2>2, <2>3, RefsTyped DEF RefsMoved, Refs, One, Inums
  <2>8. Found(p, cwd[p], i, 0, 0, 0)
    BY <2>2 DEF Found, Uses
  <2>9. Continues(p, <<>>, 0, 0, "idle")
    BY DEF Continues
  <2> QED
    BY <2>4, <2>5, <2>6, <2>7, <2>8, <2>9, QuietNow
<1>2. CASE file[p] # 0
  BY <1>2, PutIp DEF Opened
<1> QED
  BY <1>1, <1>2

\* What a process has locked to go on is in memory and allocated.
LEMMA IpLoaded ==
  ASSUME FsInv, NEW p \in Procs, proc[p].ip # 0, Loaded(proc[p].ip), disk' = disk
  PROVE  CacheSound
<1>1. PICK i : i = proc[p].ip
  OBVIOUS
<1>2. i \in Inums /\ Live(i)
  BY <1>1, ShapeInums, UsedLive DEF FsInv, Uses
<1> QED
  BY <1>1, <1>2, LoadedSound DEF FsInv, CacheSound

LEMMA AtLoaded ==
  ASSUME FsInv, NEW p \in Procs, proc[p].at # 0, Loaded(proc[p].at), disk' = disk
  PROVE  CacheSound
<1>1. PICK i : i = proc[p].at
  OBVIOUS
<1>2. i \in Inums /\ Live(i)
  BY <1>1, ShapeInums, UsedLive DEF FsInv, Uses
<1> QED
  BY <1>1, <1>2, LoadedSound DEF FsInv, CacheSound

\* The references of a process that is not in iput(), by where it is.
LEMMA AtStage ==
  ASSUME FsInv, NEW p \in Procs, proc[p].pc \in Stages
  PROVE  /\ proc[p].put = 0 /\ Stage(proc[p]) = proc[p].pc
         /\ proc[p].pc \in {"target", "existing", "made", "erased", "linked", "linkbad"} =>
              proc[p].at = 0 /\ proc[p].ip # 0
         /\ proc[p].pc \in {"new", "unlink", "exists"} => proc[p].at # 0 /\ proc[p].ip # 0
         /\ proc[p].pc = "bad" => proc[p].at # 0 /\ proc[p].ip = 0
         /\ proc[p].pc \in {"walk", "parent"} => proc[p].at # 0
         /\ proc[p].pc = "idle" => proc[p].at = 0 /\ proc[p].ip = 0
         /\ proc[p].pc \in {"walk", "parent"} /\ proc[p].call # "link" => proc[p].ip = 0
         /\ proc[p].pc = "parent" /\ proc[p].call = "link" => proc[p].ip # 0
         /\ proc[p].pc \in {"new", "unlink", "bad", "exists"} => lock[proc[p].at] = p
         /\ proc[p].pc \in {"made", "erased"} => lock[proc[p].ip] = p
<1>1. ShapeOf(proc[p])
  BY DEF FsInv, Shape
<1>2. Stage(proc[p]) = proc[p].pc
  BY DEF Stage, Stages
<1>3. LockOwned
  BY DEF FsInv
<1> QED
  BY <1>1, <1>2, <1>3 DEF ShapeOf, AtStages, IpStages, Stages, LockOwned, LocksAt, LocksIp

LEMMA OpenStep ==
  ASSUME FsInv, NEW p \in Procs, NEW rdonly \in BOOLEAN, Open(p, rdonly)
  PROVE  FsInv'
<1>1. proc[p].at = 0 /\ proc[p].ip # 0 /\ proc[p].put = 0
  BY AtStage DEF Open, Stages
<1>2. CacheSound
  BY <1>1, IpLoaded DEF Open
<1>3. /\ disk' = disk /\ ent' = ent /\ calls' = calls /\ cwd' = cwd /\ ref' = ref /\ lock' = lock
      /\ \/ file' = file /\ PutThen(p, [proc[p] EXCEPT !.ip = 0], proc[p].ip, "idle")
         \/ Opened(p, proc[p].ip)
  BY DEF Open
<1>4. LocksSound(p)
  BY <1>3, LockChange
<1>5. CASE Opened(p, proc[p].ip)
  BY <1>1, <1>2, <1>3, <1>4, <1>5, OpenedStep
<1>6. CASE file' = file /\ PutThen(p, [proc[p] EXCEPT !.ip = 0], proc[p].ip, "idle")
  BY <1>1, <1>2, <1>3, <1>4, <1>6, PutIp
<1> QED
  BY <1>3, <1>5, <1>6

LEMMA CreateExistingStep ==
  ASSUME FsInv, NEW p \in Procs, CreateExisting(p)
  PROVE  FsInv'
<1>1. proc[p].at = 0 /\ proc[p].ip # 0 /\ proc[p].put = 0
  BY AtStage DEF CreateExisting, Stages
<1>2. CacheSound
  BY <1>1, IpLoaded DEF CreateExisting
<1>3. /\ disk' = disk /\ ent' = ent /\ calls' = calls /\ cwd' = cwd /\ ref' = ref /\ lock' = lock
      /\ \/ file' = file /\ PutThen(p, [proc[p] EXCEPT !.ip = 0], proc[p].ip, "idle")
         \/ Opened(p, proc[p].ip)
  BY DEF CreateExisting
<1>4. LocksSound(p)
  BY <1>3, LockChange
<1>5. CASE Opened(p, proc[p].ip)
  BY <1>1, <1>2, <1>3, <1>4, <1>5, OpenedStep
<1>6. CASE file' = file /\ PutThen(p, [proc[p] EXCEPT !.ip = 0], proc[p].ip, "idle")
  BY <1>1, <1>2, <1>3, <1>4, <1>6, PutIp
<1> QED
  BY <1>3, <1>5, <1>6

LEMMA MadeStep ==
  ASSUME FsInv, NEW p \in Procs, Made(p)
  PROVE  FsInv'
<1>1. /\ proc[p].at = 0 /\ proc[p].ip # 0 /\ proc[p].put = 0 /\ lock[proc[p].ip] = p
      /\ proc[p].ip \in Inums
  BY AtStage, ShapeInums DEF Made, Stages, FsInv
<1>2. /\ disk' = disk /\ ent' = ent /\ calls' = calls /\ cwd' = cwd /\ ref' = ref
      /\ cache' = cache /\ valid' = valid /\ lock' = [lock EXCEPT ![proc[p].ip] = NoProc]
      /\ \/ file' = file /\ PutThen(p, [proc[p] EXCEPT !.ip = 0], proc[p].ip, "idle")
         \/ Opened(p, proc[p].ip)
  BY DEF Made
<1>3. CacheSound
  BY <1>2, CacheKept DEF FsInv
<1>4. LocksSound(p)
  BY <1>1, <1>2, LockChange
<1>5. CASE Opened(p, proc[p].ip)
  BY <1>1, <1>2, <1>3, <1>4, <1>5, OpenedStep
<1>6. CASE file' = file /\ PutThen(p, [proc[p] EXCEPT !.ip = 0], proc[p].ip, "idle")
  BY <1>1, <1>2, <1>3, <1>4, <1>6, PutIp
<1> QED
  BY <1>2, <1>5, <1>6

LEMMA LinkedStep ==
  ASSUME FsInv, NEW p \in Procs, Linked(p)
  PROVE  FsInv'
<1>1. proc[p].at = 0 /\ proc[p].ip # 0 /\ proc[p].put = 0
  BY AtStage DEF Linked, Stages
<1>2. /\ disk' = disk /\ ent' = ent /\ calls' = calls /\ cwd' = cwd /\ ref' = ref
      /\ cache' = cache /\ valid' = valid /\ lock' = lock /\ file' = file
      /\ PutThen(p, [proc[p] EXCEPT !.ip = 0], proc[p].ip, "idle")
  BY DEF Linked, inodeVars
<1>3. CacheSound
  BY <1>2, CacheKept DEF FsInv
<1>4. LocksSound(p)
  BY <1>2, LockChange
<1> QED
  BY <1>1, <1>2, <1>3, <1>4, PutIp

LEMMA UnlinkBadStep ==
  ASSUME FsInv, NEW p \in Procs, UnlinkBad(p)
  PROVE  FsInv'
<1>1. /\ proc[p].at # 0 /\ proc[p].ip = 0 /\ proc[p].put = 0 /\ lock[proc[p].at] = p
      /\ proc[p].at \in Inums
  BY AtStage, ShapeInums DEF UnlinkBad, Stages, FsInv
<1>2. /\ disk' = disk /\ ent' = ent /\ calls' = calls /\ cwd' = cwd /\ ref' = ref
      /\ cache' = cache /\ valid' = valid /\ lock' = [lock EXCEPT ![proc[p].at] = NoProc]
      /\ file' = file /\ PutThen(p, [proc[p] EXCEPT !.at = 0], proc[p].at, "idle")
  BY DEF UnlinkBad
<1>3. CacheSound
  BY <1>2, CacheKept DEF FsInv
<1>4. LocksSound(p)
  BY <1>1, <1>2, LockChange
<1> QED
  BY <1>1, <1>2, <1>3, <1>4, PutAt

LEMMA LinkExistsStep ==
  ASSUME FsInv, NEW p \in Procs, LinkExists(p)
  PROVE  FsInv'
<1>1. /\ proc[p].at # 0 /\ proc[p].ip # 0 /\ proc[p].put = 0 /\ lock[proc[p].at] = p
      /\ proc[p].at \in Inums /\ Owes(proc[p])
  BY AtStage, ShapeInums DEF LinkExists, Stages, FsInv, Owes
<1>2. /\ disk' = disk /\ ent' = ent /\ calls' = calls /\ cwd' = cwd /\ ref' = ref
      /\ cache' = cache /\ valid' = valid /\ lock' = [lock EXCEPT ![proc[p].at] = NoProc]
      /\ file' = file /\ PutThen(p, [proc[p] EXCEPT !.at = 0], proc[p].at, "linkbad")
  BY DEF LinkExists
<1>3. CacheSound
  BY <1>2, CacheKept DEF FsInv
<1>4. LocksSound(p)
  BY <1>1, <1>2, LockChange
<1> QED
  BY <1>1, <1>2, <1>3, <1>4, PutAt

LEMMA ChdirStep ==
  ASSUME FsInv, NEW p \in Procs, Chdir(p)
  PROVE  FsInv'
<1>0. FsType /\ Shape
  BY DEF FsInv
<1>1. PICK q : q = proc[p]
  OBVIOUS
<1>2. /\ q \in CallRec /\ q.ip \in Inums /\ q.ip # 0 /\ q.at = 0 /\ q.put = 0
      /\ 0 \in 0 .. ninodes - 1 /\ q.ip \in 0 .. ninodes - 1
      /\ cwd[p] \in Inums /\ cwd[p] \in 0 .. ninodes - 1 /\ cwd[p] # 0
  BY <1>0, <1>1, RecOf, ShapeInums, AtStage DEF Inums, Chdir, Stages
<1>3. CacheSound
  BY <1>1, <1>2, IpLoaded DEF Chdir
<1>4. /\ disk' = disk /\ ent' = ent /\ calls' = calls /\ file' = file /\ ref' = ref /\ lock' = lock
      /\ \/ cwd' = cwd /\ PutThen(p, [q EXCEPT !.ip = 0], q.ip, "idle")
         \/ /\ cwd' = [cwd EXCEPT ![p] = q.ip]
            /\ PutThen(p, [q EXCEPT !.ip = 0], cwd[p], "idle")
  BY <1>1 DEF Chdir
<1>5. LocksSound(p)
  BY <1>4, LockChange
<1>6. CASE cwd' = cwd /\ PutThen(p, [q EXCEPT !.ip = 0], q.ip, "idle")
  BY <1>1, <1>2, <1>3, <1>4, <1>5, <1>6, PutIp
<1>7. CASE /\ cwd' = [cwd EXCEPT ![p] = q.ip]
           /\ PutThen(p, [q EXCEPT !.ip = 0], cwd[p], "idle")
  <2>1. PICK r : r = [q EXCEPT !.ip = 0]
    OBVIOUS
  <2>2. r \in CallRec /\ r.call = q.call /\ r.path = q.path /\ r.at = 0 /\ r.ip = 0
    BY <1>2, <2>1 DEF CallRec
  <2>3. Now(p, "put", q.call, q.path, 0, 0, cwd[p], "idle")
    BY <1>0, <1>2, <1>7, <2>1, <2>2, PutThenRec DEF Stages
  <2>4. Frame(p, q.ip, file[p])
    <3>1. file \in [Procs -> 0 .. ninodes - 1] /\ file' = [file EXCEPT ![p] = file[p]]
      BY <1>0, <1>4 DEF FsType
    <3> QED
      BY <1>2, <1>3, <1>4, <1>5, <1>7, <3>1, RefsTyped DEF Frame, LocksSound
  <2>5. Fits(p, "put", q.call, q.path, 0, 0, cwd[p], "idle", "idle")
    BY <1>2 DEF Fits, LocksAt, LocksIp, AtStages, IpStages
  <2>6. RefsMoved(p, q.ip, file[p], 0, 0, cwd[p])
    BY <1>1, <1>2, <1>4, RefsTyped DEF RefsMoved, Refs, One, Inums
  <2>7. Found(p, q.ip, file[p], 0, 0, cwd[p])
    BY <1>1 DEF Found, Uses
  <2>8. Continues(p, q.path, 0, 0, "idle")
    BY DEF Continues
  <2> QED
    BY <2>3, <2>4, <2>5, <2>6, <2>7, <2>8, QuietNow
<1> QED
  BY <1>4, <1>6, <1>7

LEMMA CloseStep ==
  ASSUME FsInv, NEW p \in Procs, Close(p)
  PROVE  FsInv'
<1>0. FsType /\ Shape
  BY DEF FsInv
<1>1. PICK i : i = file[p]
  OBVIOUS
<1>2. /\ i \in Inums /\ i # 0 /\ i \in 0 .. ninodes - 1 /\ 0 \in 0 .. ninodes - 1
      /\ proc[p].at = 0 /\ proc[p].ip = 0 /\ proc[p].put = 0
  <2>1. i # 0 /\ i \in 0 .. ninodes - 1 /\ 0 \in 0 .. ninodes - 1
    BY <1>0, <1>1, RecOf DEF Close
  <2>2. i \in Inums
    BY <2>1 DEF Inums
  <2>3. proc[p].at = 0 /\ proc[p].ip = 0 /\ proc[p].put = 0
    BY AtStage DEF Close, Stages
  <2> QED
    BY <2>1, <2>2, <2>3
<1>3. /\ disk' = disk /\ ent' = ent /\ calls' = calls /\ ref' = ref /\ lock' = lock /\ cwd' = cwd
      /\ cache' = cache /\ valid' = valid /\ file' = [file EXCEPT ![p] = 0]
      /\ PutThen(p, Idle, i, "idle")
  BY <1>1 DEF Close, inodeVars
<1>4. Now(p, "put", "none", <<>>, 0, 0, i, "idle")
  BY <1>0, <1>2, <1>3, IdleRec, PutThenRec DEF Stages
<1>5. Frame(p, cwd[p], 0)
  <2>1. cwd \in [Procs -> Inums] /\ cwd' = [cwd EXCEPT ![p] = cwd[p]]
    BY <1>0, <1>3 DEF FsType
  <2>2. CacheSound
    BY <1>3, CacheKept DEF FsInv
  <2>3. LocksSound(p)
    BY <1>3, LockChange
  <2> QED
    BY <1>2, <1>3, <2>1, <2>2, <2>3, RefsTyped DEF Frame, LocksSound
<1>6. Fits(p, "put", "none", <<>>, 0, 0, i, "idle", "idle")
  BY <1>2 DEF Fits, LocksAt, LocksIp, AtStages, IpStages
<1>7. RefsMoved(p, cwd[p], 0, 0, 0, i)
  BY <1>1, <1>2, <1>3, RefsTyped DEF RefsMoved, Refs, One, Inums
<1>8. Found(p, cwd[p], 0, 0, 0, i)
  BY <1>1 DEF Found, Uses
<1>9. Continues(p, <<>>, 0, 0, "idle")
  BY DEF Continues
<1> QED
  BY <1>4, <1>5, <1>6, <1>7, <1>8, <1>9, QuietNow

\* unlink() with the directory locked.
LEMMA UnlinkLookupStep ==
  ASSUME FsInv, NEW p \in Procs, UnlinkLookup(p)
  PROVE  FsInv'
<1>0. FsType /\ Shape
  BY DEF FsInv
<1>1. PICK q : q = proc[p]
  OBVIOUS
<1>2. /\ q \in CallRec /\ q.at \in Inums /\ q.at # 0 /\ q.ip = 0 /\ q.put = 0
      /\ 0 \in 0 .. ninodes - 1 /\ q.path # <<>> /\ CanLock(q.at)
  BY <1>0, <1>1, RecOf, ShapeInums, AtStage DEF Inums, UnlinkLookup, Stages, Shape, ShapeOf
<1>3. CacheSound
  BY <1>1, <1>2, AtLoaded DEF UnlinkLookup
<1>4. PICK found : found = Dirlookup(q.at, Head(q.path))
  OBVIOUS
<1>5. /\ disk' = disk /\ ent' = ent /\ calls' = calls /\ file' = file /\ cwd' = cwd
      /\ \/ ref' = ref /\ lock' = lock /\ PutThen(p, [q EXCEPT !.at = 0], q.at, "idle")
         \/ /\ Head(q.path) # Dot /\ found # 0 /\ Iget(found) /\ lock' = [lock EXCEPT ![q.at] = p]
            /\ Goto(p, [q EXCEPT !.ip = found], "unlink")
  BY <1>1, <1>4 DEF UnlinkLookup
<1>6. CASE ref' = ref /\ lock' = lock /\ PutThen(p, [q EXCEPT !.at = 0], q.at, "idle")
  <2>1. LocksSound(p)
    BY <1>6, LockChange
  <2> QED
    BY <1>1, <1>2, <1>3, <1>5, <1>6, <2>1, PutAt
<1>7. CASE /\ Head(q.path) # Dot /\ found # 0 /\ Iget(found) /\ lock' = [lock EXCEPT ![q.at] = p]
           /\ Goto(p, [q EXCEPT !.ip = found], "unlink")
  <2>1. PICK r : r = [q EXCEPT !.ip = found]
    OBVIOUS
  <2>2. /\ found \in Inums /\ found \in 0 .. ninodes - 1 /\ (Uses(p, found) \/ Named(found))
        /\ Head(q.path) \in DOMAIN ent[q.at] /\ ent[q.at][Head(q.path)] = found
    <3>1. found \in Inums /\ (found = q.at \/ Named(found))
      BY <1>2, <1>4, <1>7, LookupNamed
    <3>2. Head(q.path) \in DOMAIN ent[q.at] /\ ent[q.at][Head(q.path)] = found
      BY <1>4, <1>7 DEF Dirlookup
    <3> QED
      BY <1>1, <3>1, <3>2 DEF Inums, Uses
  <2>3. /\ r \in CallRec /\ r.call = q.call /\ r.path = q.path /\ r.at = q.at /\ r.ip = found
        /\ r.put = 0 /\ r.ret = q.ret
    BY <1>2, <2>1, <2>2 DEF CallRec
  <2>4. Now(p, "unlink", q.call, q.path, q.at, found, 0, q.ret)
    BY <1>0, <1>7, <2>1, <2>3, GotoRec DEF Stages
  <2>5. /\ ref' \in [Inums -> Int]
        /\ \A j \in Inums : ref'[j] = ref[j] + One(found, j)
    BY <1>7, <2>2, IgetOne
  <2>6. LocksSound(p)
    BY <1>2, <1>7, LockChange
  <2>7. Frame(p, cwd[p], file[p])
    BY <1>3, <1>5, <2>5, <2>6, FrameLocks
  <2>8. lock'[q.at] = p
    BY <1>0, <1>2, <1>7 DEF FsType
  <2>9. Fits(p, "unlink", q.call, q.path, q.at, found, 0, q.ret, "unlink")
    BY <1>2, <1>7, <2>8 DEF Fits, LocksAt, LocksIp, AtStages, IpStages
  <2>10. RefsMoved(p, cwd[p], file[p], q.at, found, 0)
    BY <1>1, <1>2, <2>2, <2>5, RefsTyped, SMTT(30) DEF RefsMoved, Refs, One, Inums
  <2>11. Found(p, cwd[p], file[p], q.at, found, 0)
    BY <1>1, <2>2 DEF Found, Uses
  <2>12. Continues(p, q.path, q.at, found, "unlink")
    BY <2>2 DEF Continues
  <2> QED
    BY <2>4, <2>7, <2>9, <2>10, <2>11, <2>12, QuietNow
<1> QED
  BY <1>5, <1>6, <1>7

LEMMA UnlinkBusyStep ==
  ASSUME FsInv, NEW p \in Procs, UnlinkBusy(p)
  PROVE  FsInv'
<1>0. FsType /\ Shape
  BY DEF FsInv
<1>1. PICK q : q = proc[p]
  OBVIOUS
<1>2. /\ q \in CallRec /\ q.at # 0 /\ q.ip \in Inums /\ q.ip # 0 /\ q.put = 0
      /\ 0 \in 0 .. ninodes - 1 /\ q.ip \in 0 .. ninodes - 1 /\ lock[q.at] = p
  BY <1>0, <1>1, RecOf, ShapeInums, AtStage DEF Inums, UnlinkBusy, Stages
<1>3. CacheSound
  BY <1>1, <1>2, IpLoaded DEF UnlinkBusy
<1>4. /\ disk' = disk /\ ent' = ent /\ calls' = calls /\ file' = file /\ cwd' = cwd
      /\ ref' = ref /\ lock' = lock /\ PutThen(p, [q EXCEPT !.ip = 0], q.ip, "bad")
  BY <1>1 DEF UnlinkBusy
<1>5. PICK r : r = [q EXCEPT !.ip = 0]
  OBVIOUS
<1>6. r \in CallRec /\ r.call = q.call /\ r.path = q.path /\ r.at = q.at /\ r.ip = 0
  BY <1>2, <1>5 DEF CallRec
<1>7. Now(p, "put", q.call, q.path, q.at, 0, q.ip, "bad")
  BY <1>0, <1>2, <1>4, <1>5, <1>6, PutThenRec DEF Stages
<1>8. Frame(p, cwd[p], file[p])
  BY <1>3, <1>4, FrameKept, RefsTyped
<1>9. Fits(p, "put", q.call, q.path, q.at, 0, q.ip, "bad", "bad")
  BY <1>2, <1>4 DEF Fits, LocksAt, LocksIp, AtStages, IpStages
<1>10. RefsMoved(p, cwd[p], file[p], q.at, 0, q.ip)
  BY <1>1, <1>2, <1>4, RefsTyped DEF RefsMoved, Refs, One, Inums
<1>11. Found(p, cwd[p], file[p], q.at, 0, q.ip)
  BY <1>1 DEF Found, Uses
<1>12. Continues(p, q.path, q.at, 0, "bad")
  BY DEF Continues
<1> QED
  BY <1>7, <1>8, <1>9, <1>10, <1>11, <1>12, QuietNow

\* iput() of an inode that stays.
LEMMA IputKeep ==
  ASSUME FsInv, NEW p \in Procs, proc[p].pc = "put", Goto(p, proc[p], "drop"),
         disk' = disk, ent' = ent, calls' = calls, cwd' = cwd, file' = file, ref' = ref,
         lock' = lock, cache' = cache, valid' = valid
  PROVE  FsInv'
<1>0. FsType /\ Shape
  BY DEF FsInv
<1>1. PICK q : q = proc[p]
  OBVIOUS
<1>2. q \in CallRec /\ q.put # 0 /\ Stage(q) = q.ret /\ q.pc = "put" /\ ShapeOf(q)
  BY <1>0, <1>1, RecOf DEF Shape, ShapeOf, Stage
<1>3. Now(p, "drop", q.call, q.path, q.at, q.ip, q.put, q.ret)
  BY <1>0, <1>1, <1>2, GotoRec
<1>4. Frame(p, cwd[p], file[p])
  <2>1. CacheSound
    BY CacheKept DEF FsInv
  <2> QED
    BY <2>1, FrameKept, RefsTyped
<1>5. Fits(p, "drop", q.call, q.path, q.at, q.ip, q.put, q.ret, q.ret)
  <2>1. /\ q.ret \in LocksAt => lock'[q.at] = p
        /\ q.ret \in LocksIp => lock'[q.ip] = p
    BY <1>1, <1>2 DEF FsInv, LockOwned
  <2> QED
    BY <1>2, <2>1 DEF Fits, ShapeOf
<1>6. RefsMoved(p, cwd[p], file[p], q.at, q.ip, q.put)
  BY <1>1, RefsTyped DEF RefsMoved, Refs, One
<1>7. Found(p, cwd[p], file[p], q.at, q.ip, q.put)
  BY <1>1, <1>2 DEF Found, Uses
<1>8. Continues(p, q.path, q.at, q.ip, q.ret)
  BY <1>1, <1>2 DEF Continues, Owes, ShapeOf
<1> QED
  BY <1>3, <1>4, <1>5, <1>6, <1>7, <1>8, QuietNow

-----------------------------------------------------------------------------
(* Steps that change inodes on disk or directories.                         *)

\* Only p's own inodes and free ones change, not the directories others have locked,
\* nor the types of inodes others use.
Touches(p) ==
  /\ \A x \in Inums : \/ disk'[x] = disk[x] /\ ent'[x] = ent[x]
                      \/ ~Live(x) \/ Uses(p, x)
  /\ \A x \in Inums, r \in Procs \ {p} : lock[x] = r => ent'[x] = ent[x]
  /\ \A x \in Inums, r \in Procs \ {p} : Uses(r, x) => disk'[x].type = disk[x].type

LEMMA ChangeStep ==
  ASSUME FsInv, NEW p \in Procs, Only(p), FsType', Cached', Alive', LinkBook',
         ShapeOf(proc'[p]), LocksKept(p), Touches(p),
         \A i \in Inums : ref'[i] = ref[i] + Change(p, i),
         \A i \in Inums : Uses(p, i)' => Uses(p, i) \/ Named(i) \/ ~Live(i),
         Stage(proc'[p]) # "unlink",
         Stage(proc'[p]) = "new" => Fresh(p)',
         Stage(proc'[p]) \in {"walk", "parent"} /\ proc'[p].ip # 0 =>
           disk'[proc'[p].ip].type # "DIR"
  PROVE  FsInv'
<1>0. FsType /\ Shape /\ LockOwned /\ RefsExact /\ LinkBook
  BY DEF FsInv
<1>1. Shape' /\ LockOwned' /\ RefsExact'
  BY <1>0, ShapeStep, LockStep, RefsStep
<1>2. Erasing'
  <2> SUFFICES ASSUME NEW r \in Procs, Stage(proc'[r]) = "unlink"
               PROVE  /\ Head(proc'[r].path) \in DOMAIN ent'[proc'[r].at]
                      /\ ent'[proc'[r].at][Head(proc'[r].path)] = proc'[r].ip
    BY DEF Erasing, EntryOf
  <2>1. r # p /\ proc'[r] = proc[r]
    BY DEF Only
  <2>2. EntryOf(proc[r])
    BY <2>1 DEF FsInv, Erasing
  <2>3. proc[r].at \in Inums /\ lock[proc[r].at] = r
    BY <1>0, <2>1, ShapeInums DEF LockOwned, LocksAt, AtStages
  <2>4. ent'[proc[r].at] = ent[proc[r].at]
    BY <2>1, <2>3 DEF Touches
  <2> QED
    BY <2>1, <2>2, <2>4 DEF EntryOf
<1>3. Making'
  <2> SUFFICES ASSUME NEW r \in Procs, Stage(proc'[r]) = "new", r # p PROVE Fresh(r)'
    BY DEF Making
  <2>1. proc'[r] = proc[r] /\ cwd'[r] = cwd[r] /\ file'[r] = file[r]
    BY DEF Only
  <2>2. Fresh(r)
    BY <2>1 DEF FsInv, Making
  <2>3. PICK x : x = proc[r].ip
    OBVIOUS
  <2>4. x \in Inums /\ proc[r].at \in Inums /\ lock[proc[r].at] = r
    BY <1>0, <2>1, <2>3, ShapeInums DEF LockOwned, LocksAt, AtStages, IpStages
  <2>5. Live(x)
    BY <2>3, <2>4, UsedLive DEF Uses
  <2>6. \A s \in Procs \ {r} : ~Uses(s, x)
    BY <2>2, <2>3 DEF Fresh
  <2>7. disk'[x] = disk[x] /\ ent'[x] = ent[x] /\ ent'[proc[r].at] = ent[proc[r].at]
    BY <2>4, <2>5, <2>6 DEF Touches
  <2>8. ASSUME NEW s \in Procs \ {r} PROVE ~Uses(s, x)'
    <3>1. ~Named(x)
      BY <1>0, <2>2, <2>3, <2>4, NamedLinked DEF Fresh
    <3> QED
      BY <2>4, <2>5, <2>6, <3>1, OthersUse
  <2>9. \A s \in Procs \ {r} : ~Uses(s, proc[r].ip)'
    BY <2>1, <2>3, <2>8 DEF Uses
  <2> QED
    BY <2>1, <2>2, <2>3, <2>7, <2>9 DEF Fresh, Uses
<1>4. Linking'
  <2> SUFFICES ASSUME NEW r \in Procs, Stage(proc'[r]) \in {"walk", "parent"},
                      proc'[r].ip # 0, r # p
               PROVE  disk'[proc'[r].ip].type # "DIR"
    BY DEF Linking
  <2>1. proc'[r] = proc[r]
    BY DEF Only
  <2>2. proc[r].ip \in Inums /\ Uses(r, proc[r].ip)
    BY <1>0, <2>1, ShapeInums DEF Uses
  <2>3. disk[proc[r].ip].type # "DIR"
    BY <2>1 DEF FsInv, Linking
  <2> QED
    BY <2>1, <2>2, <2>3 DEF Touches
<1> QED
  BY <1>1, <1>2, <1>3, <1>4 DEF FsInv

\* No inode is freed: what is used and named stays allocated.
LEMMA AliveStep ==
  ASSUME FsInv, NEW p \in Procs, Only(p),
         \A x \in Inums : Live(x) => disk'[x].type = disk[x].type,
         \A i \in Inums : Uses(p, i)' => disk'[i].type # "none",
         \A x \in Inums : \A n \in DOMAIN ent'[x] :
           \/ n \in DOMAIN ent[x] /\ ent'[x][n] = ent[x][n]
           \/ disk'[ent'[x][n]].type # "none",
         \A x \in Inums : DOMAIN ent'[x] \subseteq DOMAIN ent[x] \/ disk'[x].type # "none"
  PROVE  Alive'
<1>0. Alive /\ FsType
  BY DEF FsInv
<1>1. ASSUME NEW i \in Inums, NEW r \in Procs, Uses(r, i)' PROVE Live(i)'
  <2>1. CASE r = p
    BY <1>1, <2>1 DEF Live
  <2>2. CASE r # p
    <3>1. Live(i)
      BY <1>1, <2>2, OthersUse, UsedLive
    <3> QED
      BY <3>1 DEF Live
  <2> QED
    BY <2>1, <2>2
<1>2. ASSUME NEW i \in Inums, NEW n \in DOMAIN ent'[i] PROVE disk'[ent'[i][n]].type # "none"
  <2>1. CASE n \in DOMAIN ent[i] /\ ent'[i][n] = ent[i][n]
    <3>1. ent[i][n] \in Inums /\ Live(ent[i][n])
      BY <1>0, <2>1 DEF Alive, FsType
    <3> QED
      BY <2>1, <3>1 DEF Live
  <2> QED
    BY <2>1
<1>3. ASSUME NEW i \in Inums, disk'[i].type = "none" PROVE DOMAIN ent'[i] = {}
  <2>1. ~Live(i)
    BY <1>3 DEF Live
  <2>2. DOMAIN ent[i] = {}
    BY <1>0, <2>1 DEF Alive
  <2> QED
    BY <1>3, <2>2
<1>4. disk'[ROOTINO].type = "DIR"
  BY <1>0 DEF Alive, Live, Inums
<1> QED
  BY <1>1, <1>2, <1>3, <1>4 DEF Alive, Live

\* An inode with one reference is used by the process that has it alone.
LEMMA SoleHolder ==
  ASSUME FsInv, NEW p \in Procs, NEW i \in Inums, proc[p].put = i, ref[i] = 1
  PROVE  /\ \A r \in Procs \ {p} : ~Uses(r, i)
         /\ cwd[p] # i /\ file[p] # i /\ proc[p].at # i /\ proc[p].ip # i
<1>1. IsFiniteSet(Holders(i)) /\ Cardinality(Holders(i)) = 1
  BY CountedFinite DEF FsInv, RefsExact
<1>2. PICK h : Holders(i) = {h}
  BY <1>1, FS_Singleton
<1>3. <<p, "put">> \in Holders(i)
  BY HoldersOf
<1>4. h = <<p, "put">>
  BY <1>2, <1>3
<1>5. ASSUME NEW r \in Procs, NEW k, <<r, k>> \in Holders(i) PROVE r = p /\ k = "put"
  BY <1>2, <1>4, <1>5
<1>6. ASSUME NEW r \in Procs \ {p} PROVE ~Uses(r, i)
  BY <1>5, HoldersOf DEF Uses
<1>7. /\ <<p, "cwd">> \notin Holders(i) /\ <<p, "file">> \notin Holders(i)
      /\ <<p, "at">> \notin Holders(i) /\ <<p, "ip">> \notin Holders(i)
  BY <1>2, <1>4
<1> QED
  BY <1>6, <1>7, HoldersOf, ZenonT(30)

\* No links, no names.
LEMMA Unlinked ==
  ASSUME FsInv, NEW i \in Inums, disk[i].nlink = 0
  PROVE  /\ ~Named(i) /\ i # ROOTINO
         /\ Cardinality(NamesOf(i)) = 0 /\ Cardinality(SubdirsOf(i)) = 0
         /\ Cardinality(Debt(i)) = 0
<1>0. FsType /\ LinkBook
  BY DEF FsInv
<1>1. /\ Cardinality(NamesOf(i)) \in Nat /\ Cardinality(SubdirsOf(i)) \in Nat
      /\ Cardinality(Debt(i)) \in Nat
  BY <1>0, CountedFinite
<1>2. 0 >= Cardinality(NamesOf(i)) + Cardinality(SubdirsOf(i)) + Cardinality(Debt(i))
             + (IF i = ROOTINO THEN 1 ELSE 0)
  BY <1>0 DEF LinkBook
<1>3. ~Named(i)
  BY <1>0, NamedLinked
<1> QED
  BY <1>1, <1>2, <1>3 DEF Named

\* With names, subdirectories and debts no more than they were, the counts suffice.
LEMMA LinkBookFewer ==
  ASSUME FsInv, NEW i \in Inums, disk'[i].nlink = disk[i].nlink,
         NamesOf(i)' \subseteq NamesOf(i), SubdirsOf(i)' \subseteq SubdirsOf(i),
         Debt(i)' \subseteq Debt(i)
  PROVE  disk'[i].nlink >= Cardinality(NamesOf(i)') + Cardinality(SubdirsOf(i)')
                           + Cardinality(Debt(i)') + (IF i = ROOTINO THEN 1 ELSE 0)
<1>0. FsType /\ LinkBook
  BY DEF FsInv
<1>1. /\ IsFiniteSet(NamesOf(i)) /\ IsFiniteSet(SubdirsOf(i)) /\ IsFiniteSet(Debt(i))
      /\ Cardinality(NamesOf(i)) \in Nat /\ Cardinality(SubdirsOf(i)) \in Nat
      /\ Cardinality(Debt(i)) \in Nat
  BY <1>0, CountedFinite
<1>2. ASSUME NEW A, NEW B, IsFiniteSet(A), B \subseteq A
      PROVE  Cardinality(B) \in Nat /\ Cardinality(B) <= Cardinality(A)
  <2>1. IsFiniteSet(B) /\ Cardinality(B) <= Cardinality(A)
    BY <1>2, FS_Subset
  <2> QED
    BY <2>1, FS_CardinalityType
<1>3. /\ Cardinality(NamesOf(i)') \in Nat /\ Cardinality(NamesOf(i)') <= Cardinality(NamesOf(i))
      /\ Cardinality(SubdirsOf(i)') \in Nat
      /\ Cardinality(SubdirsOf(i)') <= Cardinality(SubdirsOf(i))
      /\ Cardinality(Debt(i)') \in Nat /\ Cardinality(Debt(i)') <= Cardinality(Debt(i))
  BY <1>1, <1>2
<1>4. disk[i].nlink >= Cardinality(NamesOf(i)) + Cardinality(SubdirsOf(i))
                       + Cardinality(Debt(i)) + (IF i = ROOTINO THEN 1 ELSE 0)
  BY <1>0 DEF LinkBook
<1>5. disk[i].nlink \in Int
  BY <1>0 DEF FsType
<1> QED
  BY <1>1, <1>3, <1>4, <1>5

LEMMA LinkBookAll ==
  ASSUME \A i \in Inums :
           disk'[i].nlink >= Cardinality(NamesOf(i)') + Cardinality(SubdirsOf(i)')
                             + Cardinality(Debt(i)') + (IF i = ROOTINO THEN 1 ELSE 0)
  PROVE  LinkBook'
BY DEF LinkBook

\* iput() frees an inode.
LEMMA IputFree ==
  ASSUME FsInv, NEW p \in Procs, NEW i, i = proc[p].put, proc[p].pc = "put",
         CanLock(i), valid[i], cache[i].nlink = 0, ref[i] = 1,
         disk' = [disk EXCEPT ![i] = Free], cache' = [cache EXCEPT ![i] = Free],
         ent' = [ent EXCEPT ![i] = NoEntries], valid' = [valid EXCEPT ![i] = FALSE],
         Goto(p, proc[p], "drop"), UNCHANGED <<ref, lock, file, cwd, calls>>
  PROVE  FsInv'
<1>0. FsType /\ Shape /\ Cached /\ Alive /\ LockOwned
  BY DEF FsInv
<1>1. PICK q : q = proc[p]
  OBVIOUS
<1>2. /\ q \in CallRec /\ q.put = i /\ Stage(q) = q.ret /\ ShapeOf(q) /\ i \in Inums
  BY <1>0, <1>1, RecOf, ShapeInums DEF Shape, ShapeOf, Stage
<1>3. Now(p, "drop", q.call, q.path, q.at, q.ip, i, q.ret)
  BY <1>0, <1>1, <1>2, GotoRec
<1>4. disk[i].nlink = 0 /\ disk[i] = cache[i]
  BY <1>0, <1>2 DEF Cached
<1>5. ~Named(i) /\ i # ROOTINO
  BY <1>2, <1>4, Unlinked
<1>6. /\ \A r \in Procs \ {p} : ~Uses(r, i)
      /\ cwd[p] # i /\ file[p] # i /\ q.at # i /\ q.ip # i
  BY <1>1, <1>2, SoleHolder
<1>7. Only(p)
  BY <1>3 DEF Now, Only
<1>8. /\ \A x \in Inums \ {i} : disk'[x] = disk[x] /\ ent'[x] = ent[x]
      /\ disk'[i] = Free /\ ent'[i] = NoEntries /\ DOMAIN ent' = Inums
      /\ disk'[i].type = "none" /\ disk'[i].nlink = 0 /\ DOMAIN ent'[i] = {}
  BY <1>0, <1>2 DEF FsType, Free, NoEntries
<1>9. FsType'
  <2>1. Free \in [type : FileTypes, nlink : Int]
    BY DEF Free, FileTypes
  <2>2. /\ disk' \in [Inums -> [type : FileTypes, nlink : Int]]
        /\ cache' \in [Inums -> [type : FileTypes, nlink : Int]]
        /\ valid' \in [Inums -> BOOLEAN]
    BY <1>0, <1>2, <2>1 DEF FsType
  <2>3. \A x \in Inums : /\ DOMAIN ent'[x] \subseteq Names
                         /\ \A n \in DOMAIN ent'[x] : ent'[x][n] \in Inums
    BY <1>0, <1>8 DEF FsType
  <2> QED
    BY <1>0, <1>3, <1>8, <2>2, <2>3 DEF FsType, Now
<1>10. Cached'
  BY <1>0, <1>2 DEF Cached, FsType
<1>11. Stage(proc'[p]) = Stage(proc[p]) /\ ShapeOf(proc'[p])
  <2>1. Stage(proc'[p]) = Stage(proc[p])
    BY <1>1, <1>2, <1>3 DEF Stage, Now
  <2> QED
    BY <1>1, <1>2, <1>3, <2>1 DEF Now, ShapeOf
<1>12. LocksKept(p)
  BY <1>0, <1>1, <1>3, <1>11 DEF LocksKept, LockOwned, Now
<1>13. \A j \in Inums : ref'[j] = ref[j] + Change(p, j)
  BY <1>1, <1>2, <1>3, RefsTyped DEF Now, Change, One
<1>14. \A j \in Inums : Uses(p, j)' => Uses(p, j) /\ j # i
  BY <1>1, <1>3, <1>6 DEF Now, Uses
<1>15. Alive'
  <2>1. ASSUME NEW j \in Inums, NEW r \in Procs, Uses(r, j)' PROVE disk'[j].type # "none"
    <3>1. Uses(r, j) /\ j # i
      BY <1>6, <1>7, <1>14, <2>1, OthersUse
    <3> QED
      BY <1>8, <3>1, UsedLive DEF Live
  <2>2. ASSUME NEW j \in Inums, NEW n \in DOMAIN ent'[j] PROVE disk'[ent'[j][n]].type # "none"
    <3>1. j # i /\ ent'[j] = ent[j]
      BY <1>8
    <3>2. ent[j][n] \in Inums \ {i}
      BY <1>0, <1>5, <3>1 DEF FsType, Named
    <3> QED
      BY <1>0, <1>8, <3>1, <3>2 DEF Alive, Live
  <2>3. ASSUME NEW j \in Inums, disk'[j].type = "none" PROVE DOMAIN ent'[j] = {}
    BY <1>0, <1>8, <2>3 DEF Alive, Live
  <2>4. disk'[ROOTINO].type = "DIR"
    BY <1>0, <1>5, <1>8 DEF Alive, Inums
  <2> QED
    BY <2>1, <2>2, <2>3, <2>4 DEF Alive, Live
<1>16. LinkBook'
  <2>1. ASSUME NEW j \in Inums
        PROVE  /\ disk'[j].nlink = disk[j].nlink /\ NamesOf(j)' \subseteq NamesOf(j)
               /\ SubdirsOf(j)' \subseteq SubdirsOf(j) /\ Debt(j)' \subseteq Debt(j)
    <3>1. disk'[j].nlink = disk[j].nlink
      BY <1>4, <1>8
    <3>2. NamesOf(j)' \subseteq NamesOf(j)
      BY <1>8 DEF NamesOf, NamesIn
    <3>3. SubdirsOf(j)' \subseteq SubdirsOf(j)
      <4> SUFFICES ASSUME NEW n \in SubdirsOf(j)' PROVE n \in SubdirsOf(j)
        OBVIOUS
      <4>1. n \in DOMAIN ent'[j] /\ disk'[ent'[j][n]].type = "DIR"
        BY DEF SubdirsOf, SubdirsIn
      <4>2. j # i /\ ent'[j] = ent[j] /\ ent[j][n] \in Inums
        BY <1>0, <1>8, <4>1 DEF FsType
      <4> QED
        BY <1>8, <4>1, <4>2 DEF SubdirsOf, SubdirsIn
    <3>4. Debt(j)' \subseteq Debt(j)
      BY <1>1, <1>3, <1>7, <1>11 DEF Debt, Owes, Only, Now
    <3> QED
      BY <3>1, <3>2, <3>3, <3>4
  <2> QED
    BY <2>1, LinkBookFewer, LinkBookAll
<1>17. Touches(p)
  <2>1. Uses(p, i) /\ \A r \in Procs \ {p} : lock[i] # r
    BY <1>1, <1>2 DEF Uses, CanLock
  <2> QED
    BY <1>6, <1>8, <2>1 DEF Touches
<1>18. /\ Stage(proc'[p]) \notin {"unlink", "new"}
       /\ Stage(proc'[p]) \in {"walk", "parent"} /\ proc'[p].ip # 0 =>
            disk'[proc'[p].ip].type # "DIR"
  <2>1. Stage(proc'[p]) \notin {"unlink", "new"}
    BY <1>1, <1>2, <1>11 DEF ShapeOf
  <2>2. ASSUME Stage(proc'[p]) \in {"walk", "parent"}, proc'[p].ip # 0
        PROVE  disk'[proc'[p].ip].type # "DIR"
    <3>1. proc'[p].ip = q.ip /\ q.ip \in Inums \ {i}
      BY <1>0, <1>1, <1>3, <1>6, <2>2, ShapeInums DEF Now
    <3>2. disk[q.ip].type # "DIR"
      BY <1>1, <1>11, <2>2, <3>1 DEF FsInv, Linking
    <3> QED
      BY <1>8, <3>1, <3>2
  <2> QED
    BY <2>1, <2>2
<1> QED
  BY <1>7, <1>9, <1>10, <1>11, <1>12, <1>13, <1>14, <1>15, <1>16, <1>17, <1>18, ChangeStep

LEMMA IputTestStep ==
  ASSUME FsInv, NEW p \in Procs, IputTest(p)
  PROVE  FsInv'
<1>1. PICK i : i = proc[p].put
  OBVIOUS
<1>2. i \in Inums /\ valid \in [Inums -> BOOLEAN]
  BY <1>1, ShapeInums DEF FsInv, IputTest, Shape, ShapeOf, FsType
<1>3. CASE valid[i] /\ cache[i].nlink = 0 /\ ref[i] = 1
  <2>1. valid' = [valid EXCEPT ![i] = FALSE]
    BY <1>1, <1>3 DEF IputTest
  <2> QED
    BY <1>1, <1>3, <2>1, IputFree DEF IputTest
<1>4. CASE ~(valid[i] /\ cache[i].nlink = 0 /\ ref[i] = 1)
  <2>1. valid' = valid
    BY <1>1, <1>2, <1>4 DEF IputTest
  <2> QED
    BY <1>1, <1>4, <2>1, IputKeep DEF IputTest
<1> QED
  BY <1>3, <1>4

\* iupdate() of an inode that stays allocated.
LEMMA IupdateSound ==
  ASSUME FsInv, NEW i \in Inums, NEW v \in [type : FileTypes, nlink : Int], v.type # "none",
         Iupdate(i, v)
  PROVE  /\ CacheSound /\ disk' \in [Inums -> [type : FileTypes, nlink : Int]]
         /\ disk'[i] = v /\ \A x \in Inums \ {i} : disk'[x] = disk[x]
<1>1. /\ cache \in [Inums -> InodeSet] /\ disk \in [Inums -> InodeSet]
      /\ valid \in [Inums -> BOOLEAN] /\ v \in InodeSet /\ Cached
  BY DEF FsInv, FsType, InodeSet
<1>2. /\ cache' = [cache EXCEPT ![i] = v] /\ disk' = [disk EXCEPT ![i] = v]
      /\ valid' = [valid EXCEPT ![i] = TRUE]
  BY DEF Iupdate
<1>3. cache' \in [Inums -> InodeSet] /\ disk' \in [Inums -> InodeSet]
      /\ valid' \in [Inums -> BOOLEAN]
  BY <1>1, <1>2
<1>4. Cached'
  BY <1>1, <1>2 DEF Cached
<1> QED
  BY <1>1, <1>2, <1>3, <1>4 DEF CacheSound, InodeSet

\* The inode p works on, with its link count set.
LEMMA NlinkSet ==
  ASSUME FsInv, NEW i \in Inums, Live(i), NEW v, NEW k \in Int,
         v = [Inode(i) EXCEPT !.nlink = k]
  PROVE  /\ v \in [type : FileTypes, nlink : Int] /\ v.type = disk[i].type /\ v.nlink = k
         /\ v.type # "none"
<1>1. Inode(i) = disk[i] /\ disk[i] \in [type : FileTypes, nlink : Int]
  BY InodeDisk DEF FsInv, FsType
<1> QED
  BY <1>1 DEF Live

\* The book of links when counts follow the debts.
LEMMA LinkBookDebts ==
  ASSUME FsInv, NEW p \in Procs, Only(p), ent' = ent,
         \A x \in Inums : disk'[x].type = disk[x].type,
         \A x \in Inums : disk'[x].nlink = disk[x].nlink
           + (IF Owes(proc'[p]) /\ proc'[p].ip = x THEN 1 ELSE 0)
           - (IF Owes(proc[p]) /\ proc[p].ip = x THEN 1 ELSE 0)
  PROVE  LinkBook'
<1>0. FsType /\ LinkBook
  BY DEF FsInv
<1> SUFFICES ASSUME NEW i \in Inums
             PROVE  disk'[i].nlink >= Cardinality(NamesOf(i)') + Cardinality(SubdirsOf(i)')
                             + Cardinality(Debt(i)') + (IF i = ROOTINO THEN 1 ELSE 0)
  BY LinkBookAll
<1>1. NamesOf(i)' = NamesOf(i)
  BY DEF NamesOf
<1>2. SubdirsOf(i)' = SubdirsOf(i)
  BY <1>0, SMTT(30) DEF SubdirsOf, SubdirsIn, FsType
<1>3. /\ Cardinality(Debt(i)) \in Nat /\ Cardinality(Debt(i)') \in Nat
      /\ Cardinality(Debt(i)') = Cardinality(Debt(i)) + disk'[i].nlink - disk[i].nlink
  <2> DEFINE a == IF Owes(proc'[p]) /\ proc'[p].ip = i THEN 1 ELSE 0
             b == IF Owes(proc[p]) /\ proc[p].ip = i THEN 1 ELSE 0
  <2>1. /\ Cardinality(Debt(i)) \in Nat /\ Cardinality(Debt(i)') \in Nat
        /\ Cardinality(Debt(i)') = Cardinality(Debt(i)) + a - b
    BY <1>0, DebtStep
  <2>2. disk'[i].nlink = disk[i].nlink + a - b /\ disk[i].nlink \in Int
    BY <1>0 DEF FsType
  <2>3. a \in Int /\ b \in Int
    OBVIOUS
  <2> HIDE DEF a, b
  <2> QED
    BY <2>1, <2>2, <2>3
<1>4. /\ disk[i].nlink >= Cardinality(NamesOf(i)) + Cardinality(SubdirsOf(i))
                       + Cardinality(Debt(i)) + (IF i = ROOTINO THEN 1 ELSE 0)
      /\ disk[i].nlink \in Int /\ disk'[i].nlink \in Int
      /\ Cardinality(NamesOf(i)) \in Nat /\ Cardinality(SubdirsOf(i)) \in Nat
  <2>1. disk[i].nlink \in Int
    BY <1>0 DEF FsType
  <2>2. disk'[i].nlink \in Int
    BY <2>1
  <2>3. Cardinality(NamesOf(i)) \in Nat /\ Cardinality(SubdirsOf(i)) \in Nat
    BY <1>0, CountedFinite
  <2> QED
    BY <1>0, <2>1, <2>2, <2>3 DEF LinkBook
<1> QED
  BY <1>1, <1>2, <1>3, <1>4, SMTT(30)

\* Whether a process at stage st with inode ip owes inode i a link.
Claim(ip, st, i) ==
  IF ip = i /\ st \in {"walk", "parent", "exists", "linkbad", "erased"} THEN 1 ELSE 0

\* A link count goes up or down and p goes on.
LEMMA CountStep ==
  ASSUME FsInv, NEW p \in Procs, NEW i \in Inums, Uses(p, i), NEW k \in Int,
         Iupdate(i, [Inode(i) EXCEPT !.nlink = k]),
         ent' = ent, calls' = calls, cwd' = cwd, file' = file,
         NEW pc, NEW call, NEW path, NEW at, NEW ip, NEW put, NEW ret, NEW st,
         Now(p, pc, call, path, at, ip, put, ret),
         Fits(p, pc, call, path, at, ip, put, ret, st), LocksSound(p),
         ref' \in [Inums -> Int], RefsMoved(p, cwd[p], file[p], at, ip, put),
         Found(p, cwd[p], file[p], at, ip, put), st # "unlink",
         k = disk[i].nlink + Claim(ip, st, i)
               - (IF Owes(proc[p]) /\ proc[p].ip = i THEN 1 ELSE 0),
         Owes(proc[p]) => proc[p].ip = i,
         ip \in {0, i},
         st \in {"walk", "parent"} /\ ip # 0 => disk[i].type # "DIR"
  PROVE  FsInv'
<1>0. FsType /\ Shape /\ Cached /\ Alive
  BY DEF FsInv
<1>1. PICK v : v = [Inode(i) EXCEPT !.nlink = k]
  OBVIOUS
<1>2. Live(i)
  BY UsedLive
<1>3. /\ v \in [type : FileTypes, nlink : Int] /\ v.type = disk[i].type /\ v.nlink = k
      /\ v.type # "none"
  BY <1>1, <1>2, NlinkSet
<1>4. /\ CacheSound /\ disk' \in [Inums -> [type : FileTypes, nlink : Int]]
      /\ disk'[i] = v /\ \A x \in Inums \ {i} : disk'[x] = disk[x]
  BY <1>1, <1>3, IupdateSound
<1>5. /\ \A x \in Inums : disk'[x].type = disk[x].type
      /\ disk'[i].nlink = k
  BY <1>3, <1>4
<1>6. Only(p)
  BY DEF Now, Only
<1>7. /\ proc'[p].pc = pc /\ proc'[p].call = call /\ proc'[p].path = path /\ proc'[p].at = at
      /\ proc'[p].ip = ip /\ proc'[p].put = put /\ proc'[p].ret = ret
      /\ proc' \in [Procs -> CallRec]
  BY DEF Now
<1>8. FsType'
  BY <1>0, <1>4, <1>7 DEF FsType, CacheSound, LocksSound
<1>9. Cached'
  BY <1>4 DEF CacheSound
<1>10. Stage(proc'[p]) = st /\ st # "new"
  BY <1>7 DEF Stage, Fits
<1>11. ShapeOf(proc'[p])
  BY <1>7, <1>10 DEF ShapeOf, Stage, Fits
<1>12. LocksKept(p)
  BY <1>7, <1>10 DEF LocksKept, Fits, LocksSound
<1>13. \A x \in Inums : ref'[x] = ref[x] + Change(p, x)
  <2> TAKE x \in Inums
  <2>1. Change(p, x) = Refs(cwd[p], file[p], at, ip, put, x)
                       - Refs(cwd[p], file[p], proc[p].at, proc[p].ip, proc[p].put, x)
    BY <1>7, ChangeOf DEF Refs
  <2>2. ref[x] \in Int
    BY <1>0 DEF FsType
  <2>3. ref'[x] = ref[x] + Refs(cwd[p], file[p], at, ip, put, x)
                     - Refs(cwd[p], file[p], proc[p].at, proc[p].ip, proc[p].put, x)
    BY DEF RefsMoved
  <2> QED
    BY <2>1, <2>2, <2>3 DEF One, Refs
<1>14. \A x \in Inums : Uses(p, x)' => Uses(p, x) \/ Named(x)
  <2> TAKE x \in Inums
  <2>1. Uses(p, x)' => x \in {cwd[p], file[p], at, ip, put}
    BY <1>7 DEF Uses
  <2> QED
    BY <2>1 DEF Found, Inums
<1>15. Alive'
  <2>1. \A x \in Inums : Uses(p, x)' => disk'[x].type # "none"
    <3> TAKE x \in Inums
    <3>1. Named(x) => Live(x)
      BY <1>0 DEF Named, Alive, Live
    <3> QED
      BY <1>5, <1>14, <3>1, UsedLive DEF Live
  <2> QED
    BY <1>5, <1>6, <2>1, AliveStep
<1>16. LinkBook'
  <2>1. Owes(proc'[p]) <=> ip # 0 /\ st \in {"walk", "parent", "exists", "linkbad", "erased"}
    BY <1>7, <1>10 DEF Owes
  <2>2. ASSUME NEW x \in Inums
        PROVE  disk'[x].nlink = disk[x].nlink
                 + (IF Owes(proc'[p]) /\ proc'[p].ip = x THEN 1 ELSE 0)
                 - (IF Owes(proc[p]) /\ proc[p].ip = x THEN 1 ELSE 0)
    <3>1. CASE x = i
      BY <1>5, <1>7, <2>1, <3>1 DEF Inums, Claim
    <3>2. CASE x # i
      <4>1. ~(Owes(proc'[p]) /\ proc'[p].ip = x) /\ ~(Owes(proc[p]) /\ proc[p].ip = x)
        BY <1>7, <3>2 DEF Inums
      <4>2. disk[x].nlink \in Int
        BY <1>0 DEF FsType
      <4> QED
        BY <1>4, <3>2, <4>1, <4>2
    <3> QED
      BY <3>1, <3>2
  <2> QED
    BY <1>5, <1>6, <2>2, LinkBookDebts
<1>17. Touches(p)
  BY <1>4, <1>5 DEF Touches
<1>18. Stage(proc'[p]) \in {"walk", "parent"} /\ proc'[p].ip # 0 => disk'[proc'[p].ip].type # "DIR"
  BY <1>5, <1>7, <1>10
<1> QED
  BY <1>6, <1>8, <1>9, <1>10, <1>11, <1>12, <1>13, <1>14, <1>15, <1>16, <1>17, <1>18, ChangeStep

LEMMA LinkStep ==
  ASSUME FsInv, NEW p \in Procs, NEW new \in Paths, NEW from \in {ROOTINO, cwd[p]},
         Link(p, new, from)
  PROVE  FsInv'
<1>0. FsType /\ Shape /\ Cached
  BY DEF FsInv
<1>1. PICK q, i : q = proc[p] /\ i = proc[p].ip
  OBVIOUS
<1>2. /\ q \in CallRec /\ q.pc = "target" /\ q.call = "link" /\ q.ip = i /\ i \in Inums /\ i # 0
      /\ q.at = 0 /\ q.put = 0 /\ Uses(p, i) /\ i \in 0 .. ninodes - 1
  BY <1>0, <1>1, RecOf, ShapeInums, AtStage DEF Inums, Link, Stages, Uses
<1>3. Inode(i) = disk[i]
  BY <1>0, <1>2, InodeDisk
<1>4. /\ ent' = ent /\ calls' = calls /\ file' = file /\ cwd' = cwd /\ lock' = lock
  BY DEF Link
<1>5. LocksSound(p)
  BY <1>4, LockChange
<1>6. CASE disk[i].type = "DIR"
  <2>1. /\ disk' = disk /\ ref' = ref /\ Loaded(i) /\ PutThen(p, [q EXCEPT !.ip = 0], i, "idle")
    BY <1>1, <1>3, <1>6 DEF Link
  <2>2. CacheSound
    BY <1>1, <1>2, <2>1, IpLoaded
  <2> QED
    BY <1>1, <1>2, <1>4, <1>5, <2>1, <2>2, PutIp
<1>7. CASE disk[i].type # "DIR"
  <2>1. /\ Iupdate(i, [Inode(i) EXCEPT !.nlink = @ + 1]) /\ Iget(from)
        /\ Goto(p, [q EXCEPT !.at = from, !.path = new], "walk")
    BY <1>1, <1>3, <1>7 DEF Link
  <2>2. PICK k : k = disk[i].nlink + 1
    OBVIOUS
  <2>3. k \in Int /\ Iupdate(i, [Inode(i) EXCEPT !.nlink = k])
    <3>1. disk[i] \in [type : FileTypes, nlink : Int]
      BY <1>0, <1>2 DEF FsType
    <3>2. [Inode(i) EXCEPT !.nlink = @ + 1] = [Inode(i) EXCEPT !.nlink = k]
      BY <1>3, <2>2, <3>1
    <3> QED
      BY <2>1, <2>2, <3>1, <3>2
  <2>4. /\ from \in Inums /\ from # 0 /\ from \in 0 .. ninodes - 1
        /\ new \in Seq(Names \cup {Dot}) /\ new # <<>>
        /\ Uses(p, from) \/ Named(from)
    BY <1>0, RecOf DEF Inums, Uses, Named
  <2>5. PICK r : r = [q EXCEPT !.at = from, !.path = new]
    OBVIOUS
  <2>6. /\ r \in CallRec /\ r.call = "link" /\ r.path = new /\ r.at = from /\ r.ip = i
        /\ r.put = 0 /\ r.ret = q.ret
    BY <1>2, <2>4, <2>5 DEF CallRec
  <2>7. Now(p, "walk", "link", new, from, i, 0, q.ret)
    BY <1>0, <2>1, <2>5, <2>6, GotoRec DEF Stages
  <2>8. Fits(p, "walk", "link", new, from, i, 0, q.ret, "walk")
    BY <2>4 DEF Fits, LocksAt, LocksIp, AtStages, IpStages
  <2>9. /\ ref' \in [Inums -> Int]
        /\ \A j \in Inums : ref'[j] = ref[j] + One(from, j)
    BY <2>1, <2>4, IgetOne
  <2>10. RefsMoved(p, cwd[p], file[p], from, i, 0)
    BY <1>1, <1>2, <2>4, <2>9, RefsTyped, SMTT(30) DEF RefsMoved, Refs, One, Inums
  <2>11. Found(p, cwd[p], file[p], from, i, 0)
    BY <1>2, <2>4 DEF Found, Uses
  <2>12. ~Owes(proc[p])
    BY <1>1, <1>2 DEF Owes, Stage
  <2>13. k = disk[i].nlink + Claim(i, "walk", i)
               - (IF Owes(proc[p]) /\ proc[p].ip = i THEN 1 ELSE 0)
    <3>1. disk[i].nlink \in Int
      BY <1>0, <1>2 DEF FsType
    <3> QED
      BY <2>2, <2>12, <3>1 DEF Claim
  <2> QED
    BY <1>2, <1>4, <1>5, <1>7, <2>3, <2>7, <2>8, <2>9, <2>10, <2>11, <2>12, <2>13, CountStep, SMTT(30)
<1> QED
  BY <1>6, <1>7

\* The count of an inode goes down by the link it is owed, and the inode is put.
LEMMA CountDown ==
  ASSUME FsInv, NEW p \in Procs, NEW i, i = proc[p].ip, proc[p].pc \in {"erased", "linkbad"},
         Iupdate(i, [Inode(i) EXCEPT !.nlink = @ - 1]), LocksSound(p),
         PutThen(p, [proc[p] EXCEPT !.ip = 0], i, "idle"),
         UNCHANGED <<ref, ent, file, cwd, calls>>
  PROVE  FsInv'
<1>0. FsType /\ Shape /\ Cached
  BY DEF FsInv
<1>1. PICK q : q = proc[p]
  OBVIOUS
<1>2. /\ q \in CallRec /\ q.ip = i /\ i \in Inums /\ i # 0
      /\ q.at = 0 /\ q.put = 0 /\ Uses(p, i) /\ i \in 0 .. ninodes - 1 /\ 0 \in 0 .. ninodes - 1
      /\ Owes(proc[p])
  BY <1>0, <1>1, RecOf, ShapeInums, AtStage DEF Inums, Stages, Uses, Owes
<1>3. PICK k : k = disk[i].nlink - 1
  OBVIOUS
<1>4. k \in Int /\ Iupdate(i, [Inode(i) EXCEPT !.nlink = k])
  <2>1. disk[i] \in [type : FileTypes, nlink : Int] /\ Inode(i) = disk[i]
    BY <1>0, <1>2, InodeDisk DEF FsType
  <2>2. [Inode(i) EXCEPT !.nlink = @ - 1] = [Inode(i) EXCEPT !.nlink = k]
    BY <1>3, <2>1
  <2> QED
    BY <1>3, <2>1, <2>2
<1>5. PICK r : r = [q EXCEPT !.ip = 0]
  OBVIOUS
<1>6. r \in CallRec /\ r.call = q.call /\ r.path = q.path /\ r.at = 0 /\ r.ip = 0
  BY <1>2, <1>5 DEF CallRec
<1>7. Now(p, "put", q.call, q.path, 0, 0, i, "idle")
  BY <1>0, <1>1, <1>2, <1>5, <1>6, PutThenRec, ZenonT(30) DEF Stages
<1>8. Fits(p, "put", q.call, q.path, 0, 0, i, "idle", "idle")
  BY <1>2 DEF Fits, LocksAt, LocksIp, AtStages, IpStages
<1>9. RefsMoved(p, cwd[p], file[p], 0, 0, i)
  BY <1>1, <1>2, RefsTyped DEF RefsMoved, Refs, One, Inums
<1>10. Found(p, cwd[p], file[p], 0, 0, i)
  BY <1>2 DEF Found, Uses
<1>11. k = disk[i].nlink + Claim(0, "idle", i)
             - (IF Owes(proc[p]) /\ proc[p].ip = i THEN 1 ELSE 0)
  <2>1. disk[i].nlink \in Int
    BY <1>0, <1>2 DEF FsType
  <2> QED
    BY <1>2, <1>3, <2>1 DEF Claim
<1>12. ref' \in [Inums -> Int]
  BY RefsTyped
<1>13. /\ ent' = ent /\ calls' = calls /\ cwd' = cwd /\ file' = file
       /\ Owes(proc[p]) => proc[p].ip = i
  OBVIOUS
<1> QED
  BY <1>2, <1>4, <1>7, <1>8, <1>9, <1>10, <1>11, <1>12, <1>13, CountStep, SMTT(30)

LEMMA UnlinkCountStep ==
  ASSUME FsInv, NEW p \in Procs, UnlinkCount(p)
  PROVE  FsInv'
<1>1. PICK i : i = proc[p].ip
  OBVIOUS
<1>2. i \in Inums /\ lock[i] = p
  BY <1>1, ShapeInums, AtStage DEF FsInv, UnlinkCount, Stages
<1>3. LocksSound(p)
  BY <1>1, <1>2, LockChange DEF UnlinkCount
<1> QED
  BY <1>1, <1>3, CountDown DEF UnlinkCount

LEMMA LinkBadStep ==
  ASSUME FsInv, NEW p \in Procs, LinkBad(p)
  PROVE  FsInv'
<1>1. LocksSound(p)
  BY LockChange DEF LinkBad
<1> QED
  BY <1>1, CountDown DEF LinkBad

\* The names create() and link() look for: one that is there, and one that is not.
LEMMA NameFree ==
  ASSUME FsInv, NEW d \in Inums, NEW path \in Seq(Names \cup {Dot}), path # <<>>,
         Dirlookup(d, Head(path)) = 0
  PROVE  Head(path) \in Names /\ Head(path) \notin DOMAIN ent[d]
<1>1. Head(path) \in Names \cup {Dot}
  OBVIOUS
<1>2. Head(path) # Dot
  BY DEF Dirlookup, Inums
<1>3. Head(path) \notin DOMAIN ent[d]
  BY <1>2, SMTT(30) DEF Dirlookup, FsInv, FsType, Inums
<1> QED
  BY <1>1, <1>2, <1>3

LEMMA CreateFound ==
  ASSUME FsInv, NEW p \in Procs, CreateLookup(p),
         Dirlookup(proc[p].at, Head(proc[p].path)) # 0
  PROVE  FsInv'
<1>0. FsType /\ Shape
  BY DEF FsInv
<1>1. PICK q, found : q = proc[p] /\ found = Dirlookup(proc[p].at, Head(proc[p].path))
  OBVIOUS
<1>2. /\ q \in CallRec /\ q.at \in Inums /\ q.at # 0 /\ q.ip = 0 /\ q.put = 0 /\ Uses(p, q.at)
      /\ 0 \in 0 .. ninodes - 1 /\ q.at \in 0 .. ninodes - 1
  BY <1>0, <1>1, RecOf, ShapeInums, AtStage DEF Inums, CreateLookup, Stages, Uses
<1>3. /\ disk' = disk /\ ent' = ent /\ calls' = calls /\ file' = file /\ cwd' = cwd /\ lock' = lock
      /\ Iget(found) /\ Loaded(q.at)
      /\ PutThen(p, [q EXCEPT !.at = 0, !.ip = found], q.at, "existing")
  BY <1>1 DEF CreateLookup
<1>4. CacheSound
  BY <1>1, <1>2, <1>3, AtLoaded
<1>5. found \in Inums /\ found # 0 /\ found \in 0 .. ninodes - 1 /\ (Uses(p, found) \/ Named(found))
  BY <1>1, <1>2, LookupNamed DEF Inums
<1>6. PICK r : r = [q EXCEPT !.at = 0, !.ip = found]
  OBVIOUS
<1>7. r \in CallRec /\ r.call = q.call /\ r.path = q.path /\ r.at = 0 /\ r.ip = found
  BY <1>2, <1>5, <1>6 DEF CallRec
<1>8. Now(p, "put", q.call, q.path, 0, found, q.at, "existing")
  BY <1>0, <1>2, <1>3, <1>6, <1>7, PutThenRec DEF Stages
<1>9. /\ ref' \in [Inums -> Int]
      /\ \A j \in Inums : ref'[j] = ref[j] + One(found, j)
  BY <1>3, <1>5, IgetOne
<1>10. Frame(p, cwd[p], file[p])
  BY <1>3, <1>4, <1>9, FrameKept
<1>11. Fits(p, "put", q.call, q.path, 0, found, q.at, "existing", "existing")
  BY <1>2, <1>5 DEF Fits, LocksAt, LocksIp, AtStages, IpStages
<1>12. RefsMoved(p, cwd[p], file[p], 0, found, q.at)
  BY <1>1, <1>2, <1>5, <1>9, RefsTyped, SMTT(30) DEF RefsMoved, Refs, One, Inums
<1>13. Found(p, cwd[p], file[p], 0, found, q.at)
  BY <1>2, <1>5 DEF Found, Uses
<1>14. Continues(p, q.path, 0, found, "existing")
  BY DEF Continues
<1> QED
  BY <1>8, <1>10, <1>11, <1>12, <1>13, <1>14, QuietNow

LEMMA LinkFound ==
  ASSUME FsInv, NEW p \in Procs, LinkEntry(p),
         Dirlookup(proc[p].at, Head(proc[p].path)) # 0
  PROVE  FsInv'
<1>0. FsType /\ Shape
  BY DEF FsInv
<1>1. PICK q, found : q = proc[p] /\ found = Dirlookup(proc[p].at, Head(proc[p].path))
  OBVIOUS
<1>2. /\ q \in CallRec /\ q.at \in Inums /\ q.at # 0 /\ q.ip # 0 /\ q.put = 0 /\ Uses(p, q.at)
      /\ 0 \in 0 .. ninodes - 1 /\ q.at \in 0 .. ninodes - 1 /\ q.ip \in Int
      /\ CanLock(q.at) /\ Owes(proc[p]) /\ Uses(p, q.ip)
  BY <1>0, <1>1, RecOf, ShapeInums, AtStage DEF Inums, LinkEntry, Stages, Uses, Owes
<1>3. /\ disk' = disk /\ ent' = ent /\ calls' = calls /\ file' = file /\ cwd' = cwd
      /\ lock' = [lock EXCEPT ![q.at] = p] /\ Iget(found) /\ Loaded(q.at)
      /\ PutThen(p, q, found, "exists")
  BY <1>1 DEF LinkEntry
<1>4. CacheSound
  BY <1>1, <1>2, <1>3, AtLoaded
<1>5. found \in Inums /\ found # 0 /\ found \in 0 .. ninodes - 1 /\ (Uses(p, found) \/ Named(found))
  BY <1>1, <1>2, LookupNamed DEF Inums
<1>6. Now(p, "put", q.call, q.path, q.at, q.ip, found, "exists")
  BY <1>0, <1>2, <1>3, <1>5, PutThenRec DEF Stages
<1>7. /\ ref' \in [Inums -> Int]
      /\ \A j \in Inums : ref'[j] = ref[j] + One(found, j)
  BY <1>3, <1>5, IgetOne
<1>8. LocksSound(p)
  BY <1>2, <1>3, LockChange
<1>9. Frame(p, cwd[p], file[p])
  BY <1>3, <1>4, <1>7, <1>8, FrameLocks
<1>10. Fits(p, "put", q.call, q.path, q.at, q.ip, found, "exists", "exists")
  <2>1. lock'[q.at] = p
    BY <1>0, <1>2, <1>3 DEF FsType
  <2> QED
    BY <1>2, <1>5, <2>1 DEF Fits, LocksAt, LocksIp, AtStages, IpStages
<1>11. RefsMoved(p, cwd[p], file[p], q.at, q.ip, found)
  BY <1>1, <1>2, <1>5, <1>7, RefsTyped, SMTT(30) DEF RefsMoved, Refs, One, Inums
<1>12. Found(p, cwd[p], file[p], q.at, q.ip, found)
  BY <1>2, <1>5 DEF Found, Uses
<1>13. Continues(p, q.path, q.at, q.ip, "exists")
  BY <1>1, <1>2 DEF Continues
<1> QED
  BY <1>6, <1>9, <1>10, <1>11, <1>12, <1>13, QuietNow

\* A new entry, and what it adds to names and subdirectories.
LEMMA EntryWritten ==
  ASSUME FsInv, NEW d \in Inums, NEW n \in Names \ DOMAIN ent[d], NEW i \in Inums,
         WriteEntry(d, n, i)
  PROVE  /\ DOMAIN ent' = Inums /\ \A x \in Inums \ {d} : ent'[x] = ent[x]
         /\ DOMAIN ent'[d] = DOMAIN ent[d] \cup {n}
         /\ \A m \in DOMAIN ent[d] : ent'[d][m] = ent[d][m]
         /\ ent'[d][n] = i
         /\ \A x \in Inums : /\ DOMAIN ent'[x] \subseteq Names
                             /\ \A m \in DOMAIN ent'[x] : ent'[x][m] \in Inums
         /\ \A x \in Inums : /\ Cardinality(NamesOf(x)) \in Nat
                             /\ Cardinality(NamesOf(x)') = Cardinality(NamesOf(x)) + One(i, x)
<1>0. FsType
  BY DEF FsInv
<1>1. /\ DOMAIN ent = Inums
      /\ \A x \in Inums : /\ DOMAIN ent[x] \subseteq Names
                          /\ \A m \in DOMAIN ent[x] : ent[x][m] \in Inums
  BY <1>0 DEF FsType
<1>2. /\ DOMAIN ent' = Inums /\ \A x \in Inums \ {d} : ent'[x] = ent[x]
      /\ ent'[d] = [m \in DOMAIN ent[d] \cup {n} |-> IF m = n THEN i ELSE ent[d][m]]
  BY <1>1 DEF WriteEntry
<1>3. /\ DOMAIN ent'[d] = DOMAIN ent[d] \cup {n}
      /\ \A m \in DOMAIN ent[d] : ent'[d][m] = ent[d][m]
      /\ ent'[d][n] = i
  BY <1>2
<1>4. \A x \in Inums : /\ DOMAIN ent'[x] \subseteq Names
                       /\ \A m \in DOMAIN ent'[x] : ent'[x][m] \in Inums
  BY <1>1, <1>2, <1>3
<1>5. ASSUME NEW x \in Inums
      PROVE  /\ Cardinality(NamesOf(x)) \in Nat
             /\ Cardinality(NamesOf(x)') = Cardinality(NamesOf(x)) + One(i, x)
  <2>1. PICK A, B, e : A = NamesOf(x) /\ B = NamesOf(x)' /\ e = <<d, n>>
    OBVIOUS
  <2>2. IsFiniteSet(A)
    BY <1>0, <2>1, CountedFinite
  <2>3. e \notin A /\ (e \in B <=> i = x)
    BY <1>3, <2>1 DEF NamesOf, NamesIn
  <2>4. A \ {e} = B \ {e}
    <3>1. ASSUME NEW h \in Inums \X Names, h # e
          PROVE  (h[2] \in DOMAIN ent[h[1]] /\ ent[h[1]][h[2]] = x)
                   <=> (h[2] \in DOMAIN ent'[h[1]] /\ ent'[h[1]][h[2]] = x)
      <4>1. CASE h[1] = d
        <5>1. h[2] # n
          BY <2>1, <3>1, <4>1
        <5> QED
          BY <1>3, <4>1, <5>1
      <4>2. CASE h[1] # d
        BY <1>2, <4>2
      <4> QED
        BY <4>1, <4>2
    <3> QED
      BY <2>1, <3>1 DEF NamesOf, NamesIn
  <2>5. /\ Cardinality(A) \in Nat /\ Cardinality(B) \in Nat
        /\ Cardinality(B) = Cardinality(A) + (IF e \in B THEN 1 ELSE 0) - (IF e \in A THEN 1 ELSE 0)
    BY <2>2, <2>4, CardStep
  <2> QED
    BY <2>1, <2>3, <2>5 DEF One
<1> QED
  BY <1>2, <1>3, <1>4, <1>5

\* A step of p that changes directories or inodes, by what it leaves of its record.
LEMMA ChangeNow ==
  ASSUME FsInv, NEW p \in Procs, NEW pc, NEW call, NEW path, NEW at, NEW ip, NEW put, NEW ret,
         NEW st, Now(p, pc, call, path, at, ip, put, ret),
         Fits(p, pc, call, path, at, ip, put, ret, st),
         disk' \in [Inums -> [type : FileTypes, nlink : Int]], CacheSound,
         DOMAIN ent' = Inums,
         \A x \in Inums : /\ DOMAIN ent'[x] \subseteq Names
                          /\ \A m \in DOMAIN ent'[x] : ent'[x][m] \in Inums,
         calls' = calls, cwd' = cwd, file' = file, LocksSound(p),
         ref' \in [Inums -> Int], RefsMoved(p, cwd[p], file[p], at, ip, put),
         Found(p, cwd[p], file[p], at, ip, put), Touches(p), Alive', LinkBook',
         st \notin {"unlink", "walk", "parent"}
  PROVE  FsInv'
<1>0. FsType
  BY DEF FsInv
<1>1. /\ proc'[p].pc = pc /\ proc'[p].call = call /\ proc'[p].path = path /\ proc'[p].at = at
      /\ proc'[p].ip = ip /\ proc'[p].put = put /\ proc'[p].ret = ret
      /\ proc' \in [Procs -> CallRec]
  BY DEF Now
<1>2. Only(p)
  BY DEF Now, Only
<1>3. FsType'
  BY <1>0, <1>1 DEF FsType, CacheSound, LocksSound
<1>4. Cached'
  BY DEF CacheSound
<1>5. Stage(proc'[p]) = st /\ st # "new"
  BY <1>1 DEF Stage, Fits
<1>6. ShapeOf(proc'[p])
  BY <1>1, <1>5 DEF ShapeOf, Stage, Fits
<1>7. LocksKept(p)
  BY <1>1, <1>5 DEF LocksKept, Fits, LocksSound
<1>8. \A x \in Inums : ref'[x] = ref[x] + Change(p, x)
  <2> TAKE x \in Inums
  <2>1. Change(p, x) = Refs(cwd[p], file[p], at, ip, put, x)
                       - Refs(cwd[p], file[p], proc[p].at, proc[p].ip, proc[p].put, x)
    BY <1>1, ChangeOf DEF Refs
  <2>2. ref[x] \in Int
    BY <1>0 DEF FsType
  <2>3. ref'[x] = ref[x] + Refs(cwd[p], file[p], at, ip, put, x)
                     - Refs(cwd[p], file[p], proc[p].at, proc[p].ip, proc[p].put, x)
    BY DEF RefsMoved
  <2> QED
    BY <2>1, <2>2, <2>3 DEF One, Refs
<1>9. \A x \in Inums : Uses(p, x)' => Uses(p, x) \/ Named(x)
  <2> TAKE x \in Inums
  <2>1. Uses(p, x)' => x \in {cwd[p], file[p], at, ip, put}
    BY <1>1 DEF Uses
  <2> QED
    BY <2>1 DEF Found, Inums
<1> QED
  BY <1>2, <1>3, <1>4, <1>5, <1>6, <1>7, <1>8, <1>9, ChangeStep

\* What p holds after the step it used before, and inodes keep their types.
LEMMA AliveKept ==
  ASSUME FsInv, NEW p \in Procs, Only(p), cwd' = cwd, file' = file,
         \A x \in Inums : disk'[x].type = disk[x].type,
         \A x \in {proc'[p].at, proc'[p].ip, proc'[p].put} : x # 0 => Uses(p, x),
         \A x \in Inums : \A n \in DOMAIN ent'[x] :
           \/ n \in DOMAIN ent[x] /\ ent'[x][n] = ent[x][n]
           \/ ent'[x][n] \in Inums /\ Uses(p, ent'[x][n]),
         \A x \in Inums : DOMAIN ent'[x] \subseteq DOMAIN ent[x] \/ Uses(p, x)
  PROVE  Alive'
<1>1. \A x \in Inums : Uses(p, x) => disk'[x].type # "none"
  BY UsedLive DEF Live
<1>2. \A x \in Inums : Uses(p, x)' => Uses(p, x)
  BY DEF Uses, Inums
<1> QED
  BY <1>1, <1>2, AliveStep

LEMMA LinkNew ==
  ASSUME FsInv, NEW p \in Procs, LinkEntry(p),
         Dirlookup(proc[p].at, Head(proc[p].path)) = 0
  PROVE  FsInv'
<1>0. FsType /\ Shape /\ LinkBook
  BY DEF FsInv
<1>1. PICK q, d, i, n : q = proc[p] /\ d = proc[p].at /\ i = proc[p].ip /\ n = Head(proc[p].path)
  OBVIOUS
<1>2. /\ q \in CallRec /\ q.at = d /\ q.ip = i /\ d \in Inums /\ i \in Inums /\ d # 0 /\ i # 0
      /\ q.put = 0 /\ Uses(p, d) /\ Uses(p, i) /\ CanLock(d) /\ Owes(proc[p])
      /\ 0 \in 0 .. ninodes - 1 /\ d \in 0 .. ninodes - 1
      /\ q.path \in Seq(Names \cup {Dot}) /\ q.path # <<>>
  <2>1. proc[p].pc = "parent" /\ proc[p].call = "link" /\ CanLock(proc[p].at)
    BY DEF LinkEntry
  <2>2. /\ proc[p].at # 0 /\ proc[p].ip # 0 /\ proc[p].put = 0 /\ Stage(proc[p]) = "parent"
    BY <2>1, AtStage DEF Stages
  <2>3. /\ proc[p].at \in Inums /\ proc[p].ip \in Inums
    BY <1>0, <2>2, ShapeInums
  <2>4. proc[p].path # <<>>
    BY <1>0, <2>2 DEF Shape, ShapeOf
  <2> QED
    BY <1>0, <1>1, <2>1, <2>2, <2>3, <2>4, RecOf DEF Uses, Owes, Inums
<1>3. n \in Names \ DOMAIN ent[d]
  BY <1>1, <1>2, NameFree
<1>4. /\ disk' = disk /\ calls' = calls /\ file' = file /\ cwd' = cwd /\ lock' = lock /\ ref' = ref
      /\ WriteEntry(d, n, i) /\ Loaded(d)
      /\ PutThen(p, [q EXCEPT !.at = 0], d, "linked")
  BY <1>1 DEF LinkEntry
<1>5. CacheSound
  BY <1>1, <1>2, <1>4, AtLoaded
<1>6. PICK r : r = [q EXCEPT !.at = 0]
  OBVIOUS
<1>7. r \in CallRec /\ r.call = q.call /\ r.path = q.path /\ r.at = 0 /\ r.ip = i
  BY <1>2, <1>6 DEF CallRec
<1>8. Now(p, "put", q.call, q.path, 0, i, d, "linked")
  BY <1>0, <1>2, <1>4, <1>6, <1>7, PutThenRec DEF Stages
<1>9. Fits(p, "put", q.call, q.path, 0, i, d, "linked", "linked")
  BY <1>2 DEF Fits, LocksAt, LocksIp, AtStages, IpStages
<1>10. RefsMoved(p, cwd[p], file[p], 0, i, d)
  BY <1>1, <1>2, <1>4, RefsTyped DEF RefsMoved, Refs, One, Inums
<1>11. Found(p, cwd[p], file[p], 0, i, d)
  BY <1>2 DEF Found, Uses
<1>12. LocksSound(p)
  BY <1>4, LockChange
<1>13. /\ DOMAIN ent' = Inums /\ \A x \in Inums \ {d} : ent'[x] = ent[x]
       /\ DOMAIN ent'[d] = DOMAIN ent[d] \cup {n}
       /\ \A m \in DOMAIN ent[d] : ent'[d][m] = ent[d][m]
       /\ ent'[d][n] = i
       /\ \A x \in Inums : /\ DOMAIN ent'[x] \subseteq Names
                           /\ \A m \in DOMAIN ent'[x] : ent'[x][m] \in Inums
       /\ \A x \in Inums : /\ Cardinality(NamesOf(x)) \in Nat
                           /\ Cardinality(NamesOf(x)') = Cardinality(NamesOf(x)) + One(i, x)
  BY <1>2, <1>3, <1>4, EntryWritten
<1>14. Only(p)
  BY <1>4, <1>8 DEF Now, Only
<1>15. Alive'
  <2>1. \A x \in {proc'[p].at, proc'[p].ip, proc'[p].put} : x # 0 => Uses(p, x)
    BY <1>2, <1>8 DEF Now
  <2>2. \A x \in Inums : \A m \in DOMAIN ent'[x] :
           \/ m \in DOMAIN ent[x] /\ ent'[x][m] = ent[x][m]
           \/ ent'[x][m] \in Inums /\ Uses(p, ent'[x][m])
    BY <1>2, <1>13
  <2>3. \A x \in Inums : DOMAIN ent'[x] \subseteq DOMAIN ent[x] \/ Uses(p, x)
    BY <1>2, <1>13
  <2> QED
    BY <1>4, <1>14, <2>1, <2>2, <2>3, AliveKept
<1>16. LinkBook'
  <2>1. disk[i].type # "DIR"
    BY <1>1, <1>2 DEF FsInv, Linking, LinkEntry, Stage
  <2>2. ASSUME NEW x \in Inums
        PROVE  disk'[x].nlink >= Cardinality(NamesOf(x)') + Cardinality(SubdirsOf(x)')
                                 + Cardinality(Debt(x)') + (IF x = ROOTINO THEN 1 ELSE 0)
    <3>1. SubdirsOf(x)' = SubdirsOf(x)
      <4>1. CASE x = d
        <5>1. ASSUME NEW m \in DOMAIN ent'[d], disk[ent'[d][m]].type = "DIR"
              PROVE  m \in DOMAIN ent[d] /\ ent'[d][m] = ent[d][m]
          BY <1>13, <2>1, <5>1
        <5> QED
          BY <1>4, <1>13, <4>1, <5>1 DEF SubdirsOf, SubdirsIn
      <4>2. CASE x # d
        BY <1>4, <1>13, <4>2 DEF SubdirsOf, SubdirsIn
      <4> QED
        BY <4>1, <4>2
    <3>2. /\ Cardinality(Debt(x)) \in Nat /\ Cardinality(Debt(x)') \in Nat
          /\ Cardinality(Debt(x)') = Cardinality(Debt(x)) - One(i, x)
      <4>1. ~Owes(proc'[p])
        BY <1>8 DEF Now, Owes, Stage
      <4>2. /\ Cardinality(Debt(x)) \in Nat /\ Cardinality(Debt(x)') \in Nat
            /\ Cardinality(Debt(x)') = Cardinality(Debt(x))
                 + (IF Owes(proc'[p]) /\ proc'[p].ip = x THEN 1 ELSE 0)
                 - (IF Owes(proc[p]) /\ proc[p].ip = x THEN 1 ELSE 0)
        BY <1>0, <1>14, DebtStep
      <4> QED
        BY <1>1, <1>2, <4>1, <4>2 DEF One
    <3>3. disk[x].nlink >= Cardinality(NamesOf(x)) + Cardinality(SubdirsOf(x))
                           + Cardinality(Debt(x)) + (IF x = ROOTINO THEN 1 ELSE 0)
      BY <1>0 DEF LinkBook
    <3>4. Cardinality(NamesOf(x)) \in Nat /\ Cardinality(SubdirsOf(x)) \in Nat /\ disk[x].nlink \in Int
      BY <1>0, CountedFinite DEF FsType
    <3>5. Cardinality(NamesOf(x)') = Cardinality(NamesOf(x)) + One(i, x) /\ One(i, x) \in Int
      BY <1>13 DEF One
    <3> QED
      BY <1>4, <3>1, <3>2, <3>3, <3>4, <3>5
  <2> QED
    BY <2>2, LinkBookAll
<1>17. Touches(p)
  <2>1. \A r2 \in Procs : lock[d] # r2
    BY <1>2 DEF CanLock
  <2> QED
    BY <1>2, <1>4, <1>13, <2>1 DEF Touches
<1>18. disk' \in [Inums -> [type : FileTypes, nlink : Int]] /\ ref' \in [Inums -> Int]
  BY <1>0, <1>4 DEF FsType
<1> QED
  BY <1>4, <1>5, <1>8, <1>9, <1>10, <1>11, <1>12, <1>13, <1>15, <1>16, <1>17, <1>18, ChangeNow

\* iupdate() of a directory and of another inode.
LEMMA IupdateBothSound ==
  ASSUME FsInv, NEW d \in Inums, NEW i \in Inums, d # i,
         NEW v \in [type : FileTypes, nlink : Int], v.type # "none",
         NEW w \in [type : FileTypes, nlink : Int], w.type # "none",
         IupdateBoth(d, v, i, w)
  PROVE  /\ CacheSound /\ disk' \in [Inums -> [type : FileTypes, nlink : Int]]
         /\ disk'[d] = v /\ disk'[i] = w /\ \A x \in Inums \ {d, i} : disk'[x] = disk[x]
<1>1. /\ cache \in [Inums -> InodeSet] /\ disk \in [Inums -> InodeSet]
      /\ valid \in [Inums -> BOOLEAN] /\ v \in InodeSet /\ w \in InodeSet /\ Cached
  BY DEF FsInv, FsType, InodeSet
<1>2. /\ cache' = [cache EXCEPT ![d] = v, ![i] = w] /\ disk' = [disk EXCEPT ![d] = v, ![i] = w]
      /\ valid' = [valid EXCEPT ![d] = TRUE, ![i] = TRUE]
  BY DEF IupdateBoth
<1>3. /\ cache' \in [Inums -> InodeSet] /\ disk' \in [Inums -> InodeSet]
      /\ valid' \in [Inums -> BOOLEAN]
  BY <1>1, <1>2
<1>4. /\ disk'[d] = v /\ disk'[i] = w /\ cache'[d] = v /\ cache'[i] = w
      /\ \A x \in Inums \ {d, i} : disk'[x] = disk[x] /\ cache'[x] = cache[x] /\ valid'[x] = valid[x]
  BY <1>1, <1>2
<1>5. Cached'
  BY <1>1, <1>4 DEF Cached
<1> QED
  BY <1>3, <1>4, <1>5 DEF CacheSound, InodeSet

\* The subdirectories of d with a new entry.
LEMMA SubdirsWritten ==
  ASSUME FsInv, NEW d \in Inums, NEW n, n \notin DOMAIN ent[d], NEW i,
         \A x \in Inums \ {d} : ent'[x] = ent[x], DOMAIN ent'[d] = DOMAIN ent[d] \cup {n},
         \A m \in DOMAIN ent[d] : ent'[d][m] = ent[d][m], ent'[d][n] = i,
         \A x \in Inums : disk'[x].type = disk[x].type, NEW x \in Inums
  PROVE  /\ Cardinality(SubdirsOf(x)) \in Nat /\ Cardinality(SubdirsOf(x)') \in Nat
         /\ Cardinality(SubdirsOf(x)') = Cardinality(SubdirsOf(x))
              + (IF x = d /\ disk'[i].type = "DIR" THEN 1 ELSE 0)
<1>0. FsType
  BY DEF FsInv
<1>1. IsFiniteSet(SubdirsOf(x)) /\ Cardinality(SubdirsOf(x)) \in Nat
  BY <1>0, CountedFinite
<1>2. \A y \in Inums : \A m \in DOMAIN ent[y] : ent[y][m] \in Inums
  BY <1>0 DEF FsType
<1>3. CASE x # d
  <2>1. SubdirsOf(x)' = SubdirsOf(x)
    BY <1>2, <1>3 DEF SubdirsOf, SubdirsIn
  <2> QED
    BY <1>1, <1>3, <2>1
<1>4. CASE x = d
  <2>1. PICK A, B : A = SubdirsOf(x) /\ B = SubdirsOf(x)'
    OBVIOUS
  <2>2. IsFiniteSet(A) /\ n \notin A /\ (n \in B <=> disk'[i].type = "DIR")
    BY <1>1, <1>4, <2>1 DEF SubdirsOf, SubdirsIn
  <2>3. A \ {n} = B \ {n}
    BY <1>2, <1>4, <2>1 DEF SubdirsOf, SubdirsIn
  <2>4. /\ Cardinality(A) \in Nat /\ Cardinality(B) \in Nat
        /\ Cardinality(B) = Cardinality(A) + (IF n \in B THEN 1 ELSE 0) - (IF n \in A THEN 1 ELSE 0)
    BY <2>2, <2>3, CardStep
  <2> QED
    BY <1>4, <2>1, <2>2, <2>4
<1> QED
  BY <1>3, <1>4

\* The links of the others do not change.
LEMMA DebtSame ==
  ASSUME FsInv, NEW p \in Procs, Only(p), NEW x \in Inums,
         ~Owes(proc[p]) \/ proc[p].ip # x, ~Owes(proc'[p]) \/ proc'[p].ip # x
  PROVE  Debt(x)' = Debt(x)
BY DEF Debt, Only

LEMMA CreateNewStep ==
  ASSUME FsInv, NEW p \in Procs, CreateNew(p)
  PROVE  FsInv'
<1>0. FsType /\ Shape /\ LinkBook /\ Cached
  BY DEF FsInv
<1>1. PICK q, d, i, n : q = proc[p] /\ d = proc[p].at /\ i = proc[p].ip /\ n = Head(proc[p].path)
  OBVIOUS
<1>2. /\ q \in CallRec /\ q.at = d /\ q.ip = i /\ d \in Inums /\ i \in Inums /\ d # 0 /\ i # 0
      /\ q.put = 0 /\ Uses(p, d) /\ Uses(p, i) /\ lock[d] = p /\ CanLock(i) /\ d # i
      /\ 0 \in 0 .. ninodes - 1 /\ d \in 0 .. ninodes - 1 /\ ~Owes(proc[p]) /\ Fresh(p)
      /\ q.call \in {"create", "mkdir", "mknod"}
  <2>1. proc[p].pc = "new" /\ CanLock(proc[p].ip)
    BY DEF CreateNew
  <2>2. /\ proc[p].at # 0 /\ proc[p].ip # 0 /\ proc[p].put = 0 /\ Stage(proc[p]) = "new"
        /\ lock[proc[p].at] = p
    BY <2>1, AtStage DEF Stages
  <2>3. /\ proc[p].at \in Inums /\ proc[p].ip \in Inums
    BY <1>0, <2>2, ShapeInums
  <2>4. d # i
    BY <1>1, <2>1, <2>2 DEF CanLock
  <2>5. Fresh(p) /\ proc[p].call \in {"create", "mkdir", "mknod"}
    BY <1>0, <2>2 DEF FsInv, Making, Shape, ShapeOf
  <2> QED
    BY <1>0, <1>1, <2>1, <2>2, <2>3, <2>4, <2>5, RecOf DEF Uses, Owes, Inums
<1>3. /\ n \in Names \ DOMAIN ent[d] /\ disk[i].nlink = 0 /\ DOMAIN ent[i] = {}
      /\ disk[i].type = TypeOf(q.call)
  BY <1>1, <1>2 DEF Fresh
<1>4. Live(d) /\ Live(i)
  BY <1>2, UsedLive
<1>5. PICK v, w, k : /\ k = IF q.call = "mkdir" THEN disk[d].nlink + 1 ELSE disk[d].nlink
                     /\ v = (IF q.call = "mkdir" THEN [Inode(d) EXCEPT !.nlink = @ + 1] ELSE Inode(d))
                     /\ w = [Inode(i) EXCEPT !.nlink = 1]
  OBVIOUS
<1>6. /\ disk[d] \in [type : FileTypes, nlink : Int] /\ disk[i] \in [type : FileTypes, nlink : Int]
      /\ Inode(d) = disk[d] /\ Inode(i) = disk[i] /\ disk[d].nlink \in Int /\ k \in Int
  BY <1>0, <1>2, <1>5, InodeDisk, SMTT(30) DEF FsType
<1>7. /\ v \in [type : FileTypes, nlink : Int] /\ v.type = disk[d].type /\ v.nlink = k
      /\ w \in [type : FileTypes, nlink : Int] /\ w.type = disk[i].type /\ w.nlink = 1
      /\ v.type # "none" /\ w.type # "none"
  BY <1>4, <1>5, <1>6 DEF Live
<1>8. /\ IupdateBoth(d, v, i, w) /\ WriteEntry(d, n, i)
      /\ lock' = [lock EXCEPT ![d] = NoProc, ![i] = p]
      /\ PutThen(p, [q EXCEPT !.at = 0], d, "made")
      /\ ref' = ref /\ file' = file /\ cwd' = cwd /\ calls' = calls
  BY <1>1, <1>5 DEF CreateNew
<1>9. /\ CacheSound /\ disk' \in [Inums -> [type : FileTypes, nlink : Int]]
      /\ disk'[d] = v /\ disk'[i] = w /\ \A x \in Inums \ {d, i} : disk'[x] = disk[x]
  BY <1>2, <1>7, <1>8, IupdateBothSound
<1>10. \A x \in Inums : disk'[x].type = disk[x].type
  BY <1>7, <1>9
<1>11. PICK r : r = [q EXCEPT !.at = 0]
  OBVIOUS
<1>12. r \in CallRec /\ r.call = q.call /\ r.path = q.path /\ r.at = 0 /\ r.ip = i
  BY <1>2, <1>11 DEF CallRec
<1>13. Now(p, "put", q.call, q.path, 0, i, d, "made")
  BY <1>0, <1>2, <1>8, <1>11, <1>12, PutThenRec, ZenonT(30) DEF Stages
<1>14. lock'[i] = p /\ LocksSound(p)
  <2>1. lock \in [Inums -> Procs \cup {NoProc}]
    BY <1>0 DEF FsType
  <2> QED
    BY <1>2, <1>8, <2>1 DEF LocksSound, CanLock
<1>15. Fits(p, "put", q.call, q.path, 0, i, d, "made", "made")
  BY <1>2, <1>14 DEF Fits, LocksAt, LocksIp, AtStages, IpStages
<1>16. RefsMoved(p, cwd[p], file[p], 0, i, d)
  BY <1>1, <1>2, <1>8, RefsTyped DEF RefsMoved, Refs, One, Inums
<1>17. Found(p, cwd[p], file[p], 0, i, d)
  BY <1>2 DEF Found, Uses
<1>18. /\ DOMAIN ent' = Inums /\ \A x \in Inums \ {d} : ent'[x] = ent[x]
       /\ DOMAIN ent'[d] = DOMAIN ent[d] \cup {n}
       /\ \A m \in DOMAIN ent[d] : ent'[d][m] = ent[d][m]
       /\ ent'[d][n] = i
       /\ \A x \in Inums : /\ DOMAIN ent'[x] \subseteq Names
                           /\ \A m \in DOMAIN ent'[x] : ent'[x][m] \in Inums
       /\ \A x \in Inums : /\ Cardinality(NamesOf(x)) \in Nat
                           /\ Cardinality(NamesOf(x)') = Cardinality(NamesOf(x)) + One(i, x)
  BY <1>2, <1>3, <1>8, EntryWritten
<1>19. Only(p)
  BY <1>8, <1>13 DEF Now, Only
<1>20. Alive'
  <2>1. \A x \in {proc'[p].at, proc'[p].ip, proc'[p].put} : x # 0 => Uses(p, x)
    BY <1>2, <1>13 DEF Now
  <2>2. \A x \in Inums : \A m \in DOMAIN ent'[x] :
           \/ m \in DOMAIN ent[x] /\ ent'[x][m] = ent[x][m]
           \/ ent'[x][m] \in Inums /\ Uses(p, ent'[x][m])
    BY <1>2, <1>18
  <2>3. \A x \in Inums : DOMAIN ent'[x] \subseteq DOMAIN ent[x] \/ Uses(p, x)
    BY <1>2, <1>18
  <2> QED
    BY <1>8, <1>10, <1>19, <2>1, <2>2, <2>3, AliveKept
<1>21. LinkBook'
  <2>1. ASSUME NEW x \in Inums
        PROVE  disk'[x].nlink >= Cardinality(NamesOf(x)') + Cardinality(SubdirsOf(x)')
                                 + Cardinality(Debt(x)') + (IF x = ROOTINO THEN 1 ELSE 0)
    <3>1. Debt(x)' = Debt(x) /\ Cardinality(Debt(x)) \in Nat
      <4>1. ~Owes(proc'[p])
        BY <1>13 DEF Now, Owes, Stage
      <4> QED
        BY <1>0, <1>2, <1>19, <4>1, DebtSame, CountedFinite
    <3>2. /\ Cardinality(SubdirsOf(x)) \in Nat /\ Cardinality(SubdirsOf(x)') \in Nat
          /\ Cardinality(SubdirsOf(x)') = Cardinality(SubdirsOf(x))
               + (IF x = d /\ disk'[i].type = "DIR" THEN 1 ELSE 0)
      BY <1>2, <1>3, <1>10, <1>18, SubdirsWritten, SMTT(30)
    <3>3. disk[x].nlink >= Cardinality(NamesOf(x)) + Cardinality(SubdirsOf(x))
                           + Cardinality(Debt(x)) + (IF x = ROOTINO THEN 1 ELSE 0)
      BY <1>0 DEF LinkBook
    <3>4. Cardinality(NamesOf(x)) \in Nat /\ disk[x].nlink \in Int
      BY <1>0, CountedFinite DEF FsType
    <3>5. Cardinality(NamesOf(x)') = Cardinality(NamesOf(x)) + One(i, x)
      BY <1>18
    <3>6. CASE x = d
      <4>1. One(i, x) = 0
        BY <1>2, <3>6 DEF One
      <4>2. disk'[i].type = "DIR" <=> q.call = "mkdir"
        BY <1>2, <1>3, <1>10 DEF TypeOf
      <4>3. disk'[x].nlink = k
        BY <1>7, <1>9, <3>6
      <4> QED
        BY <1>5, <3>1, <3>2, <3>3, <3>4, <3>5, <3>6, <4>1, <4>2, <4>3, SMTT(30)
    <3>7. CASE x = i
      <4>1. One(i, x) = 1 /\ disk'[x].nlink = 1 /\ x # d
        BY <1>2, <1>7, <1>9, <3>7 DEF One
      <4>2. disk[x].nlink = 0
        BY <1>3, <3>7
      <4> QED
        BY <3>1, <3>2, <3>3, <3>4, <3>5, <4>1, <4>2
    <3>8. CASE x \notin {d, i}
      <4>1. One(i, x) = 0 /\ disk'[x].nlink = disk[x].nlink
        BY <1>9, <3>8 DEF One
      <4> QED
        BY <3>1, <3>2, <3>3, <3>4, <3>5, <3>8, <4>1
    <3> QED
      BY <3>6, <3>7, <3>8
  <2> QED
    BY <2>1, LinkBookAll
<1>22. Touches(p)
  <2>1. \A r2 \in Procs \ {p} : lock[d] # r2
    BY <1>2
  <2> QED
    BY <1>2, <1>9, <1>10, <1>18, <2>1 DEF Touches
<1>23. ref' \in [Inums -> Int] /\ calls' = calls /\ cwd' = cwd /\ file' = file /\ LocksSound(p)
  BY <1>8, <1>14, RefsTyped
<1>24. CacheSound /\ disk' \in [Inums -> [type : FileTypes, nlink : Int]]
  BY <1>9
<1>25. /\ DOMAIN ent' = Inums
       /\ \A x \in Inums : /\ DOMAIN ent'[x] \subseteq Names
                           /\ \A m \in DOMAIN ent'[x] : ent'[x][m] \in Inums
  BY <1>18
<1> QED
  BY <1>13, <1>15, <1>16, <1>17, <1>20, <1>21, <1>22, <1>23, <1>24, <1>25, ChangeNow

\* ialloc() finds a free inode if there is one.
LEMMA FirstFreeIsFree ==
  ASSUME FreeInodes # {}
  PROVE  FirstFree \in FreeInodes
<1>1. IsWellFoundedOn(OpToRel(<, Nat), Nat)
  BY NatLessThanWellFounded
<1>2. PICK T : T = FreeInodes
  OBVIOUS
<1>3. T \in SUBSET Nat /\ T # {}
  BY <1>2 DEF FreeInodes, Inums
<1>4. \E x \in T : \A y \in T : ~ (<<y, x>> \in OpToRel(<, Nat))
  BY <1>1, <1>3, WFMin
<1>5. \A x \in T, y \in T : ~ (<<y, x>> \in OpToRel(<, Nat)) => x <= y
  BY <1>3 DEF OpToRel
<1>6. \E x \in T : \A y \in T : x <= y
  BY <1>4, <1>5
<1> QED
  BY <1>2, <1>6 DEF FirstFree

\* Nobody uses or names a free inode.
LEMMA FreeUnused ==
  ASSUME FsInv, NEW f \in Inums, ~Live(f)
  PROVE  /\ \A r \in Procs : ~Uses(r, f)
         /\ \A x \in Inums : \A m \in DOMAIN ent[x] : ent[x][m] # f
         /\ DOMAIN ent[f] = {} /\ f # ROOTINO /\ ~valid[f]
         /\ NamesOf(f) = {} /\ SubdirsOf(f) = {} /\ Debt(f) = {}
<1>1. /\ \A r \in Procs : ~Uses(r, f)
      /\ \A x \in Inums : \A m \in DOMAIN ent[x] : ent[x][m] # f
      /\ DOMAIN ent[f] = {} /\ f # ROOTINO
  BY DEF FsInv, Alive, Live
<1>2. ~valid[f]
  BY DEF FsInv, Cached, Live
<1>3. NamesOf(f) = {} /\ SubdirsOf(f) = {}
  BY <1>1 DEF NamesOf, NamesIn, SubdirsOf, SubdirsIn
<1>4. Debt(f) = {}
  BY <1>1 DEF Debt, Uses
<1> QED
  BY <1>1, <1>2, <1>3, <1>4

\* ialloc() of f with directory d locked and in memory.
LEMMA IallocSound ==
  ASSUME FsInv, NEW d \in Inums, Live(d), NEW f \in Inums, ~Live(f), Loaded(d),
         NEW y \in [type : FileTypes, nlink : Int], disk' = [disk EXCEPT ![f] = y]
  PROVE  /\ CacheSound /\ disk' \in [Inums -> [type : FileTypes, nlink : Int]]
         /\ disk'[f] = y /\ \A x \in Inums \ {f} : disk'[x] = disk[x]
<1>1. /\ cache \in [Inums -> InodeSet] /\ disk \in [Inums -> InodeSet]
      /\ valid \in [Inums -> BOOLEAN] /\ y \in InodeSet /\ Cached
  BY DEF FsInv, FsType, InodeSet
<1>2. Inode(d) = disk[d] /\ d # f /\ ~valid[f]
  BY <1>1, InodeDisk, FreeUnused
<1>3. /\ cache' = [cache EXCEPT ![d] = disk[d]] /\ valid' = [valid EXCEPT ![d] = TRUE]
  BY <1>2 DEF Loaded
<1>4. /\ cache' \in [Inums -> InodeSet] /\ disk' \in [Inums -> InodeSet]
      /\ valid' \in [Inums -> BOOLEAN]
  BY <1>1, <1>3
<1>5. disk'[f] = y /\ \A x \in Inums \ {f} : disk'[x] = disk[x]
  BY <1>1
<1>6. Cached'
  <2>1. ASSUME NEW x \in Inums, valid'[x] PROVE cache'[x] = disk'[x] /\ disk'[x].type # "none"
    <3>1. CASE x = d
      BY <1>1, <1>2, <1>3, <1>5, <3>1 DEF Live
    <3>2. CASE x # d
      <4>1. valid[x] /\ cache'[x] = cache[x] /\ x # f
        BY <1>1, <1>2, <1>3, <2>1, <3>2
      <4> QED
        BY <1>1, <1>5, <4>1 DEF Cached
    <3> QED
      BY <3>1, <3>2
  <2> QED
    BY <2>1 DEF Cached
<1> QED
  BY <1>4, <1>5, <1>6 DEF CacheSound, InodeSet

\* create() of a new name: ialloc(), with the directory kept locked.
LEMMA CreateAlloc ==
  ASSUME FsInv, NEW p \in Procs, CreateLookup(p),
         Dirlookup(proc[p].at, Head(proc[p].path)) = 0
  PROVE  FsInv'
<1>0. FsType /\ Shape /\ LinkBook /\ Cached /\ Alive
  BY DEF FsInv
<1>1. PICK q, d, f, n : q = proc[p] /\ d = proc[p].at /\ f = FirstFree /\ n = Head(proc[p].path)
  OBVIOUS
<1>2. /\ q \in CallRec /\ q.at = d /\ d \in Inums /\ d # 0 /\ q.ip = 0 /\ q.put = 0 /\ Uses(p, d)
      /\ CanLock(d) /\ q.call \in {"create", "mkdir", "mknod"} /\ ~Owes(proc[p])
      /\ q.path \in Seq(Names \cup {Dot}) /\ q.path # <<>> /\ q.ret \in Stages
  <2>1. /\ proc[p].pc = "parent" /\ proc[p].call \in {"create", "mkdir", "mknod"}
        /\ CanLock(proc[p].at)
    BY DEF CreateLookup
  <2>2. /\ proc[p].at # 0 /\ proc[p].ip = 0 /\ proc[p].put = 0 /\ Stage(proc[p]) = "parent"
    BY <2>1, AtStage DEF Stages
  <2>3. proc[p].at \in Inums
    BY <1>0, <2>2, ShapeInums
  <2>4. proc[p].path # <<>>
    BY <1>0, <2>2 DEF Shape, ShapeOf
  <2> QED
    BY <1>0, <1>1, <2>1, <2>2, <2>3, <2>4, RecOf DEF Uses, Owes
<1>3. n \in Names /\ n \notin DOMAIN ent[d]
  BY <1>1, <1>2, NameFree
<1>4. /\ FreeInodes # {} /\ Iget(f) /\ Loaded(d)
      /\ disk' = [disk EXCEPT ![f] = [type |-> TypeOf(q.call), nlink |-> 0]]
      /\ lock' = [lock EXCEPT ![d] = p] /\ Goto(p, [q EXCEPT !.ip = f], "new")
      /\ ent' = ent /\ file' = file /\ cwd' = cwd /\ calls' = calls
  BY <1>1 DEF CreateLookup
<1>5. f \in Inums /\ ~Live(f) /\ f # 0 /\ f \in 0 .. ninodes - 1 /\ d \in 0 .. ninodes - 1
  BY <1>1, <1>2, <1>4, FirstFreeIsFree DEF FreeInodes, Live, Inums
<1>6. Live(d) /\ d # f
  BY <1>2, <1>5, UsedLive
<1>7. PICK y : y = [type |-> TypeOf(q.call), nlink |-> 0]
  OBVIOUS
<1>8. /\ y \in [type : FileTypes, nlink : Int] /\ y.type = TypeOf(q.call) /\ y.nlink = 0
      /\ y.type # "none"
  BY <1>7 DEF TypeOf, FileTypes
<1>9. /\ CacheSound /\ disk' \in [Inums -> [type : FileTypes, nlink : Int]]
      /\ disk'[f] = y /\ \A x \in Inums \ {f} : disk'[x] = disk[x]
  BY <1>2, <1>4, <1>5, <1>6, <1>7, <1>8, IallocSound
<1>10. PICK r : r = [q EXCEPT !.ip = f]
  OBVIOUS
<1>11. /\ r \in CallRec /\ r.call = q.call /\ r.path = q.path /\ r.at = d /\ r.ip = f
       /\ r.put = 0 /\ r.ret = q.ret
  BY <1>2, <1>5, <1>10 DEF CallRec
<1>12. Now(p, "new", q.call, q.path, d, f, 0, q.ret)
  BY <1>0, <1>4, <1>10, <1>11, GotoRec DEF Stages
<1>13. /\ proc'[p].pc = "new" /\ proc'[p].call = q.call /\ proc'[p].path = q.path
       /\ proc'[p].at = d /\ proc'[p].ip = f /\ proc'[p].put = 0 /\ Stage(proc'[p]) = "new"
       /\ proc' \in [Procs -> CallRec]
  BY <1>12 DEF Now, Stage
<1>14. Only(p)
  BY <1>4, <1>12 DEF Now, Only
<1>15. lock'[d] = p /\ LocksSound(p)
  BY <1>0, <1>2, <1>4, LockChange DEF FsType
<1>16. /\ ref' \in [Inums -> Int]
       /\ \A j \in Inums : ref'[j] = ref[j] + One(f, j)
  BY <1>4, <1>5, IgetOne
<1>17. FsType'
  BY <1>0, <1>4, <1>9, <1>13, <1>15, <1>16 DEF FsType, CacheSound, LocksSound
<1>18. Cached'
  BY <1>9 DEF CacheSound
<1>19. ShapeOf(proc'[p])
  BY <1>2, <1>5, <1>13 DEF ShapeOf, AtStages, IpStages
<1>20. LocksKept(p)
  BY <1>13, <1>15 DEF LocksKept, LocksSound, LocksIp
<1>21. \A x \in Inums : ref'[x] = ref[x] + Change(p, x)
  <2> TAKE x \in Inums
  <2>1. Change(p, x) = (One(cwd[p], x) + One(file[p], x) + One(d, x) + One(f, x) + One(0, x))
           - (One(cwd[p], x) + One(file[p], x) + One(proc[p].at, x) + One(proc[p].ip, x)
              + One(proc[p].put, x))
    BY <1>4, <1>13, ChangeOf
  <2>2. One(f, x) = Change(p, x)
    BY <1>1, <1>2, <2>1 DEF One, Inums
  <2> QED
    BY <1>16, <2>2
<1>22. /\ \A s \in Procs : ~Uses(s, f)
       /\ \A x \in Inums : \A m \in DOMAIN ent[x] : ent[x][m] # f
       /\ DOMAIN ent[f] = {} /\ f # ROOTINO
       /\ NamesOf(f) = {} /\ SubdirsOf(f) = {} /\ Debt(f) = {}
  BY <1>5, FreeUnused
<1>23. \A x \in Inums : Uses(p, x)' => Uses(p, x) \/ x = f
  BY <1>1, <1>4, <1>13 DEF Uses, Inums
<1>24. Alive'
  <2>1. \A x \in Inums : Live(x) => disk'[x].type = disk[x].type
    BY <1>5, <1>9
  <2>2. \A x \in Inums : Uses(p, x)' => disk'[x].type # "none"
    <3> TAKE x \in Inums
    <3> HAVE Uses(p, x)'
    <3>1. CASE x = f
      BY <1>8, <1>9, <3>1
    <3>2. CASE x # f
      BY <1>9, <1>23, <3>2, UsedLive DEF Live
    <3> QED
      BY <3>1, <3>2
  <2> QED
    BY <1>4, <1>14, <2>1, <2>2, AliveStep
<1>25. LinkBook'
  <2>1. ASSUME NEW x \in Inums
        PROVE  disk'[x].nlink >= Cardinality(NamesOf(x)') + Cardinality(SubdirsOf(x)')
                                 + Cardinality(Debt(x)') + (IF x = ROOTINO THEN 1 ELSE 0)
    <3>1. NamesOf(x)' = NamesOf(x)
      BY <1>4 DEF NamesOf, NamesIn
    <3>2. SubdirsOf(x)' = SubdirsOf(x)
      <4>1. \A m \in DOMAIN ent[x] : ent[x][m] \in Inums \ {f}
        BY <1>0, <1>22 DEF FsType
      <4> QED
        BY <1>4, <1>9, <4>1 DEF SubdirsOf, SubdirsIn
    <3>3. Debt(x)' = Debt(x)
      <4>1. ~Owes(proc'[p])
        BY <1>13 DEF Owes
      <4> QED
        BY <1>2, <1>14, <4>1, DebtSame
    <3>4. CASE x = f
      <4>1. Cardinality({}) = 0
        BY FS_EmptySet
      <4>2. NamesOf(x) = {} /\ SubdirsOf(x) = {} /\ Debt(x) = {}
        BY <1>22, <3>4
      <4>3. disk'[x].nlink = 0 /\ x # ROOTINO
        BY <1>8, <1>9, <1>22, <3>4
      <4>4. /\ Cardinality(NamesOf(x)') = 0 /\ Cardinality(SubdirsOf(x)') = 0
            /\ Cardinality(Debt(x)') = 0
        BY <3>1, <3>2, <3>3, <4>1, <4>2
      <4> QED
        BY <4>3, <4>4
    <3>5. CASE x # f
      <4>1. disk'[x].nlink = disk[x].nlink
        BY <1>9, <3>5
      <4> QED
        BY <3>1, <3>2, <3>3, <4>1, LinkBookFewer
    <3> QED
      BY <3>4, <3>5
  <2> QED
    BY <2>1, LinkBookAll
<1>26. Touches(p)
  BY <1>4, <1>5, <1>9, <1>22 DEF Touches
<1>27. Fresh(p)'
  <2>1. /\ Head(proc'[p].path) \in Names /\ Head(proc'[p].path) \notin DOMAIN ent'[d]
    BY <1>1, <1>3, <1>4, <1>13
  <2>2. disk'[f].nlink = 0 /\ DOMAIN ent'[f] = {} /\ disk'[f].type = TypeOf(proc'[p].call)
    BY <1>4, <1>8, <1>9, <1>13, <1>22
  <2>3. cwd'[p] # f /\ file'[p] # f
    BY <1>4, <1>22 DEF Uses
  <2>4. ASSUME NEW s \in Procs \ {p} PROVE ~Uses(s, f)'
    BY <1>14, <1>22, OthersUse
  <2>5. \A s \in Procs \ {p} : ~Uses(s, proc[p].ip)'
    BY <1>13, <2>4 DEF Uses
  <2> QED
    BY <1>13, <2>1, <2>2, <2>3, <2>5 DEF Fresh
<1>28. \A x \in Inums : Uses(p, x)' => Uses(p, x) \/ Named(x) \/ ~Live(x)
  BY <1>5, <1>23
<1>29. Stage(proc'[p]) \notin {"unlink", "walk", "parent"}
  BY <1>13
<1> QED
  BY <1>14, <1>17, <1>18, <1>19, <1>20, <1>21, <1>24, <1>25, <1>26, <1>27, <1>28, <1>29, ChangeStep

LEMMA CreateLookupStep ==
  ASSUME FsInv, NEW p \in Procs, CreateLookup(p)
  PROVE  FsInv'
BY CreateFound, CreateAlloc

LEMMA LinkEntryStep ==
  ASSUME FsInv, NEW p \in Procs, LinkEntry(p)
  PROVE  FsInv'
BY LinkFound, LinkNew

\* An entry is erased, and what that takes from names.
LEMMA EntryErased ==
  ASSUME FsInv, NEW d \in Inums, NEW n \in DOMAIN ent[d], NEW i \in Inums, ent[d][n] = i,
         DOMAIN ent' = Inums, \A x \in Inums \ {d} : ent'[x] = ent[x],
         DOMAIN ent'[d] = DOMAIN ent[d] \ {n},
         \A m \in DOMAIN ent[d] \ {n} : ent'[d][m] = ent[d][m]
  PROVE  /\ \A x \in Inums : /\ DOMAIN ent'[x] \subseteq Names
                             /\ \A m \in DOMAIN ent'[x] : ent'[x][m] \in Inums
         /\ \A x \in Inums : /\ Cardinality(NamesOf(x)) \in Nat
                             /\ Cardinality(NamesOf(x)') = Cardinality(NamesOf(x)) - One(i, x)
<1>0. FsType
  BY DEF FsInv
<1>1. /\ DOMAIN ent = Inums
      /\ \A x \in Inums : /\ DOMAIN ent[x] \subseteq Names
                          /\ \A m \in DOMAIN ent[x] : ent[x][m] \in Inums
  BY <1>0 DEF FsType
<1>4. \A x \in Inums : /\ DOMAIN ent'[x] \subseteq Names
                       /\ \A m \in DOMAIN ent'[x] : ent'[x][m] \in Inums
  BY <1>1
<1>5. ASSUME NEW x \in Inums
      PROVE  /\ Cardinality(NamesOf(x)) \in Nat
             /\ Cardinality(NamesOf(x)') = Cardinality(NamesOf(x)) - One(i, x)
  <2>1. PICK A, B, e : A = NamesOf(x) /\ B = NamesOf(x)' /\ e = <<d, n>>
    OBVIOUS
  <2>2. IsFiniteSet(A)
    BY <1>0, <2>1, CountedFinite
  <2>3. e \notin B /\ (e \in A <=> i = x)
    <3>1. n \in Names
      BY <1>1
    <3> QED
      BY <2>1, <3>1 DEF NamesOf, NamesIn
  <2>4. A \ {e} = B \ {e}
    <3>1. ASSUME NEW h \in Inums \X Names, h # e
          PROVE  (h[2] \in DOMAIN ent[h[1]] /\ ent[h[1]][h[2]] = x)
                   <=> (h[2] \in DOMAIN ent'[h[1]] /\ ent'[h[1]][h[2]] = x)
      <4>1. CASE h[1] = d
        <5>1. h[2] # n
          BY <2>1, <3>1, <4>1
        <5> QED
          BY <4>1, <5>1
      <4>2. CASE h[1] # d
        BY <4>2
      <4> QED
        BY <4>1, <4>2
    <3> QED
      BY <2>1, <3>1 DEF NamesOf, NamesIn
  <2>5. /\ Cardinality(A) \in Nat /\ Cardinality(B) \in Nat
        /\ Cardinality(B) = Cardinality(A) + (IF e \in B THEN 1 ELSE 0) - (IF e \in A THEN 1 ELSE 0)
    BY <2>2, <2>4, CardStep
  <2> QED
    BY <2>1, <2>3, <2>5 DEF One
<1> QED
  BY <1>4, <1>5

\* The subdirectories of d without the entry.
LEMMA SubdirsErased ==
  ASSUME FsInv, NEW d \in Inums, NEW n \in DOMAIN ent[d], NEW i, ent[d][n] = i,
         \A x \in Inums \ {d} : ent'[x] = ent[x], DOMAIN ent'[d] = DOMAIN ent[d] \ {n},
         \A m \in DOMAIN ent[d] \ {n} : ent'[d][m] = ent[d][m],
         \A x \in Inums : disk'[x].type = disk[x].type, NEW x \in Inums
  PROVE  /\ Cardinality(SubdirsOf(x)) \in Nat /\ Cardinality(SubdirsOf(x)') \in Nat
         /\ Cardinality(SubdirsOf(x)') = Cardinality(SubdirsOf(x))
              - (IF x = d /\ disk[i].type = "DIR" THEN 1 ELSE 0)
<1>0. FsType
  BY DEF FsInv
<1>1. IsFiniteSet(SubdirsOf(x)) /\ Cardinality(SubdirsOf(x)) \in Nat
  BY <1>0, CountedFinite
<1>2. \A y \in Inums : \A m \in DOMAIN ent[y] : ent[y][m] \in Inums
  BY <1>0 DEF FsType
<1>3. CASE x # d
  <2>1. SubdirsOf(x)' = SubdirsOf(x)
    BY <1>2, <1>3 DEF SubdirsOf, SubdirsIn
  <2> QED
    BY <1>1, <1>3, <2>1
<1>4. CASE x = d
  <2>1. PICK A, B : A = SubdirsOf(x) /\ B = SubdirsOf(x)'
    OBVIOUS
  <2>2. IsFiniteSet(A) /\ n \notin B /\ (n \in A <=> disk[i].type = "DIR")
    BY <1>1, <1>4, <2>1 DEF SubdirsOf, SubdirsIn
  <2>3. A \ {n} = B \ {n}
    BY <1>2, <1>4, <2>1 DEF SubdirsOf, SubdirsIn
  <2>4. /\ Cardinality(A) \in Nat /\ Cardinality(B) \in Nat
        /\ Cardinality(B) = Cardinality(A) + (IF n \in B THEN 1 ELSE 0) - (IF n \in A THEN 1 ELSE 0)
    BY <2>2, <2>3, CardStep
  <2> QED
    BY <1>4, <2>1, <2>2, <2>4
<1> QED
  BY <1>3, <1>4

\* unlink() erases the entry; the link it had is owed.
LEMMA UnlinkEraseStep ==
  ASSUME FsInv, NEW p \in Procs, UnlinkErase(p)
  PROVE  FsInv'
<1>0. FsType /\ Shape /\ LinkBook /\ Cached
  BY DEF FsInv
<1>1. PICK q, d, i, n : q = proc[p] /\ d = proc[p].at /\ i = proc[p].ip /\ n = Head(proc[p].path)
  OBVIOUS
<1>2. /\ q \in CallRec /\ q.at = d /\ q.ip = i /\ d \in Inums /\ i \in Inums /\ d # 0 /\ i # 0
      /\ q.put = 0 /\ Uses(p, d) /\ Uses(p, i) /\ lock[d] = p /\ CanLock(i) /\ d # i
      /\ 0 \in 0 .. ninodes - 1 /\ d \in 0 .. ninodes - 1 /\ ~Owes(proc[p])
      /\ n \in DOMAIN ent[d] /\ ent[d][n] = i
  <2>1. proc[p].pc = "unlink" /\ CanLock(proc[p].ip)
    BY DEF UnlinkErase
  <2>2. /\ proc[p].at # 0 /\ proc[p].ip # 0 /\ proc[p].put = 0 /\ Stage(proc[p]) = "unlink"
        /\ lock[proc[p].at] = p
    BY <2>1, AtStage DEF Stages
  <2>3. /\ proc[p].at \in Inums /\ proc[p].ip \in Inums
    BY <1>0, <2>2, ShapeInums
  <2>4. d # i
    BY <1>1, <2>1, <2>2 DEF CanLock
  <2>5. EntryOf(proc[p])
    BY <2>2 DEF FsInv, Erasing
  <2> QED
    BY <1>0, <1>1, <2>1, <2>2, <2>3, <2>4, <2>5, RecOf DEF Uses, Owes, Inums, EntryOf
<1>4. Live(d) /\ Live(i)
  BY <1>2, UsedLive
<1>5. PICK v, w, k : /\ k = IF disk[i].type = "DIR" THEN disk[d].nlink - 1 ELSE disk[d].nlink
                     /\ v = (IF Inode(i).type = "DIR" THEN [Inode(d) EXCEPT !.nlink = @ - 1] ELSE Inode(d))
                     /\ w = Inode(i)
  OBVIOUS
<1>6. /\ disk[d] \in [type : FileTypes, nlink : Int] /\ disk[i] \in [type : FileTypes, nlink : Int]
      /\ Inode(d) = disk[d] /\ Inode(i) = disk[i] /\ disk[d].nlink \in Int /\ k \in Int
  BY <1>0, <1>2, <1>5, InodeDisk DEF FsType
<1>7. /\ v \in [type : FileTypes, nlink : Int] /\ v.type = disk[d].type /\ v.nlink = k
      /\ w \in [type : FileTypes, nlink : Int] /\ w = disk[i]
      /\ v.type # "none" /\ w.type # "none"
  BY <1>4, <1>5, <1>6 DEF Live
<1>8. /\ IupdateBoth(d, v, i, w)
      /\ ent' = [ent EXCEPT ![d] = Restrict(@, DOMAIN @ \ {n})]
      /\ lock' = [lock EXCEPT ![d] = NoProc, ![i] = p]
      /\ PutThen(p, [q EXCEPT !.at = 0], d, "erased")
      /\ ref' = ref /\ file' = file /\ cwd' = cwd /\ calls' = calls
  BY <1>1, <1>5 DEF UnlinkErase
<1>9. /\ CacheSound /\ disk' \in [Inums -> [type : FileTypes, nlink : Int]]
      /\ disk'[d] = v /\ disk'[i] = w /\ \A x \in Inums \ {d, i} : disk'[x] = disk[x]
  BY <1>2, <1>7, <1>8, IupdateBothSound
<1>10. \A x \in Inums : disk'[x].type = disk[x].type
  BY <1>7, <1>9
<1>11. PICK r : r = [q EXCEPT !.at = 0]
  OBVIOUS
<1>12. r \in CallRec /\ r.call = q.call /\ r.path = q.path /\ r.at = 0 /\ r.ip = i
  BY <1>2, <1>11 DEF CallRec
<1>13. Now(p, "put", q.call, q.path, 0, i, d, "erased")
  BY <1>0, <1>2, <1>8, <1>11, <1>12, PutThenRec, ZenonT(30) DEF Stages
<1>14. lock'[i] = p /\ LocksSound(p)
  <2>1. lock \in [Inums -> Procs \cup {NoProc}]
    BY <1>0 DEF FsType
  <2> QED
    BY <1>2, <1>8, <2>1 DEF LocksSound, CanLock
<1>15. Fits(p, "put", q.call, q.path, 0, i, d, "erased", "erased")
  BY <1>2, <1>14 DEF Fits, LocksAt, LocksIp, AtStages, IpStages
<1>16. RefsMoved(p, cwd[p], file[p], 0, i, d)
  BY <1>1, <1>2, <1>8, RefsTyped DEF RefsMoved, Refs, One, Inums
<1>17. Found(p, cwd[p], file[p], 0, i, d)
  BY <1>2 DEF Found, Uses
<1>18. /\ DOMAIN ent' = Inums /\ \A x \in Inums \ {d} : ent'[x] = ent[x]
       /\ DOMAIN ent'[d] = DOMAIN ent[d] \ {n}
       /\ \A m \in DOMAIN ent[d] \ {n} : ent'[d][m] = ent[d][m]
       /\ \A x \in Inums : /\ DOMAIN ent'[x] \subseteq Names
                           /\ \A m \in DOMAIN ent'[x] : ent'[x][m] \in Inums
       /\ \A x \in Inums : /\ Cardinality(NamesOf(x)) \in Nat
                           /\ Cardinality(NamesOf(x)') = Cardinality(NamesOf(x)) - One(i, x)
  <2>1. DOMAIN ent = Inums
    BY <1>0 DEF FsType
  <2>2. /\ DOMAIN ent' = Inums /\ \A x \in Inums \ {d} : ent'[x] = ent[x]
        /\ ent'[d] = [m \in DOMAIN ent[d] \ {n} |-> ent[d][m]]
    BY <1>2, <1>8, <2>1 DEF Restrict
  <2>3. /\ DOMAIN ent'[d] = DOMAIN ent[d] \ {n}
        /\ \A m \in DOMAIN ent[d] \ {n} : ent'[d][m] = ent[d][m]
    BY <2>2
  <2>4. DOMAIN ent' = Inums /\ \A x \in Inums \ {d} : ent'[x] = ent[x]
    BY <2>2
  <2> QED
    BY <1>2, <2>3, <2>4, EntryErased
<1>19. Only(p)
  BY <1>8, <1>13 DEF Now, Only
<1>20. Alive'
  <2>1. \A x \in {proc'[p].at, proc'[p].ip, proc'[p].put} : x # 0 => Uses(p, x)
    BY <1>2, <1>13 DEF Now
  <2>2. \A x \in Inums : \A m \in DOMAIN ent'[x] : m \in DOMAIN ent[x] /\ ent'[x][m] = ent[x][m]
    BY <1>2, <1>18
  <2>3. \A x \in Inums : DOMAIN ent'[x] \subseteq DOMAIN ent[x]
    BY <1>2, <1>18
  <2> QED
    BY <1>8, <1>10, <1>19, <2>1, <2>2, <2>3, AliveKept
<1>21. LinkBook'
  <2>1. ASSUME NEW x \in Inums
        PROVE  disk'[x].nlink >= Cardinality(NamesOf(x)') + Cardinality(SubdirsOf(x)')
                                 + Cardinality(Debt(x)') + (IF x = ROOTINO THEN 1 ELSE 0)
    <3>1. /\ Cardinality(Debt(x)) \in Nat
          /\ Cardinality(Debt(x)') = Cardinality(Debt(x)) + One(i, x)
      <4>1. Owes(proc'[p]) /\ proc'[p].ip = i
        BY <1>2, <1>13 DEF Now, Owes, Stage
      <4>2. /\ Cardinality(Debt(x)) \in Nat /\ Cardinality(Debt(x)') \in Nat
            /\ Cardinality(Debt(x)') = Cardinality(Debt(x))
                 + (IF Owes(proc'[p]) /\ proc'[p].ip = x THEN 1 ELSE 0)
                 - (IF Owes(proc[p]) /\ proc[p].ip = x THEN 1 ELSE 0)
        BY <1>0, <1>19, DebtStep
      <4> QED
        BY <1>2, <4>1, <4>2 DEF One
    <3>2. /\ Cardinality(SubdirsOf(x)) \in Nat /\ Cardinality(SubdirsOf(x)') \in Nat
          /\ Cardinality(SubdirsOf(x)') = Cardinality(SubdirsOf(x))
               - (IF x = d /\ disk[i].type = "DIR" THEN 1 ELSE 0)
      BY <1>2, <1>10, <1>18, SubdirsErased
    <3>3. disk[x].nlink >= Cardinality(NamesOf(x)) + Cardinality(SubdirsOf(x))
                           + Cardinality(Debt(x)) + (IF x = ROOTINO THEN 1 ELSE 0)
      BY <1>0 DEF LinkBook
    <3>4. Cardinality(NamesOf(x)) \in Nat /\ disk[x].nlink \in Int
      BY <1>0, CountedFinite DEF FsType
    <3>5. Cardinality(NamesOf(x)') = Cardinality(NamesOf(x)) - One(i, x) /\ One(i, x) \in Int
      BY <1>18 DEF One
    <3>6. CASE x = d
      <4>1. /\ disk'[x].nlink = disk[x].nlink - (IF disk[i].type = "DIR" THEN 1 ELSE 0)
            /\ Cardinality(SubdirsOf(x)') = Cardinality(SubdirsOf(x))
                 - (IF disk[i].type = "DIR" THEN 1 ELSE 0)
        BY <1>5, <1>6, <1>7, <1>9, <3>2, <3>6
      <4> QED
        BY <3>1, <3>2, <3>3, <3>4, <3>5, <4>1, SMTT(30)
    <3>7. CASE x # d
      <4>0. Cardinality(SubdirsOf(x)') = Cardinality(SubdirsOf(x))
        BY <3>2, <3>7
      <4>1. disk'[x].nlink = disk[x].nlink
        BY <1>7, <1>9, <3>7
      <4> QED
        BY <3>1, <3>2, <3>3, <3>4, <3>5, <4>0, <4>1
    <3> QED
      BY <3>6, <3>7
  <2> QED
    BY <2>1, LinkBookAll
<1>22. Touches(p)
  <2>1. \A r2 \in Procs \ {p} : lock[d] # r2
    BY <1>2
  <2> QED
    BY <1>2, <1>9, <1>10, <1>18, <2>1 DEF Touches
<1>23. ref' \in [Inums -> Int] /\ calls' = calls /\ cwd' = cwd /\ file' = file /\ LocksSound(p)
  BY <1>8, <1>14, RefsTyped
<1>24. CacheSound /\ disk' \in [Inums -> [type : FileTypes, nlink : Int]]
  BY <1>9
<1>25. /\ DOMAIN ent' = Inums
       /\ \A x \in Inums : /\ DOMAIN ent'[x] \subseteq Names
                           /\ \A m \in DOMAIN ent'[x] : ent'[x][m] \in Inums
  BY <1>18
<1> QED
  BY <1>13, <1>15, <1>16, <1>17, <1>20, <1>21, <1>22, <1>23, <1>24, <1>25, ChangeNow

-----------------------------------------------------------------------------
(* The invariant.                                                           *)

LEMMA FsInitInv ==
  ASSUME FsInit
  PROVE  FsInv
<1>1. PICK m \in Images : disk = m.disk /\ ent = m.ent
  BY DEF FsInit
<1>2. SoundImage(m)
  BY <1>1
<1>3. /\ disk \in [Inums -> [type : FileTypes, nlink : Nat]] /\ DOMAIN ent = Inums
      /\ disk[ROOTINO].type = "DIR"
      /\ \A i \in Inums :
           /\ DOMAIN ent[i] \subseteq Names
           /\ \A n \in DOMAIN ent[i] : ent[i][n] \in Inums /\ disk[ent[i][n]].type # "none"
           /\ disk[i].type = "none" => DOMAIN ent[i] = {}
           /\ disk[i].nlink >= Cardinality(NamesIn(ent, i)) + Cardinality(SubdirsIn(disk, ent, i))
                                 + (IF i = ROOTINO THEN 1 ELSE 0)
  BY <1>1, <1>2 DEF SoundImage
<1>4. /\ cache = [i \in Inums |-> Free] /\ valid = [i \in Inums |-> FALSE]
      /\ ref = [i \in Inums |-> IF i = ROOTINO THEN Cardinality(Procs) ELSE 0]
      /\ lock = [i \in Inums |-> NoProc]
      /\ file = [p \in Procs |-> 0] /\ cwd = [p \in Procs |-> ROOTINO]
      /\ proc = [p \in Procs |-> Idle] /\ calls = [p \in Procs |-> 0]
  BY DEF FsInit
<1>5. \A p \in Procs : /\ proc[p] = Idle /\ proc[p].pc = "idle" /\ Stage(proc[p]) = "idle"
                       /\ proc[p].at = 0 /\ proc[p].ip = 0 /\ proc[p].put = 0
                       /\ cwd[p] = ROOTINO /\ file[p] = 0
  BY <1>4, IdleRec DEF Stage
<1>6. FsType
  <2>1. Cardinality(Procs) \in Nat
    BY FS_CardinalityType
  <2>2. Free \in [type : FileTypes, nlink : Int]
    BY DEF Free, FileTypes
  <2>3. disk \in [Inums -> [type : FileTypes, nlink : Int]]
    BY <1>3
  <2>4. cache \in [Inums -> [type : FileTypes, nlink : Int]]
    BY <1>4, <2>2
  <2>5. /\ valid \in [Inums -> BOOLEAN] /\ ref \in [Inums -> Int]
        /\ lock \in [Inums -> Procs \cup {NoProc}]
    BY <1>4, <2>1
  <2>6. /\ file \in [Procs -> 0 .. ninodes - 1] /\ cwd \in [Procs -> Inums]
        /\ proc \in [Procs -> CallRec] /\ calls \in [Procs -> Nat]
    BY <1>4, IdleRec DEF Inums
  <2> QED
    BY <1>3, <2>3, <2>4, <2>5, <2>6 DEF FsType
<1>7. Cached
  BY <1>4 DEF Cached
<1>8. Shape
  BY <1>5 DEF Shape, ShapeOf, AtStages, IpStages
<1>9. Alive
  <2>1. \A p \in Procs, i \in Inums : Uses(p, i) => i = ROOTINO
    BY <1>5 DEF Uses, Inums
  <2> QED
    BY <1>3, <2>1 DEF Alive, Live
<1>10. LockOwned /\ Erasing /\ Making /\ Linking
  BY <1>5 DEF LockOwned, LocksAt, LocksIp, Erasing, Making, Linking
<1>11. RefsExact
  <2> SUFFICES ASSUME NEW i \in Inums PROVE ref[i] = Cardinality(Holders(i))
    BY DEF RefsExact
  <2>1. CASE i = ROOTINO
    <3>1. Holders(i) = Procs \X {"cwd"}
      BY <1>5, <2>1 DEF Holders
    <3>2. IsFiniteSet({"cwd"}) /\ Cardinality({"cwd"}) = 1
      BY FS_Singleton
    <3>3. Cardinality(Procs \X {"cwd"}) = Cardinality(Procs) * 1
      BY <3>2, FS_Product
    <3>4. Cardinality(Procs) \in Nat
      BY FS_CardinalityType
    <3>5. ref[i] = Cardinality(Procs)
      BY <1>4, <2>1
    <3>6. Cardinality(Procs \X {"cwd"}) = Cardinality(Procs)
      BY <3>3, <3>4
    <3> QED
      BY <3>1, <3>5, <3>6
  <2>2. CASE i # ROOTINO
    <3>1. Holders(i) = {}
      BY <1>5, <2>2 DEF Holders, Inums
    <3> QED
      BY <1>4, <2>2, <3>1, FS_EmptySet
  <2> QED
    BY <2>1, <2>2
<1>12. LinkBook
  <2> SUFFICES ASSUME NEW i \in Inums
               PROVE  disk[i].nlink >= Cardinality(NamesOf(i)) + Cardinality(SubdirsOf(i))
                                       + Cardinality(Debt(i)) + (IF i = ROOTINO THEN 1 ELSE 0)
    BY DEF LinkBook
  <2>1. Debt(i) = {}
    BY <1>5 DEF Debt, Owes
  <2>2. Cardinality(Debt(i)) = 0
    BY <2>1, FS_EmptySet
  <2>3. /\ Cardinality(NamesOf(i)) \in Nat /\ Cardinality(SubdirsOf(i)) \in Nat
    BY <1>6, CountedFinite
  <2>4. disk[i].nlink >= Cardinality(NamesOf(i)) + Cardinality(SubdirsOf(i))
                         + (IF i = ROOTINO THEN 1 ELSE 0)
    BY <1>3 DEF NamesOf, SubdirsOf
  <2>5. disk[i].nlink \in Int
    BY <1>3
  <2> QED
    BY <2>2, <2>3, <2>4, <2>5
<1> QED
  BY <1>6, <1>7, <1>8, <1>9, <1>10, <1>11, <1>12 DEF FsInv

LEMMA FsStutter ==
  ASSUME FsInv, UNCHANGED fsVars
  PROVE  FsInv'
<1>1. /\ disk' = disk /\ cache' = cache /\ valid' = valid /\ ref' = ref /\ lock' = lock
      /\ ent' = ent /\ file' = file /\ cwd' = cwd /\ proc' = proc /\ calls' = calls
  BY DEF fsVars
<1>2. FsType' /\ Cached'
  BY <1>1 DEF FsInv, FsType, Cached
<1>3. Shape' /\ LockOwned'
  BY <1>1 DEF FsInv, Shape, LockOwned
<1>4. Alive'
  BY <1>1 DEF FsInv, Alive, Live, Uses
<1>5. RefsExact'
  BY <1>1 DEF FsInv, RefsExact, Holders
<1>6. LinkBook'
  BY <1>1 DEF FsInv, LinkBook, NamesOf, SubdirsOf, Debt
<1>7. Erasing'
  BY <1>1 DEF FsInv, Erasing, EntryOf
<1>8. Making'
  BY <1>1 DEF FsInv, Making, Fresh, Uses
<1>9. Linking'
  BY <1>1 DEF FsInv, Linking
<1> QED
  BY <1>2, <1>3, <1>4, <1>5, <1>6, <1>7, <1>8, <1>9 DEF FsInv

LEMMA FsNextInv ==
  ASSUME FsInv, FsNext
  PROVE  FsInv'
<1>1. PICK p \in Procs :
        \/ \E call \in Calls, path \in Paths, from \in {ROOTINO, cwd[p]} : Start(p, call, path, from)
        \/ Walk(p) \/ IputTest(p) \/ IputDrop(p)
        \/ \E rdonly \in BOOLEAN : Open(p, rdonly)
        \/ Chdir(p) \/ Close(p)
        \/ CreateLookup(p) \/ CreateExisting(p) \/ CreateNew(p) \/ Made(p)
        \/ UnlinkLookup(p) \/ UnlinkBusy(p) \/ UnlinkBad(p) \/ UnlinkErase(p) \/ UnlinkCount(p)
        \/ \E new \in Paths, from \in {ROOTINO, cwd[p]} : Link(p, new, from)
        \/ LinkEntry(p) \/ Linked(p) \/ LinkExists(p) \/ LinkBad(p)
  BY DEF FsNext
<1>2. CASE \E call \in Calls, path \in Paths, from \in {ROOTINO, cwd[p]} : Start(p, call, path, from)
  BY <1>2, StartStep
<1>3. CASE Walk(p) \/ IputTest(p) \/ IputDrop(p)
  BY <1>3, WalkStep, IputTestStep, IputDropStep
<1>4. CASE \E rdonly \in BOOLEAN : Open(p, rdonly)
  BY <1>4, OpenStep
<1>5. CASE Chdir(p) \/ Close(p)
  BY <1>5, ChdirStep, CloseStep
<1>6. CASE CreateLookup(p) \/ CreateExisting(p) \/ CreateNew(p) \/ Made(p)
  BY <1>6, CreateLookupStep, CreateExistingStep, CreateNewStep, MadeStep
<1>7. CASE UnlinkLookup(p) \/ UnlinkBusy(p) \/ UnlinkBad(p) \/ UnlinkErase(p) \/ UnlinkCount(p)
  BY <1>7, UnlinkLookupStep, UnlinkBusyStep, UnlinkBadStep, UnlinkEraseStep, UnlinkCountStep
<1>8. CASE \E new \in Paths, from \in {ROOTINO, cwd[p]} : Link(p, new, from)
  BY <1>8, LinkStep
<1>9. CASE LinkEntry(p) \/ Linked(p) \/ LinkExists(p) \/ LinkBad(p)
  BY <1>9, LinkEntryStep, LinkedStep, LinkExistsStep, LinkBadStep
<1> QED
  BY <1>1, <1>2, <1>3, <1>4, <1>5, <1>6, <1>7, <1>8, <1>9

\* The inductive invariant: at every point of every system call the process holds the
\* references and the locks of its stage, the cache agrees with the disk, what is used
\* or named is allocated, and the link counts cover names, ".." entries and the links
\* that calls under way have counted and not yet written, or erased and not yet counted.
THEOREM FsInvariance == FsSpec => []FsInv
<1>1. FsInit => FsInv
  BY FsInitInv
<1>2. FsInv /\ [FsNext]_fsVars => FsInv'
  BY FsNextInv, FsStutter
<1> QED
  BY <1>1, <1>2, PTL DEF FsSpec

LEMMA InodesSoundNow ==
  ASSUME FsInv
  PROVE  InodesSound
<1>1. \A i \in Inums : Inode(i) = disk[i]
  BY InodeDisk DEF FsInv
<1>2. ASSUME NEW i \in Inums, NEW h \in Holders(i), h[2] # "put" \/ proc[h[1]].pc = "put"
      PROVE  Inode(i).type # "none"
  <2>1. h[1] \in Procs /\ Uses(h[1], i)
    BY <1>2 DEF Holders, Uses
  <2>2. Live(i)
    BY <2>1, UsedLive
  <2> QED
    BY <1>1, <2>2 DEF Live
<1>3. ASSUME NEW i \in Inums, NEW n \in DOMAIN ent[i] PROVE Inode(ent[i][n]).type # "none"
  <2>1. ent[i][n] \in Inums /\ Live(ent[i][n])
    BY DEF FsInv, FsType, Alive
  <2> QED
    BY <1>1, <2>1 DEF Live
<1>4. NoDangling
  BY <1>2, <1>3 DEF NoDangling
<1> QED
  BY <1>4 DEF InodesSound, FsInv

\* On every path through every call, error paths included, the reference count of an
\* inode is the number of its users, and no user and no name is left with a freed inode.
THEOREM InodesAreSound == FsSpec => []InodesSound
BY FsInvariance, InodesSoundNow, PTL

LEMMA LinksCoveredNow ==
  ASSUME FsInv
  PROVE  LinksCovered
<1> SUFFICES ASSUME NEW i \in Inums
             PROVE  Inode(i).nlink >= Cardinality(NamesOf(i)) + Cardinality(Subdirs(i))
  BY DEF LinksCovered
<1>0. FsType /\ LinkBook
  BY DEF FsInv
<1>1. \A j \in Inums : Inode(j) = disk[j]
  BY InodeDisk DEF FsInv
<1>2. Subdirs(i) = SubdirsOf(i)
  <2>1. \A n \in DOMAIN ent[i] : ent[i][n] \in Inums
    BY <1>0 DEF FsType
  <2> QED
    BY <1>1, <2>1 DEF Subdirs, SubdirsOf, SubdirsIn
<1>3. /\ Cardinality(NamesOf(i)) \in Nat /\ Cardinality(SubdirsOf(i)) \in Nat
      /\ Cardinality(Debt(i)) \in Nat /\ disk[i].nlink \in Int
  BY <1>0, CountedFinite DEF FsType
<1>4. disk[i].nlink >= Cardinality(NamesOf(i)) + Cardinality(SubdirsOf(i)) + Cardinality(Debt(i))
                       + (IF i = ROOTINO THEN 1 ELSE 0)
  BY <1>0 DEF LinkBook
<1> QED
  BY <1>1, <1>2, <1>3, <1>4

\* The link count never falls below the names an inode has and the ".." in it, also
\* between the two halves of link() and unlink(): no file is freed that has a name.
THEOREM LinksAreCovered == FsSpec => []LinksCovered
BY FsInvariance, LinksCoveredNow, PTL
=============================================================================
