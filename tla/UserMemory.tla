------------------------------ MODULE UserMemory ------------------------------
(***************************************************************************)
(* What user programs may rely on: each process has an image of its own    *)
(* that nobody else reads or changes.  sbrk() adds pages of zeroes or      *)
(* takes pages away, fork() copies, exec() replaces, and a call that fails *)
(* changes nothing, with one exception: sbrk() by minus the size fails and *)
(* takes the whole image.                                                  *)
(***************************************************************************)
EXTENDS Integers, FiniteSets

CONSTANTS
  Procs, Vals, PGSIZE, Programs, NoImage,
  MaxPages        \* pages of the address space

VARIABLE img      \* image of each process: address -> value, or NoImage

\* The pages a program takes.
Size(f) == (Cardinality(DOMAIN f) + PGSIZE - 1) \div PGSIZE

Write(p) ==
  /\ img[p] # NoImage
  /\ \E a \in DOMAIN img[p], v \in Vals : img' = [img EXCEPT ![p][a] = v]

\* What is new reads 0.  There is no gap between new and old, unless the old
\* begins with one.
Grow(p) ==
  /\ img[p] # NoImage
  /\ \E m, n \in 0 .. MaxPages :
       LET new == m * PGSIZE .. n * PGSIZE - 1 IN
       /\ m <= n /\ DOMAIN img[p] \subseteq 0 .. m * PGSIZE - 1
       /\ 0 \in DOMAIN img[p] => DOMAIN img[p] = 0 .. m * PGSIZE - 1
       /\ img' = [img EXCEPT ![p] = [a \in DOMAIN img[p] \cup new |->
                                    IF a \in DOMAIN img[p] THEN img[p][a] ELSE 0]]

\* The first page stays.
Shrink(p) ==
  /\ img[p] # NoImage
  /\ \E n \in 1 .. MaxPages :
       img' = [img EXCEPT ![p] = [a \in DOMAIN img[p] \cap (0 .. n * PGSIZE - 1) |-> img[p][a]]]

GiveUp(p) ==
  /\ img[p] # NoImage
  /\ img' = [img EXCEPT ![p] = [a \in {} |-> 0]]

\* Nothing is left out of a copy.
Fork(p, c) ==
  /\ img[p] # NoImage /\ img[c] = NoImage /\ 0 \in DOMAIN img[p]
  /\ img' = [img EXCEPT ![c] = img[p]]

\* The program, then a page out of reach and a stack of a page with the arguments.
Exec(p) ==
  /\ img[p] # NoImage
  /\ \E f \in Programs, arg \in Vals :
       LET end == (Size(f) + 2) * PGSIZE IN
       img' = [img EXCEPT ![p] = [a \in 0 .. end - 1 |->
                 IF a \in DOMAIN f THEN f[a] ELSE IF a = end - 1 THEN arg ELSE 0]]

Exit(p) ==
  /\ img[p] # NoImage
  /\ img' = [img EXCEPT ![p] = NoImage]

MemoryNext ==
  \E p \in Procs :
    \/ Write(p) \/ Grow(p) \/ Shrink(p) \/ GiveUp(p) \/ Exec(p) \/ Exit(p)
    \/ \E c \in Procs : Fork(p, c)

\* userinit() gives one process a page.
MemoryInit ==
  \E p \in Procs :
    /\ img[p] # NoImage /\ DOMAIN img[p] = 0 .. PGSIZE - 1
    /\ \A q \in Procs \ {p} : img[q] = NoImage

MemorySpec == MemoryInit /\ [][MemoryNext]_img
=============================================================================
