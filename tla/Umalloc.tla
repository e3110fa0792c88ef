-------------------------------- MODULE Umalloc --------------------------------
(***************************************************************************)
(* malloc() and free() of lab-2 (umalloc.c): a circular list of free       *)
(* blocks in the order of their addresses, scanned from where the last     *)
(* call stopped.  Addresses and sizes are in units of a header; each round *)
(* of a loop is a step.                                                    *)
(***************************************************************************)
EXTENDS Integers, FiniteSets, Functions

CONSTANTS
  HeapEnd,        \* bound: where sbrk() fails
  MinCore,        \* least number of units morecore() asks for, 4096 in the code
  MaxUnits        \* bound: size of a request

ASSUME HeapAssumption == HeapEnd \in Nat /\ MinCore \in Nat /\ MaxUnits \in Nat

Base == 0         \* the header base lies below the heap

VARIABLES
  next,           \* s.ptr of the free blocks
  size,           \* s.size of all blocks
  freep,
  used,           \* blocks the program has
  brk,            \* end of the heap
  gaps,           \* units the program got from sbrk() itself
  op              \* the call under way

heapVars == <<next, size, freep, used, brk, gaps, op>>

NoCall == [pc |-> "idle", n |-> 0, prevp |-> 0, p |-> 0, bp |-> 0]

\* malloc()'s first call makes a list of base alone.
HeapInit ==
  /\ next = [x \in {Base} |-> Base] /\ size = [x \in {Base} |-> 0] /\ freep = Base
  /\ used = {} /\ brk = 1 /\ gaps = {} /\ op = NoCall

\* f at every place but x, and f with v at x.
Drop(f, x) == Restrict(f, DOMAIN f \ {x})
Put(f, x, v) == [y \in DOMAIN f \cup {x} |-> IF y = x THEN v ELSE f[y]]

Malloc(n) ==
  /\ op.pc = "idle"
  /\ op' = [NoCall EXCEPT !.pc = "scan", !.n = n, !.prevp = freep, !.p = next[freep]]
  /\ UNCHANGED <<next, size, freep, used, brk, gaps>>

\* The block fits: all of it, or its tail.
Carve ==
  LET p == op.p  n == op.n  b == p + size[p] - n IN
  /\ op.pc = "scan" /\ size[p] >= n
  /\ IF size[p] = n
     THEN next' = Drop([next EXCEPT ![op.prevp] = next[p]], p) /\ size' = size
     ELSE size' = Put([size EXCEPT ![p] = @ - n], b, n) /\ next' = next
  /\ used' = used \cup {b}
  /\ freep' = op.prevp /\ op' = NoCall
  /\ UNCHANGED <<brk, gaps>>

\* It does not, and there is another one.
Scan ==
  /\ op.pc = "scan" /\ size[op.p] < op.n /\ op.p # freep
  /\ op' = [op EXCEPT !.prevp = op.p, !.p = next[op.p]]
  /\ UNCHANGED <<next, size, freep, used, brk, gaps>>

Asked == IF op.n < MinCore THEN MinCore ELSE op.n

\* All have been seen: morecore(), which ends in free().
Morecore ==
  /\ op.pc = "scan" /\ size[op.p] < op.n /\ op.p = freep
  /\ IF brk + Asked <= HeapEnd
     THEN /\ size' = Put(size, brk, Asked) /\ brk' = brk + Asked
          /\ op' = [op EXCEPT !.pc = "corefree", !.bp = brk, !.p = freep]
     ELSE UNCHANGED <<size, brk>> /\ op' = NoCall
  /\ UNCHANGED <<next, freep, used, gaps>>

Free(b) ==
  /\ op.pc = "idle" /\ b \in used
  /\ used' = used \ {b}
  /\ op' = [NoCall EXCEPT !.pc = "free", !.bp = b, !.p = freep]
  /\ UNCHANGED <<next, size, freep, brk, gaps>>

\* The block belongs between p and the next one, or before the first or after the
\* last of the list.
Between(p, b) == b > p /\ b < next[p]
\* Faulty variant: a list of one block has no ends.
AtEndsStrict(p, b) == p > next[p] /\ (b > p \/ b < next[p])
AtEnds(p, b) == p >= next[p] /\ (b > p \/ b < next[p])

FreeScan ==
  /\ op.pc \in {"free", "corefree"}
  /\ ~Between(op.p, op.bp) /\ ~AtEnds(op.p, op.bp)
  /\ op' = [op EXCEPT !.p = next[op.p]]
  /\ UNCHANGED <<next, size, freep, used, brk, gaps>>

\* Faulty variants: neighbours are not joined with the block before; the block
\* after is joined without leaving the list.
JoinLowerNever(n1, s1, p, b) == <<[n1 EXCEPT ![p] = b], s1>>
JoinUpperListed(n1, s1, p, b) ==
  IF b + s1[b] = n1[p]
  THEN <<Put(n1, b, n1[p]), [s1 EXCEPT ![b] = @ + s1[n1[p]]]>>
  ELSE <<Put(n1, b, n1[p]), s1>>

\* Join with the next block, or put the block before it.
JoinUpper(n1, s1, p, b) ==
  LET q == n1[p] IN
  IF b + s1[b] = q
  THEN <<Put(Drop(n1, q), b, n1[q]), Drop([s1 EXCEPT ![b] = @ + s1[q]], q)>>
  ELSE <<Put(n1, b, q), s1>>

\* Join the block before with it, or link it there.
JoinLower(n1, s1, p, b) ==
  IF p + s1[p] = b
  THEN <<Drop([n1 EXCEPT ![p] = n1[b]], b), Drop([s1 EXCEPT ![p] = @ + s1[b]], b)>>
  ELSE <<[n1 EXCEPT ![p] = b], s1>>

FreeLink ==
  LET p == op.p  b == op.bp
      up == JoinUpper(next, size, p, b)
      low == JoinLower(up[1], up[2], p, b)
  IN /\ op.pc \in {"free", "corefree"} /\ (Between(p, b) \/ AtEnds(p, b))
     /\ next' = low[1] /\ size' = low[2] /\ freep' = p
     /\ op' = IF op.pc = "free" THEN NoCall
              ELSE [op EXCEPT !.pc = "scan", !.prevp = p, !.p = low[1][p], !.bp = 0]
     /\ UNCHANGED <<used, brk, gaps>>

\* The program may call sbrk() for itself, so the heap has holes.
UserSbrk ==
  /\ op.pc = "idle" /\ brk < HeapEnd
  /\ gaps' = gaps \cup {brk} /\ brk' = brk + 1
  /\ UNCHANGED <<next, size, freep, used, op>>

HeapStep == Carve \/ Scan \/ Morecore \/ FreeScan \/ FreeLink

HeapNext ==
  HeapStep \/ UserSbrk \/ (\E n \in 1 .. MaxUnits : Malloc(n)) \/ (\E b \in used : Free(b))

HeapSpec == HeapInit /\ [][HeapNext]_heapVars

-----------------------------------------------------------------------------
(* Properties.                                                              *)

Block(b) == b .. b + size[b] - 1

\* The blocks of the free list, those a walk from freep comes by: they are in every set
\* that has freep and is closed under next.
Closed(W) == freep \in W /\ \A x \in W : next[x] \in DOMAIN next => next[x] \in W
Listed == {x \in DOMAIN next : \A W \in SUBSET DOMAIN next : Closed(W) => x \in W}

\* Between calls each unit of the heap is in one block, free or in use: none is
\* handed out twice and none is lost.
HeapPartition ==
  op.pc = "idle" =>
    LET blocks == (Listed \cup used) \ {Base} IN
    /\ Listed \cap used = {}
    /\ UNION {Block(b) : b \in blocks} = (1 .. brk - 1) \ gaps
    /\ \A b, c \in blocks : b # c => Block(b) \cap Block(c) = {}

\* Free neighbours are always joined, so that a request that fits a hole finds it.
Coalesced ==
  op.pc = "idle" => \A b, c \in Listed \ {Base} : b + size[b] # c

\* The scans end wherever freep was left: free() finds the place of every block in one
\* round of the list, and malloc()'s comes by freep again.
ScansEnd ==
  /\ op.pc \in {"free", "corefree"} => \E p \in Listed : Between(p, op.bp) \/ AtEnds(p, op.bp)
  /\ \E p \in Listed : next[p] = freep
  /\ op.pc = "scan" => op.p \in Listed /\ next[op.prevp] = op.p

\* The free list is right wherever freep points: no unit lost or handed out twice,
\* neighbours joined, and every scan comes to its end.
HeapSound == HeapPartition /\ Coalesced /\ ScansEnd
=============================================================================
