------------------------------- MODULE AddrSpace -------------------------------
(***************************************************************************)
(* What the memory management of JOS (lab-3/kern/pmap.c) promises to the   *)
(* users of an address space: a map from addresses to pages with           *)
(* permissions, and pages that are in use until their last mapping goes.   *)
(* There are no page tables, free lists and counters here.                 *)
(***************************************************************************)

CONSTANTS Pages, VAs, Perms, NoMap

VARIABLES
  map,      \* [page, bits] at an address, or NoMap
  used      \* pages page_alloc() has handed out

spaceVars == <<map, used>>

SpaceInit == map = [va \in VAs |-> NoMap] /\ used = {}

Mapped(m) == {m[va].page : va \in {v \in VAs : m[v] # NoMap}}

\* The pages that lose their last mapping are no longer in use.
Remap(m) ==
  /\ map' = m
  /\ used' = used \ (Mapped(map) \ Mapped(m))

Insert(va, pg, b) == pg \in used /\ Remap([map EXCEPT ![va] = [page |-> pg, bits |-> b]])

Remove(va) == Remap([map EXCEPT ![va] = NoMap])

Permit(va, b) ==
  /\ map[va] # NoMap
  /\ Remap([map EXCEPT ![va].bits = @ \cup b])

Alloc(pg) == pg \notin used /\ used' = used \cup {pg} /\ UNCHANGED map

Free(pg) == pg \in used \ Mapped(map) /\ used' = used \ {pg} /\ UNCHANGED map

SpaceNext ==
  \/ \E pg \in Pages : Alloc(pg) \/ Free(pg)
  \/ \E va \in VAs : Remove(va)
  \/ \E va \in VAs, b \in Perms : Permit(va, b)
  \/ \E va \in VAs, pg \in Pages, b \in Perms : Insert(va, pg, b)

SpaceSpec == SpaceInit /\ [][SpaceNext]_spaceVars
=============================================================================
