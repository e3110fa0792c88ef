------------------------------ MODULE BlockStore ------------------------------
(***************************************************************************)
(* What the buffer cache (lab-2/bio.c) promises: one copy of each block,   *)
(* used by one process at a time, that survives eviction from memory.      *)
(***************************************************************************)
CONSTANTS Procs, Blocks, Vals, NoProc

VARIABLES
  content,     \* what a process that holds the block reads
  stable,      \* what the medium holds
  holder       \* the process that has the block locked, or NoProc

storeVars == <<content, stable, holder>>

StoreInit ==
  /\ content \in [Blocks -> Vals] /\ stable = content
  /\ holder = [b \in Blocks |-> NoProc]

Get(p, b) ==
  /\ holder[b] = NoProc
  /\ holder' = [holder EXCEPT ![b] = p]
  /\ UNCHANGED <<content, stable>>

Put(p, b, v) ==
  /\ holder[b] = p
  /\ content' = [content EXCEPT ![b] = v]
  /\ UNCHANGED <<stable, holder>>

\* Only the holder's block is written back, and as it is.
Sync(b) ==
  /\ holder[b] # NoProc
  /\ stable' = [stable EXCEPT ![b] = content[b]]
  /\ UNCHANGED <<content, holder>>

Drop(p, b) ==
  /\ holder[b] = p
  /\ holder' = [holder EXCEPT ![b] = NoProc]
  /\ UNCHANGED <<content, stable>>

StoreNext ==
  \E b \in Blocks :
    \/ Sync(b)
    \/ \E p \in Procs : Get(p, b) \/ Drop(p, b) \/ \E v \in Vals : Put(p, b, v)

StoreSpec == StoreInit /\ [][StoreNext]_storeVars
=============================================================================
