-------------------------------- MODULE TxDisk --------------------------------
(***************************************************************************)
(* What the logging layer (lab-2/log.c) promises to the file system: the   *)
(* disk moves from one state without unfinished operations to the next in  *)
(* one step, and a crash falls back to the last of them.                   *)
(***************************************************************************)
EXTENDS Naturals

CONSTANTS Blocks, Vals

VARIABLES
  view,        \* contents of the blocks as file system code sees them
  durable,     \* contents of the blocks after a crash
  active       \* operations between begin_op() and end_op()

txVars == <<view, durable, active>>

TxInit ==
  /\ view \in [Blocks -> Vals] /\ durable = view
  /\ active = 0

Begin == active' = active + 1 /\ UNCHANGED <<view, durable>>

Write(b, v) ==
  /\ active > 0
  /\ view' = [view EXCEPT ![b] = v]
  /\ UNCHANGED <<durable, active>>

End == active > 0 /\ active' = active - 1 /\ UNCHANGED <<view, durable>>

\* All the updates of all finished operations, and none of an unfinished one.
Commit == active = 0 /\ durable' = view /\ UNCHANGED <<view, active>>

Crash == view' = durable /\ active' = 0 /\ UNCHANGED durable

TxNext ==
  \/ Begin \/ End \/ Commit \/ Crash
  \/ \E b \in Blocks, v \in Vals : Write(b, v)

TxSpec == TxInit /\ [][TxNext]_txVars
=============================================================================
