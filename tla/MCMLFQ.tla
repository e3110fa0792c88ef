-------------------------------- MODULE MCMLFQ --------------------------------
(* MLFQ with its history for TLC.                                             *)
EXTENDS MLFQHistory

CONSTANT MaxEntries    \* bound on the entries of one queue, at most 2*NPROC

QueueBound == WithinArrays /\ \A l \in Levels : Len(queue[l]) <= MaxEntries
=============================================================================
