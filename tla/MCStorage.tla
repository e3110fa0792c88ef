------------------------------- MODULE MCStorage -------------------------------
(* Two instances for TLC, of which a behaviour takes the steps of one: the   *)
(* buffer cache with its drive, and the log with crashes.                    *)
EXTENDS BufCache, Log

CONSTANTS p1, p2, inner, b1, b2

\* p1 may hold b1 while it reads b2: a log block and a home block, or an indirect
\* block and a bitmap block.
MCProcessOf == [u \in Users |-> IF u = inner THEN p1 ELSE u]
MCUnder == {<<b1, b2>>}

VARIABLE part

storageVars == <<bufVars, logVars, part>>

\* The contents of the disk matter to the log only.
StorageInit ==
  /\ part \in {"buffers", "log"} /\ BufInit /\ LogInit
  /\ part = "buffers" => LET v == CHOOSE w \in Vals : TRUE
                         IN home = [b \in Blocks |-> v] /\ logblk = [i \in Slots |-> v]

BuffersStep == part = "buffers" /\ BufNext /\ UNCHANGED <<logVars, part>>
LogPartStep == part = "log" /\ LogNext /\ UNCHANGED <<bufVars, part>>

StorageNext == BuffersStep \/ LogPartStep

StorageSpec == StorageInit /\ [][StorageNext]_storageVars /\ BufFairness
=============================================================================
