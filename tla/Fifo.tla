--------------------------------- MODULE Fifo ---------------------------------
(***************************************************************************)
(* What a pipe promises: a bounded queue of bytes.  got[p] is what the     *)
(* latest read of process p has returned so far.                           *)
(***************************************************************************)
EXTENDS Naturals, Sequences

CONSTANTS Readers, Bytes, Capacity

VARIABLES q, got

fifoVars == <<q, got>>

FifoInit == q = <<>> /\ got = [p \in Readers |-> <<>>]

Put(v) == Len(q) < Capacity /\ q' = Append(q, v) /\ UNCHANGED got

StartRead(p) == got' = [got EXCEPT ![p] = <<>>] /\ UNCHANGED q

Take(p) ==
  /\ q # <<>>
  /\ got' = [got EXCEPT ![p] = Append(@, Head(q))]
  /\ q' = Tail(q)

FifoNext ==
  \/ \E v \in Bytes : Put(v)
  \/ \E p \in Readers : StartRead(p) \/ Take(p)

FifoSpec == FifoInit /\ [][FifoNext]_fifoVars
=============================================================================
