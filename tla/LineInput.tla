------------------------------ MODULE LineInput ------------------------------
(***************************************************************************)
(* What the console promises its readers: lines.  What is typed can be     *)
(* taken back until the line is complete; complete input is delivered in   *)
(* order, each byte to one reader.  A read ends with its line, and an EOF  *)
(* character ends a read and is seen by one read as an empty result.       *)
(***************************************************************************)
EXTENDS Naturals, Sequences

CONSTANTS Readers, Chars, NL, EOF, Capacity

VARIABLES ready, line, got

inputVars == <<ready, line, got>>

InputInit == ready = <<>> /\ line = <<>> /\ got = [p \in Readers |-> <<>>]

\* Room for all, or the character is refused; a full buffer counts as a line.
Typed(c) ==
  LET all == Append(line, c) IN
  /\ Len(ready) + Len(line) < Capacity
  /\ IF c \in {NL, EOF} \/ Len(ready) + Len(all) = Capacity
     THEN ready' = ready \o all /\ line' = <<>>
     ELSE line' = all /\ ready' = ready
  /\ UNCHANGED got

Erase == line # <<>> /\ \E n \in 0 .. Len(line) - 1 : line' = SubSeq(line, 1, n) /\ UNCHANGED <<ready, got>>

StartRead(p) == got' = [got EXCEPT ![p] = <<>>] /\ UNCHANGED <<ready, line>>

Take(p) ==
  /\ ready # <<>> /\ (got[p] # <<>> => got[p][Len(got[p])] # NL)
  /\ IF Head(ready) = EOF THEN got[p] = <<>> /\ got' = got
     ELSE got' = [got EXCEPT ![p] = Append(@, Head(ready))]
  /\ ready' = Tail(ready) /\ UNCHANGED line

InputNext ==
  \/ \E c \in Chars : Typed(c)
  \/ Erase
  \/ \E p \in Readers : StartRead(p) \/ Take(p)

InputSpec == InputInit /\ [][InputNext]_inputVars
=============================================================================
