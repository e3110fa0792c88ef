------------------------------ MODULE ByteFiles ------------------------------
(***************************************************************************)
(* What inodes promise about their contents: each is a sequence of words   *)
(* that a write changes and extends in one piece, at the offset of the     *)
(* open file it goes through and up to a greatest length, and that is      *)
(* emptied when the file is gone.                                          *)
(***************************************************************************)
EXTENDS Naturals, Sequences

CONSTANTS Inodes, Opens, InodeOf, WordOf, MaxLen

VARIABLES file, offset

filesVars == <<file, offset>>

FilesInit == file = [i \in Inodes |-> <<>>] /\ offset = [d \in Opens |-> 0]

\* n words w at offset at of f.
Overwritten(f, at, n, w) ==
  [k \in 1 .. (IF at + n > Len(f) THEN at + n ELSE Len(f)) |->
     IF k > at /\ k <= at + n THEN w ELSE f[k]]

Written(d) ==
  \E n \in 1 .. MaxLen - offset[d] :
    /\ file' = [file EXCEPT ![InodeOf[d]] = Overwritten(@, offset[d], n, WordOf[d])]
    /\ offset' = [offset EXCEPT ![d] = @ + n]

Read(d) ==
  /\ \E k \in 0 .. Len(file[InodeOf[d]]) : offset' = [offset EXCEPT ![d] = k]
  /\ UNCHANGED file

\* The file goes, and with it whatever was open of it.
Emptied(i) ==
  /\ file' = [file EXCEPT ![i] = <<>>]
  /\ offset' = [d \in Opens |-> IF InodeOf[d] = i THEN 0 ELSE offset[d]]

FilesNext == (\E d \in Opens : Written(d) \/ Read(d)) \/ (\E i \in Inodes : Emptied(i))

FilesSpec == FilesInit /\ [][FilesNext]_filesVars
=============================================================================
