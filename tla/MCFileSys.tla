------------------------------ MODULE MCFileSys ------------------------------
(* FileSys with two processes, three inodes beside the root and two names.   *)
EXTENDS FileSys, TLC

CONSTANTS p1, p2, fname, dname

MCNames == {<<fname>>, <<dname>>, <<dname, fname>>}
MCPaths == MCNames \cup {<<Dot>>}
Symmetry == Permutations(Procs)

\* The file system after create fname, mkdir dname and link fname dname/fname.
UsedImage ==
  [disk |-> <<[type |-> "DIR", nlink |-> 2], [type |-> "FILE", nlink |-> 2],
              [type |-> "DIR", nlink |-> 1], Free>>,
   ent |-> <<fname :> 2 @@ dname :> 3, NoEntries, fname :> 2, NoEntries>>]

MCImages == {UsedImage}
=============================================================================
