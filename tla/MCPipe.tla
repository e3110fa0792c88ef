------------------------------- MODULE MCPipe -------------------------------
(* Instances of Pipe for TLC; the bounds are in the .cfg files. *)
EXTENDS Pipe, TLC

\* Processes at the same end are interchangeable.
Symmetry == Permutations(Readers) \cup Permutations(Writers)
=============================================================================
