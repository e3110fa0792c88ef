\* The calls of MCFileSys.cfg, without the path ".", for the waits of the
\* processes for each other's inodes.
CONSTANTS
  p1 = p1
  p2 = p2
  fname = fname
  dname = dname
  Dot = Dot
  NoProc = NoProc
  Procs = {p1, p2}
  Names = {fname, dname}
  ninodes = 5
  Paths <- MCNames
  Images <- MCImages
  MaxCalls = 2
SPECIFICATION FsSpec
SYMMETRY Symmetry
INVARIANT NoDeadlock
