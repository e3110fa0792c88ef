\* Two processes of two calls each.  The kernel panics when it runs out of inodes,
\* and processes may wait for each other for ever (run file_system_deadlock).
CONSTANTS
  p1 = p1
  p2 = p2
  fname = fname
  dname = dname
  Dot = Dot
  NoProc = NoProc
  Procs = {p1, p2}
  Names = {fname, dname}
  ninodes = 5
  Paths <- MCPaths
  Images <- MCImages
  MaxCalls = 2
SPECIFICATION FsSpec
SYMMETRY Symmetry
CHECK_DEADLOCK FALSE
INVARIANTS
  InodesSound
  LinksCovered
