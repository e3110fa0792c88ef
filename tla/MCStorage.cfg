SPECIFICATION StorageSpec
CONSTANTS
  p1 = p1
  p2 = p2
  inner = inner
  b1 = b1
  b2 = b2
  Users = {p1, inner, p2}
  ProcessOf <- MCProcessOf
  Under <- MCUnder
  DiskBlocks = {b1, b2, b3}
  BlockVals = {0, 1}
  NBUF = 2
  MaxPinned = 1
  NoUser = NoUser
  NoBlock = NoBlock
  NoCmd = NoCmd
  Written = {b1}
  Zero = 0
  Procs = {p1, p2}
  First = p1
  Blocks = {b1, b2}
  Vals = {v1, v2}
  NoBuf = NoBuf
  LOGSIZE = 4
  MAXOPBLOCKS = 2
  NLOG = 4
  OpBlocks = 2
INVARIANTS
  WaitsEnd
  QuietIsDurable
PROPERTIES
  OneCopy
  IoCompletes
  Atomic
