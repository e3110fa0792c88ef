SPECIFICATION FileIoSpec
CONSTANTS
  i1 = i1
  i2 = i2
  d1 = d1
  d2 = d2
  d3 = d3
  Inodes = {i1, i2}
  Opens = {d1, d2, d3}
  InodeOf <- MCInodeOf
  WordOf <- MCWordOf
  NDIRECT = 1
  BSIZE = 2
  BPB = 1
  NBlocks = 8
  MaxOpBlocks = 6
  MaxWrite = 3
  MaxCalls = 3
  Procs = {p1, p2, p3}
  First = p1
  Blocks = {b1, b2, b3, b4}
  Vals = {v1}
  NoBuf = NoBuf
  LOGSIZE = 4
  MAXOPBLOCKS = 2
  NLOG = 4
  OpBlocks = 1
  Readers = {r1}
  Writers = {w1, w2}
  Bytes = {0, 1}
  NoPipeUser = NoPipeUser
  PIPESIZE = 2
  W = 4
  MaxN = 2
CHECK_DEADLOCK FALSE
SYMMETRY Symmetry
INVARIANTS
  SpaceManaged
  BlocksOwnedOnce
  ChunkFitsLog
  UsersServed
PROPERTIES
  PlainFiles
  FirstInFirstOut
