SPECIFICATION PipeSpec
CONSTANTS
  Readers = {r1}
  Writers = {w1, w2}
  Bytes = {0}
  NoPipeUser = NoPipeUser
  PIPESIZE = 1
  W = 2
  MaxN = 2
CHECK_DEADLOCK FALSE
INVARIANTS
  ReaderWaitsForBytes
