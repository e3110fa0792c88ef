SPECIFICATION PartsSpec
CONSTANTS
  CPUs = {c1, c2}
  NoCpu = NoCpu
  KProcs = {k1, k2}
  Locks = {1, 2, 3}
  Ptable = 2
  MaxHeld = 2
  p1 = p1
  p2 = p2
  Procs = {p1, p2}
  InitProc = p1
  Pages <- MCPages
  NoPage = NoPage
  NoImage = NoImage
  PGSIZE = 2
  NPT = 2
  NPD = 2
  KVM = 2
  Vals = {0, 1}
  Junk = Junk
  Programs <- MCPrograms
  Increments <- MCIncrements
  Targets <- MCTargets
  Readers = {r1, r2}
  NoReader = NoReader
  Letters = {a}
  NL = NL
  CR = CR
  EOF = EOF
  INPUT_BUF = 3
  UMOD = 6
  MaxRead = 2
  Keys <- MCKeys
  Commands <- MCCommands
  Pids = {1, 2, 3, 4, 5}
  NOFILE = 6
  PIPESIZE = 1
  NWrites = 2
  HeapEnd = 9
  MinCore = 3
  MaxUnits = 3
  ReChars = {"a", ".", "*", "^", "$"}
  TextChars = {"a", "b"}
  MaxRe = 3
  MaxText = 3
  BufSize = 3
  NStabs = 5
  MaxAddr = 2
CHECK_DEADLOCK FALSE
SYMMETRY Symmetry
VIEW PartsView
INVARIANTS
  LocksSound
  MemorySound
  InputFlows
  ModifiersFollowKeys
  PipelinesSound
  HeapSound
  PrintsMatches
  RegionsRight
PROPERTIES
  PrivateMemory
  LineDiscipline
