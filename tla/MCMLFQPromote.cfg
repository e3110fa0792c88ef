SPECIFICATION HFairSpec
CONSTANTS
  NPROC = 2
  NCPU = 1
  NPAGES = 4
  MaxPid = 1
  MaxSleep = 0
  KillPids = {}
  MAXPRIORITY = 1
  DEFAULT_BUDGET = 2
  TICKS_TO_PROMOTE = 3
  PriorityPids = {}
  MaxEntries = 4
CONSTRAINT QueueBound
PROPERTY PeriodicAdjustment
