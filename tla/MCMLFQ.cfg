SPECIFICATION HFairSpec
CONSTANTS
  NPROC = 3
  NCPU = 1
  NPAGES = 4
  MaxPid = 3
  MaxSleep = 1
  KillPids = {2}
  MAXPRIORITY = 1
  DEFAULT_BUDGET = 2
  TICKS_TO_PROMOTE = 3
  MaxEntries = 3
  PriorityPids = {2}
CONSTRAINT QueueBound
INVARIANTS
  RunnableQueued
  BudgetLimitsLevel
PROPERTY InitBoots
