SPECIFICATION RRFairSpec
CONSTANTS
  NPROC = 3
  NCPU = 1
  NPAGES = 4
  MaxPid = 4
  MaxSleep = 1
  KillPids = {2, 3}
PROPERTIES
  RunnableRuns
  KilledEnds
  OrphansReaped
  SleepReturns
