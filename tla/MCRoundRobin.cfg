\* Memory for two children and slots for three: every error path of fork() is taken.
SPECIFICATION HSpec
CONSTANTS
  NPROC = 4
  NCPU = 2
  NPAGES = 4
  MaxPid = 4
  MaxSleep = 1
  KillPids = {0, 2, 3}
INVARIANTS
  TypeOK
  OneCpuPerProcess
  LiveParent
  SleepersBlocked
  PagesConserved
PROPERTY
  BoundedOvertaking
