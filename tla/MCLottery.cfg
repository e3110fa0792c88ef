SPECIFICATION LotterySpec
CONSTANTS
  NPROC = 3
  NCPU = 2
  NPAGES = 4
  MaxPid = 3
  MaxSleep = 0
  KillPids = {}
  MAXTICKET = 3
  RAND_MAX = 15
INVARIANT
  LotteryFair
