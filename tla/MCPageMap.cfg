SPECIFICATION PageSpec
CONSTANTS
  NPAGES = 11
  NBASEMEM = 2
  IOHOLE = 2
  EXT = 3
  KERNEND = 5
  BOOTSTACK = 3
  PAGESARRAY = 4
  PGSIZE = 11
  PAGEINFO = 1
  NPD = 5
  NPT = 6
  UTOPDIR = 2
  UPAGES = 132
  KSTACK = 198
  KERNBASE = 198
  KSTKSIZE = 11
  REFMOD = 65536
  Bits = {"W", "U"}
  PermArgs = {{}, {"W"}}
  SetBits = {"W"}
  VAs <- MCVAs
  NoMap = NoMap
INVARIANTS
  PagesAccounted
  TlbSound
PROPERTY
  AddressSpace
