\* One process mapping, faulting on and unmapping shared regions: one-page
\* small regions in the first huge slot and huge regions in the second.
CONSTANTS
  p1 = p1
  p2 = p2
  NULL = NULL
  PROCS <- MC_PROCS1
  MAXHUGEPGS = 4
  PGINHUGEPG = 2
  KERNFRAMES = 1
  ZEROIDX = 1
  MMAPBASE = 2
  NVA = 4
  MMAP_GLOBAL_MAX = 2
  MMAP_PROC_MAX = 2
  MMAP_MAX_SIZE = 2
  Lengths = {1, 2}
  Prots <- MC_ProtsW
  Flags <- MC_FlagsShared
  MmapAt <- MC_SplitSlots
  MAXREF = 2
SPECIFICATION Spec
INVARIANT TypeOK
INVARIANT NoUseAfterFree
INVARIANT FramesExclusive
INVARIANT RefCountExact
INVARIANT RecordsNameLiveFrames
INVARIANT NoFrameLeak
INVARIANT ZeroPageIntact
