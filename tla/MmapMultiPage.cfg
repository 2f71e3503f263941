\* munmap of a two-page shared region frees both frames on the first page's record.
CONSTANTS
  p1 = p1
  p2 = p2
  NULL = NULL
  PROCS <- MC_PROCS1
  MAXHUGEPGS = 4
  PGINHUGEPG = 2
  KERNFRAMES = 1
  ZEROIDX = 1
  MMAPBASE = 2
  NVA = 2
  MMAP_GLOBAL_MAX = 2
  MMAP_PROC_MAX = 2
  MMAP_MAX_SIZE = 2
  Lengths = {2}
  Prots <- MC_ProtsWOnly
  Flags <- MC_FlagsSmallShared
  MmapAt <- MC_AnyVA
  MAXREF = 2
SPECIFICATION Spec
INVARIANT RecordsNameLiveFrames
