\* Three CPUs allocating and freeing small and huge frames concurrently.
CONSTANTS
  c1 = c1
  c2 = c2
  c3 = c3
  NULL = NULL
  CPUS <- MC_CPUS3
  MAXHUGEPGS = 3
  PGINHUGEPG = 2
  KERNFRAMES = 1
  ZEROIDX = 2
SYMMETRY MC_Symmetry3
SPECIFICATION Spec
INVARIANT TypeOK
INVARIANT NoDoubleAllocation
INVARIANT HugeGrantIntact
INVARIANT MemstatConsistent
PROPERTY ImplementsFrameAlloc
