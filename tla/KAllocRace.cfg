\* kalloc racing kalloc_huge for the descriptor kalloc remembered as whole-free.
CONSTANTS
  c1 = c1
  c2 = c2
  c3 = c3
  NULL = NULL
  CPUS <- MC_CPUS2
  MAXHUGEPGS = 3
  PGINHUGEPG = 2
  KERNFRAMES = 1
  ZEROIDX = 2
SYMMETRY MC_Symmetry2
SPECIFICATION Spec




INVARIANT NoPanic
