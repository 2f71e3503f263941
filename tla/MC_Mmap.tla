------------------------------ MODULE MC_Mmap ------------------------------
(* Model-checking instances of Mmap: up to two processes, four huge       *)
(* descriptors of two frames each, and a window of one huge slot (two      *)
(* pages), or two (four pages) in MmapShared.cfg.                          *)
EXTENDS Mmap, TLC

CONSTANTS p1, p2

MC_PROCS == {p1, p2}
MC_PROCS1 == {p1}
MC_Symmetry == Permutations(MC_PROCS)

MC_Prots == {{"PROT_READ"}, {"PROT_WRITE"}, {"PROT_READ", "PROT_WRITE"}}
MC_Flags == {{"MAP_SHARED"}, {"MAP_PRIVATE"},
             {"MAP_SHARED", "MAP_HUGEPAGE"}, {"MAP_PRIVATE", "MAP_HUGEPAGE"}}
MC_ProtsW == {{"PROT_WRITE"}, {"PROT_READ", "PROT_WRITE"}}
MC_FlagsShared == {{"MAP_SHARED"}, {"MAP_SHARED", "MAP_HUGEPAGE"}}
MC_FlagsSmallShared == {{"MAP_SHARED"}}
MC_FlagsHugeShared == {{"MAP_SHARED", "MAP_HUGEPAGE"}}
MC_ProtsWOnly == {{"PROT_WRITE"}}
MC_ProtsRW == {{"PROT_READ", "PROT_WRITE"}}
MC_ProtsROnly == {{"PROT_READ"}}
MC_FlagsPrivateSmall == {{"MAP_PRIVATE"}}
MC_FlagsPrivate == {{"MAP_PRIVATE"}, {"MAP_PRIVATE", "MAP_HUGEPAGE"}}

(* mmap may be called at any page of the window. *)
MC_AnyVA(fl, n) == VA
(* Small regions are one page inside the first huge slot, huge regions     *)
(* start at the second, so that small and huge mappings live side by side  *)
(* in one address space without a small mapping under a huge leaf (that    *)
(* is the walk defect of vm.c:99, checked on its own).                      *)
MC_SplitSlots(fl, n) ==
  IF "MAP_HUGEPAGE" \in fl THEN {MMAPBASE + PGINHUGEPG}
  ELSE IF n = 1 THEN MMAPBASE .. MMAPBASE + PGINHUGEPG - 1 ELSE {}
=============================================================================
