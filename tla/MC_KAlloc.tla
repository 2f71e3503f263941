----------------------------- MODULE MC_KAlloc -----------------------------
(* Model-checking instance of KAlloc: three descriptors of two frames, the *)
(* first holding one kernel frame, the last being the zero page.           *)
EXTENDS KAlloc, TLC

CONSTANTS c1, c2, c3

MC_CPUS2 == {c1, c2}
MC_CPUS3 == {c1, c2, c3}
MC_Symmetry2 == Permutations(MC_CPUS2)
MC_Symmetry3 == Permutations(MC_CPUS3)
=============================================================================
