----------------------------- MODULE MC_ProcLife -----------------------------
(* Model-checking instance of ProcLife: init and two more process slots on *)
(* two CPUs, with pids up to 3 (two forks in a behaviour).                 *)
EXTENDS ProcLife

CONSTANTS init, p1, p2, c1, c2

MC_PROCS == {init, p1, p2}
MC_CPUS == {c1, c2}

(* sbrk by half a page, and back by half a page (at p->sz = 0 the uint64 *)
(* sum wraps).                                                            *)
MC_SBRK == {1, -1}
=============================================================================
