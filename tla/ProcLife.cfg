\* Init and two process slots on two CPUs: fork, exit, wait, kill, yield, sbrk.
\* 8 free frames: a fork of a one-page image takes 7 (trapframe, root, two
\* level-1 and two level-0 tables, the page), so a second fork runs out of
\* frames unless sbrk shrank an image first; MAXSZ 3 units is two pages.
CONSTANTS
  init = init
  p1 = p1
  p2 = p2
  c1 = c1
  c2 = c2
  NULL = NULL
  PROCS <- MC_PROCS
  initproc = init
  CPUS <- MC_CPUS
  MAXPID = 3
  PGSIZE = 2
  TRAMPOLINE = 67108863
  TRAPFRAME = 67108862
  FREEFRAMES = 8
  SBRK <- MC_SBRK
  MAXSZ = 3
  WRAP = 1048576
  WAITADDR = {0, 1}
SPECIFICATION KernelFairSpec
INVARIANT TypeOK
INVARIANT ParentLinksValid
INVARIANT NoLostWakeup
INVARIANT FramesConserved
INVARIANT ImageMatchesSize
PROPERTY WakeupNotLost
