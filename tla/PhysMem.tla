------------------------------ MODULE PhysMem ------------------------------
(***************************************************************************)
(* Physical memory as kernel/kalloc.c lays it out, and the allocator calls *)
(* of kalloc.c as pure operators on a memory value, for the modules whose  *)
(* callers (page tables, mmap, page faults) treat one allocator call as a  *)
(* single step.  KAlloc models the same calls step by step, with CPUs      *)
(* racing inside them.                                                     *)
(*                                                                         *)
(* A frame is numbered by its physical page index; huge descriptor d       *)
(* covers frames d*PGINHUGEPG .. d*PGINHUGEPG + PGINHUGEPG - 1 and a huge  *)
(* page is addressed by its first frame, HUGEPAGEADDR(d).  Frames below    *)
(* KERNFRAMES lie below `end`; frame 0 doubles as the physical address 0.  *)
(***************************************************************************)
EXTENDS Naturals, Sequences, FiniteSets, SequencesExt, FiniteSetsExt

CONSTANTS
  MAXHUGEPGS,    \* number of huge descriptors
  PGINHUGEPG,    \* small frames per huge descriptor
  KERNFRAMES,    \* frames below `end` (kernel image): never on a free list
  ZEROIDX,       \* HUGEPGINDEX(ZEROHUGEPG), the zero page's descriptor
  NULL           \* the null pointer

Desc   == 0 .. MAXHUGEPGS - 1
Frames == 0 .. MAXHUGEPGS * PGINHUGEPG - 1
HUGEPGINDEX(f)  == f \div PGINHUGEPG
HUGEPAGEADDR(d) == d * PGINHUGEPG
FramesOf(d) == {f \in Frames : HUGEPGINDEX(f) = d}
ZEROHUGEPG == HUGEPAGEADDR(ZEROIDX)

ASSUME /\ MAXHUGEPGS \in Nat \ {0} /\ PGINHUGEPG \in Nat \ {0}
       /\ KERNFRAMES \in Nat \ {0} /\ ZEROIDX \in Desc
       /\ \A f \in FramesOf(ZEROIDX) : f >= KERNFRAMES
       /\ NULL \notin Frames \cup Desc

(* The allocator's state: hugepages[d].freelist, .freecount, .hugealloced. *)
Mem == [fl : [Desc -> Seq(Frames)], fc : [Desc -> 0 .. PGINHUGEPG], ha : [Desc -> BOOLEAN]]

(* kinit: freerange kfree's each frame above `end` in address order, each  *)
(* pushed on the head of its descriptor's list; the zero page's descriptor *)
(* is then marked hugealloced.                                             *)
BootFree(d) == {f \in FramesOf(d) : f >= KERNFRAMES}

BootMem ==
  [fl |-> [d \in Desc |-> SetToSortSeq(BootFree(d), >)],
   fc |-> [d \in Desc |-> Cardinality(BootFree(d))],
   ha |-> [d \in Desc |-> d = ZEROIDX]]

(* Mutant of PopPage: the head is returned but left on the list. *)
PopPage_keep(m, d) ==
  IF m.fl[d] = <<>> THEN [pa |-> NULL, mem |-> m]
  ELSE [pa |-> Head(m.fl[d]), mem |-> [m EXCEPT !.fc[d] = @ - 1]]

(* _pop_page on an unlocked-for-huge descriptor: head of the list, if any. *)
PopPage(m, d) ==
  IF m.fl[d] = <<>> THEN [pa |-> NULL, mem |-> m]
  ELSE [pa |-> Head(m.fl[d]),
        mem |-> [m EXCEPT !.fl[d] = Tail(@), !.fc[d] = @ - 1]]

(* kalloc without interference: the first split descriptor with a free      *)
(* frame serves; failing that, the first whole-free one is split.          *)
SplitWithFree(m) == {d \in Desc : ~m.ha[d] /\ m.fc[d] # PGINHUGEPG /\ m.fc[d] > 0}
WholeFree(m)     == {d \in Desc : ~m.ha[d] /\ m.fc[d] = PGINHUGEPG}

KallocFrom(m, split, whole) ==
  IF split # {} THEN PopPage(m, Min(split))
  ELSE IF whole # {} THEN PopPage(m, Min(whole))
  ELSE [pa |-> NULL, mem |-> m]

Kalloc(m) == KallocFrom(m, SplitWithFree(m), WholeFree(m))

(* kalloc_huge: claim the first whole-free descriptor. *)
KallocHugeFrom(m, whole) ==
  IF whole = {} THEN [pa |-> NULL, mem |-> m]
  ELSE [pa |-> HUGEPAGEADDR(Min(whole)), mem |-> [m EXCEPT !.ha[Min(whole)] = TRUE]]

KallocHuge(m) == KallocHugeFrom(m, WholeFree(m))

(* kfree: panic("kfree") below `end`; otherwise push on the owner's list.  *)
(* There is no check that pa is not already free (the TODO in the code).   *)
Kfree(m, pa) ==
  IF pa < KERNFRAMES THEN [panic |-> TRUE, mem |-> m]
  ELSE LET d == HUGEPGINDEX(pa) IN
       [panic |-> FALSE,
        mem |-> [m EXCEPT !.fl[d] = <<pa>> \o @, !.fc[d] = @ + 1]]

(* kfree_huge: panic on a misaligned address, below `end`, or on a         *)
(* descriptor that is not hugealloced; otherwise clear hugealloced.        *)
KfreeHuge(m, pa) ==
  LET d == HUGEPGINDEX(pa) IN
  IF pa % PGINHUGEPG # 0 \/ pa < KERNFRAMES \/ ~m.ha[d]
    THEN [panic |-> TRUE, mem |-> m]
    ELSE [panic |-> FALSE, mem |-> [m EXCEPT !.ha[d] = FALSE]]

KallocFlex(m, is_huge) == IF is_huge THEN KallocHuge(m) ELSE Kalloc(m)
KfreeFlex(m, pa, is_huge) == IF is_huge THEN KfreeHuge(m, pa) ELSE Kfree(m, pa)

(* Frames on a free list of a descriptor that is not granted whole. *)
FreeFrames(m) == UNION {ToSet(m.fl[d]) : d \in {e \in Desc : ~m.ha[e]}}
=============================================================================
