----------------------------- MODULE PageTable -----------------------------
(***************************************************************************)
(* The Sv39 page-table primitives of kernel/vm.c that the mmap layer uses: *)
(* walk, hugewalk, walkfind, flexmappages and freewalk, over the window of *)
(* an address space where mmap places its regions.                         *)
(*                                                                         *)
(* Virtual addresses are page numbers in VA, all under one level-2 entry.  *)
(* An address space keeps that level-2 entry (l2: the frame of the level-1 *)
(* table, or NULL), the level-1 entries of the window (l1, one per 2 MiB   *)
(* slot) and the level-0 entries (l0, one per page, meaningful under a     *)
(* level-1 table entry).  A PTE is a record: valid, leaf (any of R/W/X),   *)
(* the physical frame, and whether W is set; U and R are set on every user *)
(* leaf this code writes, and PTE_SHR is never set by its callers.         *)
(*                                                                         *)
(* walk only tests PTE_V on the way down, so on a level-1 huge leaf it     *)
(* treats the huge frame itself as a level-0 table.  fp records the PTEs   *)
(* so written into ordinary frames: fp[<<f, a>>] is the word of frame f    *)
(* that walk would use for address a.                                      *)
(*                                                                         *)
(* Operators take and return a record w with fields mem (PhysMem), as (an  *)
(* address space) and fp; callers may pass a record with more fields.      *)
(***************************************************************************)
EXTENDS PhysMem

CONSTANTS
  MMAPBASE,      \* first page of the mmap window (2 MiB aligned, not 0)
  NVA            \* pages in the window

VA == MMAPBASE .. MMAPBASE + NVA - 1
HX(a) == a \div PGINHUGEPG                   \* PX(1, va)
HSlots == {HX(a) : a \in VA}
HUGEPGROUNDDOWN(a) == HX(a) * PGINHUGEPG

ASSUME /\ MMAPBASE > 0 /\ MMAPBASE % PGINHUGEPG = 0
       /\ NVA > 0 /\ NVA % PGINHUGEPG = 0

PTE == [v : BOOLEAN, leaf : BOOLEAN, pa : Frames, w : BOOLEAN]
Invalid == [v |-> FALSE, leaf |-> FALSE, pa |-> 0, w |-> FALSE]
Table(f) == [v |-> TRUE, leaf |-> FALSE, pa |-> f, w |-> FALSE]
Leaf(f, wr) == [v |-> TRUE, leaf |-> TRUE, pa |-> f, w |-> wr]
PTE2PA(e) == e.pa

AddrSpace == [l2 : Frames \cup {NULL}, l1 : [HSlots -> PTE], l0 : [VA -> PTE]]
EmptyAS == [l2 |-> NULL, l1 |-> [h \in HSlots |-> Invalid],
            l0 |-> [a \in VA |-> Invalid]]

(* The PTE slot a walk ends at: a level-1 or level-0 entry of the address  *)
(* space, or a word inside an ordinary frame.                              *)
L1Slot(a) == [lvl |-> 1, a |-> a]
L0Slot(a) == [lvl |-> 0, a |-> a]
InFrame(f, a) == [lvl |-> 2, a |-> a, f |-> f]

ReadSlot(w, s) ==
  CASE s.lvl = 1 -> w.as.l1[HX(s.a)]
    [] s.lvl = 0 -> w.as.l0[s.a]
    [] OTHER     -> w.fp[<<s.f, s.a>>]

WriteSlot(w, s, e) ==
  CASE s.lvl = 1 -> [w EXCEPT !.as.l1[HX(s.a)] = e]
    [] s.lvl = 0 -> [w EXCEPT !.as.l0[s.a] = e]
    [] OTHER     -> [w EXCEPT !.fp[<<s.f, s.a>>] = e]

(* memset(f, 0, ...) of a frame (or of a whole huge page). *)
ZeroFill(fp, fs) == [x \in DOMAIN fp |-> IF x[1] \in fs THEN Invalid ELSE fp[x]]

(* One level of walk: a missing table is allocated (and zeroed) only when  *)
(* alloc is set and kalloc (its result k) succeeds.                        *)
GrowWith(w, alloc, k) ==
  IF alloc /\ k.pa # NULL
    THEN [ok |-> TRUE, pa |-> k.pa,
          w |-> [w EXCEPT !.mem = k.mem, !.fp = ZeroFill(@, {k.pa})]]
    ELSE [ok |-> FALSE, pa |-> NULL, w |-> w]

(* Mutant of Grow: the allocator state after kalloc is dropped. *)
Grow_nomem(w, alloc) ==
  LET g == GrowWith(w, alloc, Kalloc(w.mem)) IN [g EXCEPT !.w.mem = w.mem]

Grow(w, alloc) == GrowWith(w, alloc, Kalloc(w.mem))

(* Install the table g grew (if any) in the level-2 or level-1 entry. *)
HugewalkGrow(w, a, g) ==
  IF ~g.ok THEN [slot |-> NULL, w |-> w]
  ELSE [slot |-> L1Slot(a), w |-> [g.w EXCEPT !.as.l2 = g.pa]]

WalkGrow(w, a, g) ==
  IF ~g.ok THEN [slot |-> NULL, w |-> w]
  ELSE [slot |-> L0Slot(a), w |-> [g.w EXCEPT !.as.l1[HX(a)] = Table(g.pa)]]

(* hugewalk: create or follow the level-2 entry, stop at level 1. *)
hugewalk(w, a, alloc) ==
  IF w.as.l2 # NULL THEN [slot |-> L1Slot(a), w |-> w]
  ELSE HugewalkGrow(w, a, Grow(w, alloc))

(* walk: as hugewalk, then create or follow the level-1 entry.  A valid    *)
(* level-1 entry is followed whether it is a table or a huge leaf.         *)
WalkLevel1(h, a, alloc) ==
  LET e == h.w.as.l1[HX(a)] IN
  IF h.slot = NULL THEN h
  ELSE IF e.v /\ e.leaf THEN [slot |-> InFrame(e.pa, a), w |-> h.w]
  ELSE IF e.v THEN [slot |-> L0Slot(a), w |-> h.w]
  ELSE WalkGrow(h.w, a, Grow(h.w, alloc))

walk(w, a, alloc) == WalkLevel1(hugewalk(w, a, alloc), a, alloc)

(* The walk a huge or small loop of the mmap code takes. *)
WalkFlex(w, a, is_huge, alloc) ==
  IF is_huge THEN hugewalk(w, a, alloc) ELSE walk(w, a, alloc)

Step(is_huge) == IF is_huge THEN PGINHUGEPG ELSE 1

(* walkfind: descend until a leaf or an invalid entry; the level-0 slot is *)
(* returned without looking at it.                                         *)
walkfind(as, a) ==
  CASE as.l2 = NULL \/ ~as.l1[HX(a)].v -> [slot |-> NULL, is_huge |-> FALSE]
    [] as.l1[HX(a)].leaf               -> [slot |-> L1Slot(a), is_huge |-> TRUE]
    [] OTHER                           -> [slot |-> L0Slot(a), is_huge |-> FALSE]

(* flexmappages with pa = 0: map every page (or huge page) of the range to *)
(* the zero page, read-only.  A slot that cannot be created or is already  *)
(* valid ends the loop with -1, keeping what was installed so far.         *)
RECURSIVE FlexMap(_, _, _, _), FlexMapAt(_, _, _, _)
FlexMapAt(r, a, last, is_huge) ==
  IF r.slot = NULL \/ ReadSlot(r.w, r.slot).v THEN [ok |-> FALSE, w |-> r.w]
  ELSE FlexMap(WriteSlot(r.w, r.slot, Leaf(ZEROHUGEPG, FALSE)),
               a + Step(is_huge), last, is_huge)

FlexMap(w, a, last, is_huge) ==
  IF a > last THEN [ok |-> TRUE, w |-> w]
  ELSE FlexMapAt(WalkFlex(w, a, is_huge, TRUE), a, last, is_huge)

flexmappages(w, va, size, is_huge) ==
  IF is_huge THEN FlexMap(w, HUGEPGROUNDDOWN(va), HUGEPGROUNDDOWN(va + size - 1), TRUE)
  ELSE FlexMap(w, va, va + size - 1, FALSE)

(* freewalk over the window: a leaf still present panics; otherwise every  *)
(* level-0 table is freed in slot order, then the level-1 table.           *)
Leaves(as) ==
  {L1Slot(h * PGINHUGEPG) : h \in {x \in HSlots : as.l1[x].leaf}}
  \cup {L0Slot(a) : a \in {b \in VA : as.l1[HX(b)].v /\ ~as.l1[HX(b)].leaf
                                       /\ as.l0[b].v}}

TableFrames(as) ==
  SetToSortSeq({h \in HSlots : as.l1[h].v /\ ~as.l1[h].leaf}, <)

FreeTables(m, as, hs) ==
  LET tbls == [i \in DOMAIN hs |-> as.l1[hs[i]].pa]
      all  == IF as.l2 = NULL THEN tbls ELSE Append(tbls, as.l2)
  IN FoldLeft(LAMBDA mm, f : Kfree(mm, f).mem, m, all)

freewalk(m, as) ==
  IF Leaves(as) # {} THEN [panic |-> TRUE, mem |-> m]
  ELSE [panic |-> FALSE, mem |-> FreeTables(m, as, TableFrames(as))]
=============================================================================
