------------------------------- MODULE Mmap -------------------------------
(***************************************************************************)
(* The mmap layer of kernel/proc.c (mmap, munmap, munmap_all, pagefault,   *)
(* handle_shared_fault, handle_private_fault and the region and shared-    *)
(* page tables they use) over processes that run concurrently, on top of   *)
(* the page tables of PageTable and the allocator of PhysMem.              *)
(*                                                                         *)
(* Each call runs as one step, except where the code lets other processes  *)
(* in: mmap picks a free global area (find_empty_vma) in one step and      *)
(* claims it in the next, since the scan and the claim are under no common *)
(* lock; exit unmaps one region per step (munmap_all), and the parent's    *)
(* wait frees the page tables (freeproc) in a later step.  Within one      *)
(* process, calls are sequential: a process is one thread of control.     *)
(*                                                                         *)
(* Addresses and lengths count pages.  A fault address is a page of the    *)
(* window; the byte offset within a page is not modelled.  A process that  *)
(* is reaped is replaced by a new process with an empty window (allocproc  *)
(* then exec), which lets area indices and frames be reused.               *)
(***************************************************************************)
EXTENDS PageTable, Functions

CONSTANTS
  PROCS,           \* process slots
  MMAP_GLOBAL_MAX, \* entries of mmap_areas
  MMAP_PROC_MAX,   \* entries of p->mmap
  MMAP_MAX_SIZE,   \* largest length mmap accepts
  Lengths,         \* lengths passed to mmap
  Prots,           \* prot arguments, as sets of PROT_ bits
  Flags,           \* flags arguments, as sets of MAP_ bits
  MmapAt(_, _),    \* MmapAt(fl, n): the addresses passed to mmap with flags fl, length n
  MAXREF           \* bound on a shared page's ref_count (faults stop there)

OptionBits == {"PROT_READ", "PROT_WRITE", "MAP_PRIVATE", "MAP_SHARED", "MAP_HUGEPAGE"}
AreaIdx == 0 .. MMAP_GLOBAL_MAX - 1
Slots   == 0 .. MMAP_PROC_MAX - 1

ASSUME /\ Lengths \subseteq Nat /\ Prots \subseteq SUBSET OptionBits
       /\ \A fl \in Flags, n \in Lengths : MmapAt(fl, n) \subseteq VA
       /\ Flags \subseteq SUBSET OptionBits /\ MAXREF \in Nat \ {0}

VARIABLES
  mem,           \* the allocator: hugepages[] (PhysMem)
  as,            \* as[p]: the mmap window of p->pagetable
  fp,            \* PTEs that walk wrote into ordinary frames (PageTable)
  mmap_areas,    \* the global region table
  mmap,          \* mmap[p][i]: p->mmap[i], an index of mmap_areas or NULL
  mmap_count,    \* p->mmap_count
  shared_pages,  \* shared_pages[f]: the record of frame f
  state,         \* where process p is (see PState)
  killed,        \* p->killed
  pending,       \* mmap between find_empty_vma and the claim: its arguments
  exit_i,        \* munmap_all's loop index
  panicked       \* the kernel has panicked

vars == <<mem, as, fp, mmap_areas, mmap, mmap_count, shared_pages, state,
          killed, pending, exit_i, panicked>>

(* "user": running, may trap; "mmap_add": inside mmap, area chosen;        *)
(* "munmap_all": inside exit; "zombie": exited, not yet reaped.            *)
PState == {"user", "mmap_add", "munmap_all", "zombie"}

Area == [is_valid : BOOLEAN, start : Nat, end : Nat, length : Nat,
         options : SUBSET OptionBits, needs_cow : BOOLEAN]
ShPage == [vma_idx : AreaIdx \cup {-1}, start_va : Nat, ref_count : Int, pte : PTE]
Pending == [start : VA, length : Nat, options : SUBSET OptionBits, area : AreaIdx]

(* Static storage starts zeroed. *)
ZeroArea == [is_valid |-> FALSE, start |-> 0, end |-> 0, length |-> 0,
             options |-> {}, needs_cow |-> FALSE]
ZeroShPage == [vma_idx |-> 0, start_va |-> 0, ref_count |-> 0, pte |-> Invalid]

TypeOK ==
  /\ mem \in Mem
  /\ as \in [PROCS -> AddrSpace]
  /\ fp \in [Frames \X VA -> PTE]
  /\ mmap_areas \in [AreaIdx -> Area]
  /\ mmap \in [PROCS -> [Slots -> AreaIdx \cup {NULL}]]
  /\ mmap_count \in [PROCS -> Int]
  /\ shared_pages \in [Frames -> ShPage]
  /\ state \in [PROCS -> PState]
  /\ killed \in [PROCS -> BOOLEAN]
  /\ pending \in [PROCS -> Pending \cup {NULL}]
  /\ exit_i \in [PROCS -> 0 .. MMAP_PROC_MAX]
  /\ panicked \in BOOLEAN

Init ==
  /\ mem = BootMem
  /\ as = [p \in PROCS |-> EmptyAS]
  /\ fp = [x \in Frames \X VA |-> Invalid]
  /\ mmap_areas = [i \in AreaIdx |-> ZeroArea]
  /\ mmap = [p \in PROCS |-> [i \in Slots |-> NULL]]
  /\ mmap_count = [p \in PROCS |-> 0]
  /\ shared_pages = [f \in Frames |-> ZeroShPage]
  /\ state = [p \in PROCS |-> "user"]
  /\ killed = [p \in PROCS |-> FALSE]
  /\ pending = [p \in PROCS |-> NULL]
  /\ exit_i = [p \in PROCS |-> 0]
  /\ panicked = FALSE

(***************************************************************************)
(* Helpers, on a record W holding everything one call of process p reads   *)
(* and writes (World(p)); Commit(p, W) makes W the next state.             *)
(***************************************************************************)
World(p) ==
  [mem |-> mem, as |-> as[p], fp |-> fp, areas |-> mmap_areas,
   slots |-> mmap[p], count |-> mmap_count[p], shpg |-> shared_pages,
   killed |-> killed[p], panic |-> panicked]

Commit(p, W) ==
  /\ mem' = W.mem /\ as' = [as EXCEPT ![p] = W.as] /\ fp' = W.fp
  /\ mmap_areas' = W.areas /\ mmap' = [mmap EXCEPT ![p] = W.slots]
  /\ mmap_count' = [mmap_count EXCEPT ![p] = W.count]
  /\ shared_pages' = W.shpg /\ killed' = [killed EXCEPT ![p] = W.killed]
  /\ panicked' = W.panic

Panic(W) == [W EXCEPT !.panic = TRUE]

(* get_vma: the first slot whose area contains addr (or NULL); with pop,   *)
(* the slot is emptied and mmap_count decremented.                         *)
VmaSlot(W, addr) ==
  LET hits == {i \in Slots : W.slots[i] # NULL
                             /\ W.areas[W.slots[i]].start <= addr
                             /\ addr < W.areas[W.slots[i]].end}
  IN IF hits = {} THEN NULL ELSE Min(hits)

get_vma(W, addr) == IF VmaSlot(W, addr) = NULL THEN NULL ELSE W.slots[VmaSlot(W, addr)]

PopVma(W, addr) == [W EXCEPT !.slots[VmaSlot(W, addr)] = NULL, !.count = @ - 1]

(* find_shpg: the lowest frame whose record carries the key (or NULL). *)
find_shpg(shpg, vma_idx, start_va) ==
  LET hits == {f \in Frames : shpg[f].vma_idx = vma_idx /\ shpg[f].start_va = start_va}
  IN IF hits = {} THEN NULL ELSE Min(hits)

(* find_empty_vma: the first global area that is not valid (or NULL). *)
find_empty_vma ==
  LET free == {i \in AreaIdx : ~mmap_areas[i].is_valid}
  IN IF free = {} THEN NULL ELSE Min(free)

IsHuge(options) == "MAP_HUGEPAGE" \in options
(* munmap: get_vma pops the slot before the start address is checked.  A    *)
(* shared region consults the record of its first page only: the frames   *)
(* are freed (is_idle) only when that record's count drops to zero; with  *)
(* no record they are kept.  A private region always frees its frames.    *)
(* The loop clears each PTE, frees its frame when idle, and stops with -1 *)
(* at a missing slot or a non-leaf entry.                                 *)
RECURSIVE UnmapLoop(_, _, _, _, _), UnmapAt(_, _, _, _, _, _), UnmapFree(_, _, _, _, _)

UnmapFree(W1, fr, a, last, is_huge) ==
  IF fr.panic THEN [ret |-> -1, w |-> Panic(W1)]
  ELSE UnmapLoop([W1 EXCEPT !.mem = fr.mem], a + Step(is_huge), last, is_huge, TRUE)

UnmapAt(W, s, a, last, is_huge, is_idle) ==
  LET e  == ReadSlot(W, s)
      W1 == WriteSlot(W, s, Invalid)
  IN IF s = NULL \/ (e.v /\ ~e.leaf) THEN [ret |-> -1, w |-> W]
     ELSE IF ~is_idle THEN UnmapLoop(W1, a + Step(is_huge), last, is_huge, FALSE)
     ELSE UnmapFree(W1, KfreeFlex(W.mem, PTE2PA(e), is_huge), a, last, is_huge)

UnmapLoop(W, a, last, is_huge, is_idle) ==
  IF a > last THEN [ret |-> 0, w |-> W]
  ELSE UnmapAt(W, WalkFlex(W, a, is_huge, FALSE).slot, a, last, is_huge, is_idle)

(* The record of the first page (rec) after the pop (W1): drop one         *)
(* reference, retiring the record and the area at zero, then unmap.       *)
RetiredShPage == [vma_idx |-> -1, start_va |-> 0, ref_count |-> 0, pte |-> Invalid]

(* Mutant of MunmapShared: the record's ref_count is not decremented. *)
MunmapShared_nodec(W1, va, i, rec) ==
  LET area    == W1.areas[i]
      shared  == "MAP_SHARED" \in area.options
      newref  == W1.shpg[rec].ref_count - 1
      W2      == IF shared /\ rec # NULL /\ newref = 0
                   THEN [W1 EXCEPT !.areas[i].is_valid = FALSE] ELSE W1
      is_idle == ~shared \/ (rec # NULL /\ newref = 0)
      is_huge == IsHuge(area.options)
      last    == IF is_huge THEN HUGEPGROUNDDOWN(va + area.length - 1)
                 ELSE va + area.length - 1
  IN UnmapLoop(W2, va, last, is_huge, is_idle)

(* Mutant of MunmapShared: a shared region is never idle, even when its    *)
(* record's count drops to zero.                                          *)
MunmapShared_noidle(W1, va, i, rec) ==
  LET area    == W1.areas[i]
      shared  == "MAP_SHARED" \in area.options
      newref  == W1.shpg[rec].ref_count - 1
      W2      == CASE ~shared \/ rec = NULL -> W1
                   [] newref = 0 -> [W1 EXCEPT !.areas[i].is_valid = FALSE,
                                               !.shpg[rec] = RetiredShPage]
                   [] OTHER -> [W1 EXCEPT !.shpg[rec].ref_count = newref]
      is_huge == IsHuge(area.options)
      last    == IF is_huge THEN HUGEPGROUNDDOWN(va + area.length - 1)
                 ELSE va + area.length - 1
  IN UnmapLoop(W2, va, last, is_huge, ~shared)

(* Mutant of MunmapShared: a region without a record is treated as idle. *)
MunmapShared_idle_norec(W1, va, i, rec) ==
  LET area    == W1.areas[i]
      shared  == "MAP_SHARED" \in area.options
      newref  == W1.shpg[rec].ref_count - 1
      W2      == CASE ~shared \/ rec = NULL -> W1
                   [] newref = 0 -> [W1 EXCEPT !.areas[i].is_valid = FALSE,
                                               !.shpg[rec] = RetiredShPage]
                   [] OTHER -> [W1 EXCEPT !.shpg[rec].ref_count = newref]
      is_idle == ~shared \/ rec = NULL \/ newref = 0
      is_huge == IsHuge(area.options)
      last    == IF is_huge THEN HUGEPGROUNDDOWN(va + area.length - 1)
                 ELSE va + area.length - 1
  IN UnmapLoop(W2, va, last, is_huge, is_idle)

MunmapShared(W1, va, i, rec) ==
  LET area    == W1.areas[i]
      shared  == "MAP_SHARED" \in area.options
      newref  == W1.shpg[rec].ref_count - 1
      W2      == CASE ~shared \/ rec = NULL -> W1
                   [] newref = 0 -> [W1 EXCEPT !.areas[i].is_valid = FALSE,
                                               !.shpg[rec] = RetiredShPage]
                   [] OTHER -> [W1 EXCEPT !.shpg[rec].ref_count = newref]
      is_idle == ~shared \/ (rec # NULL /\ newref = 0)
      is_huge == IsHuge(area.options)
      last    == IF is_huge THEN HUGEPGROUNDDOWN(va + area.length - 1)
                 ELSE va + area.length - 1
  IN UnmapLoop(W2, va, last, is_huge, is_idle)

MunmapArea(W, va, i) ==
  IF i = NULL THEN [ret |-> -1, w |-> W]
  ELSE IF va # W.areas[i].start THEN [ret |-> -1, w |-> PopVma(W, va)]
  ELSE MunmapShared(PopVma(W, va), va, i, find_shpg(W.shpg, i, va))

munmap(W, va) == MunmapArea(W, va, get_vma(W, va))

(* handle_shared_fault: join the record of (area, aligned va) by installing *)
(* its cached PTE, or allocate and zero a frame, install it (W iff the      *)
(* area has PROT_WRITE) and publish it in the frame's record.               *)
SharedFault(W, pte, i, start_va, is_huge, rec, k) ==
  LET npte == Leaf(k.pa, "PROT_WRITE" \in W.areas[i].options)
      zero == IF is_huge THEN FramesOf(HUGEPGINDEX(k.pa)) ELSE {k.pa}
      W1   == WriteSlot([W EXCEPT !.mem = k.mem, !.fp = ZeroFill(@, zero)], pte, npte)
  IN IF rec # NULL
       THEN [WriteSlot(W, pte, W.shpg[rec].pte) EXCEPT !.shpg[rec].ref_count = @ + 1]
     ELSE IF k.pa = NULL THEN Panic(W)
     ELSE IF W.shpg[k.pa].ref_count > 0 THEN Panic(W1)
     ELSE [W1 EXCEPT !.shpg[k.pa] = [vma_idx |-> i, start_va |-> start_va,
                                     ref_count |-> @.ref_count + 1, pte |-> npte]]

handle_shared_fault(W, pte, va, i, is_huge) ==
  LET start_va == IF is_huge THEN HUGEPGROUNDDOWN(va) ELSE va IN
  SharedFault(W, pte, i, start_va, is_huge, find_shpg(W.shpg, i, start_va),
              KallocFlex(W.mem, is_huge))

(* handle_private_fault: a fresh frame k, a copy of the old one if the     *)
(* area needs_cow (clearing the flag) or zeroed otherwise, mapped          *)
(* read-write.                                                             *)
CopyFill(words, to, from) ==
  [x \in DOMAIN words |-> IF x[1] \in to THEN words[<<from + x[1] - Min(to), x[2]>>]
                          ELSE words[x]]

PrivateFault(W, pte, i, is_huge, k) ==
  LET to  == IF is_huge THEN FramesOf(HUGEPGINDEX(k.pa)) ELSE {k.pa}
      old == PTE2PA(ReadSlot(W, pte))
      W1  == IF W.areas[i].needs_cow
               THEN [W EXCEPT !.mem = k.mem, !.areas[i].needs_cow = FALSE,
                              !.fp = CopyFill(@, to, old)]
               ELSE [W EXCEPT !.mem = k.mem, !.fp = ZeroFill(@, to)]
  IN IF k.pa = NULL THEN Panic(W) ELSE WriteSlot(W1, pte, Leaf(k.pa, TRUE))

handle_private_fault(W, pte, i, is_huge) ==
  PrivateFault(W, pte, i, is_huge, KallocFlex(W.mem, is_huge))

(* The MMU: an access to va traps when no leaf maps it, or on a store      *)
(* through a leaf without W.                                               *)
Faults(s, va, store) ==
  LET e1 == s.l1[HX(va)] IN
  \/ s.l2 = NULL \/ ~e1.v
  \/ e1.leaf /\ store /\ ~e1.w
  \/ ~e1.leaf /\ (~s.l0[va].v \/ (store /\ ~s.l0[va].w))

(* pagefault: `area->options && MAP_SHARED` is true for every area whose   *)
(* options are not all zero, so those faults all go to the shared handler. *)
pagefault_handler(W, va, store) ==
  LET wf == walkfind(W.as, va)
      i  == get_vma(W, va)
  IN IF wf.slot = NULL THEN [W EXCEPT !.killed = TRUE]
     ELSE IF i = NULL THEN [W EXCEPT !.killed = TRUE]
     ELSE IF W.areas[i].options # {}
       THEN handle_shared_fault(W, wf.slot, va, i, wf.is_huge)
     ELSE IF ~store THEN [W EXCEPT !.killed = TRUE]
     ELSE IF "PROT_WRITE" \notin W.areas[i].options THEN [W EXCEPT !.killed = TRUE]
     ELSE handle_private_fault(W, wf.slot, i, wf.is_huge)

(***************************************************************************)
(* Actions.  A process whose fault handler set killed leaves usertrap       *)
(* through exit, so killed processes only exit.                            *)
(***************************************************************************)
Live == ~panicked
Running(p) == state[p] = "user" /\ ~killed[p]

(* sys_mmap -> mmap, up to find_empty_vma in add_vma: the alignment and     *)
(* quota checks, flexmappages onto the zero page, and the choice of a free  *)
(* global area.  The range is kept inside the modelled window.             *)
MmapWith(p, a, length, prot, flags, r) ==
  /\ Live /\ Running(p)
  /\ a + length <= MMAPBASE + NVA
  /\ ~(IsHuge(flags) /\ a % PGINHUGEPG # 0)
  /\ length <= MMAP_MAX_SIZE /\ mmap_count[p] < MMAP_PROC_MAX
  /\ IF length = 0
       THEN /\ panicked' = TRUE       \* flexmappages: panic("flexmappages: size")
            /\ UNCHANGED <<mem, as, fp, mmap_areas, mmap, mmap_count, shared_pages,
                           killed, state, pending>>
       ELSE /\ Commit(p, r.w)
            /\ IF r.ok /\ find_empty_vma # NULL
                 THEN /\ state' = [state EXCEPT ![p] = "mmap_add"]
                      /\ pending' = [pending EXCEPT ![p] =
                           [start |-> a, length |-> length,
                            options |-> prot \cup flags, area |-> find_empty_vma]]
                 ELSE UNCHANGED <<state, pending>>
  /\ UNCHANGED exit_i

sys_mmap(p, a, length, prot, flags) ==
  MmapWith(p, a, length, prot, flags, flexmappages(World(p), a, length, IsHuge(flags)))

(* add_vma after find_empty_vma: put the chosen area in the first empty     *)
(* slot of p->mmap and fill it in.  Its return value is ignored by mmap.   *)
add_vma(p) ==
  LET pd   == pending[p]
      free == {i \in Slots : mmap[p][i] = NULL}
  IN /\ Live /\ state[p] = "mmap_add"
     /\ IF free # {}
          THEN /\ mmap' = [mmap EXCEPT ![p][Min(free)] = pd.area]
               /\ mmap_areas' = [mmap_areas EXCEPT ![pd.area] =
                    [is_valid |-> TRUE, start |-> pd.start, end |-> pd.start + pd.length,
                     length |-> pd.length, options |-> pd.options, needs_cow |-> FALSE]]
               /\ mmap_count' = [mmap_count EXCEPT ![p] = @ + 1]
          ELSE UNCHANGED <<mmap, mmap_areas, mmap_count>>
     /\ state' = [state EXCEPT ![p] = "user"]
     /\ pending' = [pending EXCEPT ![p] = NULL]
     /\ UNCHANGED <<mem, as, fp, shared_pages, killed, exit_i, panicked>>

(* sys_munmap -> munmap. *)
sys_munmap(p, va) ==
  /\ Live /\ Running(p)
  /\ Commit(p, munmap(World(p), va).w)
  /\ UNCHANGED <<state, pending, exit_i>>

(* usertrap -> pagefault on a load (store = FALSE) or store that traps. *)
pagefault(p, va, store) ==
  /\ Live /\ Running(p)
  /\ Faults(as[p], va, store)
  /\ \A f \in Frames : shared_pages[f].ref_count < MAXREF
  /\ Commit(p, pagefault_handler(World(p), va, store))
  /\ UNCHANGED <<state, pending, exit_i>>

(* exit, by choice or because killed: enter munmap_all. *)
exit(p) ==
  /\ Live /\ state[p] = "user"
  /\ state' = [state EXCEPT ![p] = "munmap_all"]
  /\ exit_i' = [exit_i EXCEPT ![p] = 0]
  /\ UNCHANGED <<mem, as, fp, mmap_areas, mmap, mmap_count, shared_pages,
                 killed, pending, panicked>>

(* One iteration of munmap_all: munmap the start of the area in slot i;    *)
(* a failing munmap ends the loop.                                         *)
MunmapAllWith(p, r) ==
  LET i == exit_i[p] IN
  /\ Live /\ state[p] = "munmap_all" /\ i < MMAP_PROC_MAX
  /\ IF mmap[p][i] = NULL
       THEN /\ exit_i' = [exit_i EXCEPT ![p] = i + 1]
            /\ UNCHANGED <<mem, as, fp, mmap_areas, mmap, mmap_count,
                           shared_pages, killed, panicked>>
       ELSE /\ Commit(p, r.w)
            /\ exit_i' = [exit_i EXCEPT ![p] = IF r.ret = -1 THEN MMAP_PROC_MAX ELSE i + 1]
  /\ UNCHANGED <<state, pending>>

munmap_all(p) == MunmapAllWith(p, munmap(World(p), mmap_areas[mmap[p][exit_i[p]]].start))

(* The rest of exit: the process becomes a zombie. *)
exit_zombie(p) ==
  /\ Live /\ state[p] = "munmap_all" /\ exit_i[p] = MMAP_PROC_MAX
  /\ state' = [state EXCEPT ![p] = "zombie"]
  /\ UNCHANGED <<mem, as, fp, mmap_areas, mmap, mmap_count, shared_pages,
                 killed, pending, exit_i, panicked>>

(* Mutant of ReapWith: p->pagetable is not reset after its tables are freed. *)
ReapWith_keep_pt(p, fw) ==
  /\ Live /\ state[p] = "zombie"
  /\ IF fw.panic
       THEN /\ panicked' = TRUE
            /\ UNCHANGED <<mem, mmap, mmap_count, killed, state>>
       ELSE /\ mem' = fw.mem
            /\ mmap' = [mmap EXCEPT ![p] = [i \in Slots |-> NULL]]
            /\ mmap_count' = [mmap_count EXCEPT ![p] = 0]
            /\ killed' = [killed EXCEPT ![p] = FALSE]
            /\ state' = [state EXCEPT ![p] = "user"]
            /\ UNCHANGED panicked
  /\ UNCHANGED <<as, fp, mmap_areas, shared_pages, pending, exit_i>>

(* wait -> freeproc: freewalk the page table (fw: a leaf left panics),    *)
(* clear p->mmap and mmap_count; the slot is then reused by a new process *)
(* (allocproc) whose window is empty.                                     *)
ReapWith(p, fw) ==
  /\ Live /\ state[p] = "zombie"
  /\ IF fw.panic
       THEN /\ panicked' = TRUE
            /\ UNCHANGED <<mem, as, mmap, mmap_count, killed, state>>
       ELSE /\ mem' = fw.mem
            /\ as' = [as EXCEPT ![p] = EmptyAS]
            /\ mmap' = [mmap EXCEPT ![p] = [i \in Slots |-> NULL]]
            /\ mmap_count' = [mmap_count EXCEPT ![p] = 0]
            /\ killed' = [killed EXCEPT ![p] = FALSE]
            /\ state' = [state EXCEPT ![p] = "user"]
            /\ UNCHANGED panicked
  /\ UNCHANGED <<fp, mmap_areas, shared_pages, pending, exit_i>>

reap(p) == ReapWith(p, freewalk(mem, as[p]))

(* After a panic nothing runs. *)
Halted == panicked /\ UNCHANGED vars

Next ==
  \/ \E p \in PROCS, n \in Lengths, pr \in Prots, fl \in Flags :
       \E a \in MmapAt(fl, n) : sys_mmap(p, a, n, pr, fl)
  \/ \E p \in PROCS : add_vma(p)
  \/ \E p \in PROCS, va \in VA : sys_munmap(p, va)
  \/ \E p \in PROCS, va \in VA, st \in BOOLEAN : pagefault(p, va, st)
  \/ \E p \in PROCS : exit(p)
  \/ \E p \in PROCS : munmap_all(p)
  \/ \E p \in PROCS : exit_zombie(p)
  \/ \E p \in PROCS : reap(p)
  \/ Halted

Spec == Init /\ [][Next]_vars

(***************************************************************************)
(* Properties.                                                             *)
(***************************************************************************)
ZeroFrames == FramesOf(ZEROIDX)

(* The leaves of p's window: level-1 slots holding a huge leaf, pages      *)
(* holding a level-0 leaf; the address a leaf starts at; the frames they   *)
(* map (a huge leaf maps every frame of its descriptor); the page tables.  *)
HugeLeaves(p)  == {h \in HSlots : as[p].l1[h].v /\ as[p].l1[h].leaf}
SmallLeaves(p) == {a \in VA : as[p].l1[HX(a)].v /\ ~as[p].l1[HX(a)].leaf /\ as[p].l0[a].v}
LeafBases(p)   == {h * PGINHUGEPG : h \in HugeLeaves(p)} \cup SmallLeaves(p)

MappedFrames(p) ==
  (UNION {FramesOf(HUGEPGINDEX(as[p].l1[h].pa)) : h \in HugeLeaves(p)}
   \cup {as[p].l0[a].pa : a \in SmallLeaves(p)}) \ ZeroFrames

PTFrames(p) ==
  (IF as[p].l2 = NULL THEN {} ELSE {as[p].l2})
  \cup {as[p].l1[h].pa : h \in {x \in HSlots : as[p].l1[x].v /\ ~as[p].l1[x].leaf}}

(* Frames a process relies on are not on a free list: neither a page-table *)
(* frame nor a frame mapped by a leaf was freed while still in use (the    *)
(* frees of munmap, munmap_all and freeproc against the faults that map).  *)
NoUseAfterFree ==
  \A p \in PROCS : (MappedFrames(p) \cup PTFrames(p)) \cap FreeFrames(mem) = {}

(* Without fork no frame is shared between address spaces: a frame serves *)
(* one process, and as a page table or as data, never both.                *)
FramesExclusive ==
  \A p, q \in PROCS :
     /\ MappedFrames(p) \cap PTFrames(q) = {}
     /\ p # q => /\ MappedFrames(p) \cap MappedFrames(q) = {}
                 /\ PTFrames(p) \cap PTFrames(q) = {}

(* A shared page's ref_count is the number of leaves, over all processes,  *)
(* that map its frame: every fault that publishes or joins adds one, every *)
(* munmap that drops a reference removes one.                              *)
Mappings(f) ==
  Cardinality({<<p, h>> \in PROCS \X HSlots : h \in HugeLeaves(p) /\ as[p].l1[h].pa = f})
  + Cardinality({<<p, a>> \in PROCS \X VA : a \in SmallLeaves(p) /\ as[p].l0[a].pa = f})

RefCountExact ==
  \A f \in Frames \ ZeroFrames :
     shared_pages[f].ref_count > 0 => shared_pages[f].ref_count = Mappings(f)

(* Every leaf in a running process's window starts inside one of its       *)
(* regions: mmap records a region for what it maps, and munmap removes the *)
(* mappings of the region it drops.                                        *)
MappedImpliesRegion ==
  \A p \in PROCS : state[p] = "user" =>
     \A a \in LeafBases(p) :
        \E i \in Slots : /\ mmap[p][i] # NULL
                         /\ mmap_areas[mmap[p][i]].start <= a
                         /\ a < mmap_areas[mmap[p][i]].end

(* A shared-page record in use names a frame that is not free: when munmap *)
(* frees the frames of a region it also retires their records, so a later *)
(* fault cannot join a record and map a frame the allocator gave away.     *)
RecordsNameLiveFrames ==
  \A f \in Frames \ ZeroFrames :
     shared_pages[f].ref_count > 0 => f \notin FreeFrames(mem)

(* Only shared regions publish shared-page records: a fault on a private   *)
(* region is resolved by the private handler (or kills the process).       *)
RecordsOnlyForShared ==
  \A f \in Frames :
     (shared_pages[f].ref_count > 0 /\ shared_pages[f].vma_idx \in AreaIdx
      /\ mmap_areas[shared_pages[f].vma_idx].is_valid)
        => "MAP_SHARED" \in mmap_areas[shared_pages[f].vma_idx].options

(* walk never writes a PTE into a frame that is not a page table (a huge  *)
(* leaf is not followed as if it were a level-0 table).                    *)
NoPTEInDataFrame == \A x \in DOMAIN fp : fp[x] = Invalid

(* A global area belongs to one slot of one process. *)
AreaOwnership ==
  \A p, q \in PROCS, i, j \in Slots :
     (mmap[p][i] # NULL /\ mmap[p][i] = mmap[q][j]) => (p = q /\ i = j)

(* The zero page stays granted whole, is never freed and never written. *)
ZeroPageIntact ==
  /\ mem.ha[ZEROIDX] /\ mem.fc[ZEROIDX] = Cardinality(BootFree(ZEROIDX))
  /\ \A f \in ZeroFrames, a \in VA : fp[<<f, a>>] = Invalid

(* Once no process has anything mapped (every process has been reaped, or *)
(* has not mapped yet), every frame the faults took is back on a free      *)
(* list: munmap, munmap_all and freeproc between them free each data frame *)
(* and page table exactly once, so no sequence of calls leaks a frame.     *)
NoFrameLeak ==
  (\A p \in PROCS : as[p] = EmptyAS) => FreeFrames(mem) = FreeFrames(BootMem)

(* No sequence of system calls and faults panics the kernel. *)
NoPanic == ~panicked
=============================================================================
