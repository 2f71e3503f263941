------------------------------- MODULE KAlloc -------------------------------
(***************************************************************************)
(* The physical frame allocator of kernel/kalloc.c (SNU build).            *)
(*                                                                         *)
(* Physical memory is cut into huge descriptors, hugepages[], of           *)
(* PGINHUGEPG small frames each.  A descriptor keeps its own free list,    *)
(* free count and hugealloced flag under its own spinlock; the diagnostic  *)
(* counters freemem, used4k and used2m sit under memstat_lock.             *)
(*                                                                         *)
(* Every critical section of the code is one atomic step of the model.     *)
(* Each descriptor field is only touched with that descriptor's lock held  *)
(* and no lock is held from one step to the next, so the locks need no     *)
(* variable of their own: what matters is which steps of other CPUs may    *)
(* fall between two steps of one call.  The callers are the CPUs: an idle  *)
(* CPU calls kalloc or kalloc_huge, or frees a frame or huge page it was   *)
(* handed earlier.  A panic stops the machine.                             *)
(***************************************************************************)
EXTENDS PhysMem, Functions

CONSTANT CPUS    \* the CPUs calling into the allocator concurrently

VARIABLES
  freelist,      \* hugepages[d].freelist, head first
  freecount,     \* hugepages[d].freecount
  hugealloced,   \* hugepages[d].hugealloced
  freemem, used4k, used2m,   \* memstat counters
  pc,            \* where each CPU is inside an allocator call
  idx,           \* loop index i of the scan (kalloc_huge: its target)
  free_hugepage, \* kalloc's remembered whole-free descriptor
  r,             \* kalloc's popped frame
  owned,         \* small frames each CPU's caller holds
  ownedHuge,     \* huge descriptors each CPU's caller holds
  panicked       \* a panic() has stopped the machine

vars == <<freelist, freecount, hugealloced, freemem, used4k, used2m,
          pc, idx, free_hugepage, r, owned, ownedHuge, panicked>>

Pcs == {"idle", "kalloc_scan", "kalloc_split", "kalloc_stat",
        "kalloc_huge_scan", "kalloc_huge_stat", "kfree_stat",
        "kfree_huge_stat"}

TypeOK ==
  /\ freelist \in [Desc -> Seq(Frames)]
  /\ freecount \in [Desc -> 0 .. PGINHUGEPG]
  /\ hugealloced \in [Desc -> BOOLEAN]
  /\ {freemem, used4k, used2m} \subseteq Int
  /\ pc \in [CPUS -> Pcs]
  /\ idx \in [CPUS -> 0 .. MAXHUGEPGS]
  /\ free_hugepage \in [CPUS -> Desc \cup {NULL}]
  /\ r \in [CPUS -> Frames \cup {NULL}]
  /\ owned \in [CPUS -> SUBSET Frames]
  /\ ownedHuge \in [CPUS -> SUBSET Desc]
  /\ panicked \in BOOLEAN

(* kinit (PhysMem's BootMem), and its counters: used4k counts the frames  *)
(* below `end`, the zero page is one used huge page.                       *)
Init ==
  LET freed == Cardinality(UNION {BootFree(d) : d \in Desc}) IN
  /\ freelist = BootMem.fl
  /\ freecount = BootMem.fc
  /\ hugealloced = BootMem.ha
  /\ freemem = freed - PGINHUGEPG
  /\ used4k = Cardinality(Frames) - freed
  /\ used2m = 1
  /\ pc = [c \in CPUS |-> "idle"]
  /\ idx = [c \in CPUS |-> 0]
  /\ free_hugepage = [c \in CPUS |-> NULL]
  /\ r = [c \in CPUS |-> NULL]
  /\ owned = [c \in CPUS |-> {}]
  /\ ownedHuge = [c \in CPUS |-> {}]
  /\ panicked = FALSE

Live == ~panicked

Goto(c, to) == pc' = [pc EXCEPT ![c] = to]

(* _pop_page, without its hugealloced check (done by the callers below):   *)
(* take the head of d's list, if any, and decrement the count.             *)
PopHead(d) == IF freelist[d] = <<>> THEN NULL ELSE Head(freelist[d])

(* Mutant of pop_page: freecount decremented even when the list is empty. *)
pop_page_nocheck(d) ==
  /\ freelist' = [freelist EXCEPT ![d] = IF @ = <<>> THEN @ ELSE Tail(@)]
  /\ freecount' = [freecount EXCEPT ![d] = @ - 1]

pop_page(d) ==
  /\ freelist' = [freelist EXCEPT ![d] = IF @ = <<>> THEN @ ELSE Tail(@)]
  /\ freecount' = [freecount EXCEPT ![d] = IF freelist[d] = <<>> THEN @ ELSE @ - 1]

(***************************************************************************)
(* kalloc.  First pass over all descriptors, each under its own lock: a    *)
(* split descriptor with a free frame serves at once; the first whole-free *)
(* one is only remembered.  If nothing was served, the remembered one is   *)
(* locked again and split.  The counters are updated last.                 *)
(***************************************************************************)
kalloc(c) ==
  /\ Live /\ pc[c] = "idle"
  /\ Goto(c, "kalloc_scan")
  /\ idx' = [idx EXCEPT ![c] = 0]
  /\ UNCHANGED <<freelist, freecount, hugealloced, freemem, used4k, used2m,
                 free_hugepage, r, owned, ownedHuge, panicked>>

(* After the loop: serve, split the remembered descriptor, or return 0.    *)
AfterScan(c, rv) ==
  IF rv # NULL THEN "kalloc_stat"
  ELSE IF free_hugepage[c] # NULL THEN "kalloc_split" ELSE "idle"

kalloc_scan(c) ==
  LET d == idx[c] IN
  /\ Live /\ pc[c] = "kalloc_scan"
  /\ d < MAXHUGEPGS
  /\ \/ /\ hugealloced[d] \/ freecount[d] = 0
        /\ idx' = [idx EXCEPT ![c] = d + 1]
        /\ UNCHANGED <<freelist, freecount, free_hugepage, r, pc>>
     \/ /\ ~hugealloced[d] /\ freecount[d] = PGINHUGEPG
        /\ free_hugepage' = [free_hugepage EXCEPT ![c] = IF @ = NULL THEN d ELSE @]
        /\ idx' = [idx EXCEPT ![c] = d + 1]
        /\ UNCHANGED <<freelist, freecount, r, pc>>
     \/ /\ ~hugealloced[d] /\ freecount[d] # PGINHUGEPG /\ freecount[d] > 0
        /\ pop_page(d)
        /\ r' = [r EXCEPT ![c] = PopHead(d)]
        /\ Goto(c, AfterScan(c, PopHead(d)))
        /\ UNCHANGED <<free_hugepage, idx>>
  /\ UNCHANGED <<hugealloced, freemem, used4k, used2m, owned, ownedHuge, panicked>>

kalloc_scan_done(c) ==
  /\ Live /\ pc[c] = "kalloc_scan"
  /\ idx[c] = MAXHUGEPGS
  /\ Goto(c, AfterScan(c, NULL))
  /\ UNCHANGED <<freelist, freecount, hugealloced, freemem, used4k, used2m,
                 idx, free_hugepage, r, owned, ownedHuge, panicked>>

(* Mutant of kalloc_split: _pop_page without its hugealloced check. *)
kalloc_split_nocheck(c) ==
  LET d == free_hugepage[c] IN
  /\ Live /\ pc[c] = "kalloc_split"
  /\ pop_page(d)
  /\ r' = [r EXCEPT ![c] = PopHead(d)]
  /\ Goto(c, IF PopHead(d) # NULL THEN "kalloc_stat" ELSE "idle")
  /\ free_hugepage' = [free_hugepage EXCEPT ![c] = NULL]
  /\ UNCHANGED <<hugealloced, freemem, used4k, used2m, idx, owned, ownedHuge, panicked>>

(* Second phase: free_hugepage is locked again; nothing was re-checked     *)
(* since the first pass, and _pop_page panics if it has meanwhile been     *)
(* handed out whole by kalloc_huge.                                        *)
kalloc_split(c) ==
  LET d == free_hugepage[c] IN
  /\ Live /\ pc[c] = "kalloc_split"
  /\ \/ /\ hugealloced[d]
        /\ panicked' = TRUE
        /\ UNCHANGED <<freelist, freecount, r, pc>>
     \/ /\ ~hugealloced[d]
        /\ pop_page(d)
        /\ r' = [r EXCEPT ![c] = PopHead(d)]
        /\ Goto(c, IF PopHead(d) # NULL THEN "kalloc_stat" ELSE "idle")
        /\ UNCHANGED panicked
  /\ free_hugepage' = [free_hugepage EXCEPT ![c] = NULL]
  /\ UNCHANGED <<hugealloced, freemem, used4k, used2m, idx, owned, ownedHuge>>

kalloc_stat(c) ==
  /\ Live /\ pc[c] = "kalloc_stat"
  /\ freemem' = freemem - 1
  /\ used4k' = used4k + 1
  /\ owned' = [owned EXCEPT ![c] = @ \cup {r[c]}]
  /\ r' = [r EXCEPT ![c] = NULL]
  /\ free_hugepage' = [free_hugepage EXCEPT ![c] = NULL]
  /\ Goto(c, "idle")
  /\ UNCHANGED <<freelist, freecount, hugealloced, used2m, idx, ownedHuge, panicked>>

(***************************************************************************)
(* kalloc_huge: claim the first whole-free descriptor under its lock.      *)
(***************************************************************************)
kalloc_huge(c) ==
  /\ Live /\ pc[c] = "idle"
  /\ Goto(c, "kalloc_huge_scan")
  /\ idx' = [idx EXCEPT ![c] = 0]
  /\ UNCHANGED <<freelist, freecount, hugealloced, freemem, used4k, used2m,
                 free_hugepage, r, owned, ownedHuge, panicked>>

(* Mutant of kalloc_huge_scan: the freecount test dropped. *)
kalloc_huge_scan_nocount(c) ==
  LET d == idx[c] IN
  /\ Live /\ pc[c] = "kalloc_huge_scan"
  /\ IF d = MAXHUGEPGS
       THEN Goto(c, "idle") /\ UNCHANGED <<hugealloced, idx>>
     ELSE IF ~hugealloced[d]
       THEN /\ hugealloced' = [hugealloced EXCEPT ![d] = TRUE]
            /\ Goto(c, "kalloc_huge_stat")
            /\ UNCHANGED idx
     ELSE /\ idx' = [idx EXCEPT ![c] = d + 1]
          /\ UNCHANGED <<hugealloced, pc>>
  /\ UNCHANGED <<freelist, freecount, freemem, used4k, used2m,
                 free_hugepage, r, owned, ownedHuge, panicked>>

kalloc_huge_scan(c) ==
  LET d == idx[c] IN
  /\ Live /\ pc[c] = "kalloc_huge_scan"
  /\ IF d = MAXHUGEPGS
       THEN Goto(c, "idle") /\ UNCHANGED <<hugealloced, idx>>
     ELSE IF freecount[d] = PGINHUGEPG /\ ~hugealloced[d]
       THEN /\ hugealloced' = [hugealloced EXCEPT ![d] = TRUE]
            /\ Goto(c, "kalloc_huge_stat")
            /\ UNCHANGED idx
     ELSE /\ idx' = [idx EXCEPT ![c] = d + 1]
          /\ UNCHANGED <<hugealloced, pc>>
  /\ UNCHANGED <<freelist, freecount, freemem, used4k, used2m,
                 free_hugepage, r, owned, ownedHuge, panicked>>

kalloc_huge_stat(c) ==
  /\ Live /\ pc[c] = "kalloc_huge_stat"
  /\ freemem' = freemem - PGINHUGEPG
  /\ used2m' = used2m + 1
  /\ ownedHuge' = [ownedHuge EXCEPT ![c] = @ \cup {idx[c]}]
  /\ Goto(c, "idle")
  /\ UNCHANGED <<freelist, freecount, hugealloced, used4k, idx,
                 free_hugepage, r, owned, panicked>>

(***************************************************************************)
(* kfree / kfree_huge of a frame or huge page the caller was handed.       *)
(***************************************************************************)
(* Mutant of kfree: the count goes up but the frame is never linked in. *)
kfree_lost(c, f) ==
  LET d == HUGEPGINDEX(f) IN
  /\ Live /\ pc[c] = "idle"
  /\ freecount' = [freecount EXCEPT ![d] = @ + 1]
  /\ owned' = [owned EXCEPT ![c] = @ \ {f}]
  /\ Goto(c, "kfree_stat")
  /\ UNCHANGED <<freelist, hugealloced, freemem, used4k, used2m, idx,
                 free_hugepage, r, ownedHuge, panicked>>

kfree(c, f) ==
  LET d == HUGEPGINDEX(f) IN
  /\ Live /\ pc[c] = "idle"
  /\ freelist' = [freelist EXCEPT ![d] = <<f>> \o @]
  /\ freecount' = [freecount EXCEPT ![d] = @ + 1]
  /\ owned' = [owned EXCEPT ![c] = @ \ {f}]
  /\ Goto(c, "kfree_stat")
  /\ UNCHANGED <<hugealloced, freemem, used4k, used2m, idx, free_hugepage,
                 r, ownedHuge, panicked>>

kfree_stat(c) ==
  /\ Live /\ pc[c] = "kfree_stat"
  /\ freemem' = freemem + 1
  /\ used4k' = used4k - 1
  /\ Goto(c, "idle")
  /\ UNCHANGED <<freelist, freecount, hugealloced, used2m, idx,
                 free_hugepage, r, owned, ownedHuge, panicked>>

kfree_huge(c, d) ==
  /\ Live /\ pc[c] = "idle"
  /\ IF ~hugealloced[d]
       THEN panicked' = TRUE /\ UNCHANGED <<hugealloced, pc>>
       ELSE /\ hugealloced' = [hugealloced EXCEPT ![d] = FALSE]
            /\ Goto(c, "kfree_huge_stat")
            /\ UNCHANGED panicked
  /\ ownedHuge' = [ownedHuge EXCEPT ![c] = @ \ {d}]
  /\ UNCHANGED <<freelist, freecount, freemem, used4k, used2m, idx,
                 free_hugepage, r, owned>>

(* Mutant of kfree_huge_stat: used2m -= 1 forgotten. *)
kfree_huge_stat_nodec(c) ==
  /\ Live /\ pc[c] = "kfree_huge_stat"
  /\ freemem' = freemem + PGINHUGEPG
  /\ Goto(c, "idle")
  /\ UNCHANGED <<freelist, freecount, hugealloced, used2m, used4k, idx,
                 free_hugepage, r, owned, ownedHuge, panicked>>

kfree_huge_stat(c) ==
  /\ Live /\ pc[c] = "kfree_huge_stat"
  /\ freemem' = freemem + PGINHUGEPG
  /\ used2m' = used2m - 1
  /\ Goto(c, "idle")
  /\ UNCHANGED <<freelist, freecount, hugealloced, used4k, idx,
                 free_hugepage, r, owned, ownedHuge, panicked>>

(* After a panic nothing runs any more. *)
Halted == panicked /\ UNCHANGED vars

Next ==
  \/ \E c \in CPUS : kalloc(c)
  \/ \E c \in CPUS : kalloc_scan(c)
  \/ \E c \in CPUS : kalloc_scan_done(c)
  \/ \E c \in CPUS : kalloc_split(c)
  \/ \E c \in CPUS : kalloc_stat(c)
  \/ \E c \in CPUS : kalloc_huge(c)
  \/ \E c \in CPUS : kalloc_huge_scan(c)
  \/ \E c \in CPUS : kalloc_huge_stat(c)
  \/ \E c \in CPUS, f \in Frames : f \in owned[c] /\ kfree(c, f)
  \/ \E c \in CPUS : kfree_stat(c)
  \/ \E c \in CPUS, d \in Desc : d \in ownedHuge[c] /\ kfree_huge(c, d)
  \/ \E c \in CPUS : kfree_huge_stat(c)
  \/ Halted

Spec == Init /\ [][Next]_vars


-----------------------------------------------------------------------------
(* What each CPU's caller holds, counting a frame popped but not yet       *)
(* returned by kalloc and a descriptor claimed but not yet returned by     *)
(* kalloc_huge.                                                            *)
Held(c) == owned[c] \cup (IF pc[c] = "kalloc_stat" THEN {r[c]} ELSE {})
HeldHuge(c) == ownedHuge[c] \cup (IF pc[c] = "kalloc_huge_stat" THEN {idx[c]} ELSE {})
FreeSmall == UNION {ToSet(freelist[d]) : d \in {e \in Desc : ~hugealloced[e]}}

(* No frame is handed out twice: two CPUs never hold the same frame or the *)
(* same huge page, a held frame is on no usable free list and lies in no   *)
(* huge page that is held, and no free list holds a frame twice.  This is  *)
(* what the per-descriptor locking of kalloc/kalloc_huge/kfree must keep   *)
(* across the unlocked gap between kalloc's scan and its split.            *)
NoDoubleAllocation ==
  /\ \A c1, c2 \in CPUS : c1 # c2 =>
        /\ Held(c1) \cap Held(c2) = {}
        /\ HeldHuge(c1) \cap HeldHuge(c2) = {}
  /\ \A c \in CPUS : \A f \in Held(c) :
        /\ f \notin FreeSmall
        /\ \A c2 \in CPUS : HUGEPGINDEX(f) \notin HeldHuge(c2)
  /\ \A d \in Desc : IsInjective(freelist[d])

(* A descriptor granted whole (kalloc_huge, or the zero page at boot) keeps *)
(* its complete free list untouched until kfree_huge: no kalloc may split   *)
(* it, even one that chose it as whole-free before it was granted.         *)
HugeGrantIntact ==
  \A d \in Desc : hugealloced[d] =>
     /\ freecount[d] = PGINHUGEPG
     /\ ToSet(freelist[d]) = FramesOf(d)

(* No allocator call is in flight on any CPU. *)
Quiescent == \A c \in CPUS : pc[c] = "idle"

(* Whenever no allocator call is in flight, the memstat counters that      *)
(* sys_kcall reports agree with the descriptors: freemem is the number of  *)
(* frames on usable free lists, used2m the number of huge grants, and      *)
(* freemem + used4k + PGINHUGEPG * used2m the size of physical memory.     *)
MemstatConsistent ==
  Quiescent =>
    /\ freemem = SumFunctionOnSet(freecount, {d \in Desc : ~hugealloced[d]})
    /\ used2m = Cardinality({d \in Desc : hugealloced[d]})
    /\ freemem + used4k + PGINHUGEPG * used2m = Cardinality(Frames)

(* The allocator implements FrameAlloc: the frames free for kalloc are     *)
(* those on the lists of descriptors not granted whole, a CPU holds what   *)
(* its caller was handed plus what kalloc has popped (or kalloc_huge has   *)
(* claimed) for it and not yet returned.  So every step of every CPU is    *)
(* one of the abstract allocations or frees, or changes nothing a caller   *)
(* can see: no frame is lost, duplicated or handed out while in use.       *)
Abs == INSTANCE FrameAlloc WITH
         Callers <- CPUS, Frame <- Frames, Huge <- Desc, Part <- FramesOf,
         FreeAtBoot <- UNION {BootFree(d) : d \in Desc \ {ZEROIDX}},
         avail <- FreeSmall,
         held <- [c \in CPUS |-> Held(c)],
         heldHuge <- [c \in CPUS |-> HeldHuge(c)]

ImplementsFrameAlloc == Abs!AbsSpec

(* kalloc never reaches _pop_page's "hugealloced" panic (spec 4.1: the      *)
(* descriptor kalloc remembered must be re-validated before it is split).  *)
NoPanic == ~panicked

=============================================================================
