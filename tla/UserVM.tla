------------------------------- MODULE UserVM -------------------------------
(***************************************************************************)
(* The user page-table operations of kernel/vm.c and their callers in     *)
(* kernel/proc.c: walk with allocation, mappages, uvmunmap, uvmcreate,     *)
(* uvmalloc, uvmdealloc, freewalk, uvmfree, uvmcopy, proc_pagetable and    *)
(* proc_freepagetable, over a process's user image (the pages below        *)
(* p->sz) and the trampoline and trapframe pages at the top.               *)
(*                                                                         *)
(* A page table is the set of its table pages and of the pages it maps:   *)
(* root (pagetable non-zero), l1 the level-2 indices PX(2, va) holding a   *)
(* level-1 table, l0 the pairs PX(2, va), PX(1, va), written va \div 512   *)
(* in pages, holding a level-0 table, and leaf the pages with a valid      *)
(* leaf PTE.  Sizes and addresses are counted in units, PGSIZE units to a  *)
(* page; a page is va \div PGSIZE.                                         *)
(*                                                                         *)
(* The allocator is the count of free frames.  kalloc hands out one while *)
(* there is one, and may also return 0 when there is: the scan of          *)
(* kalloc.c:190 can remember a whole-free descriptor that other CPUs drain *)
(* before it is split (kalloc.c:214).  So every operation that allocates   *)
(* has a set of outcomes, each a record r: ok (the call succeeded), panic, *)
(* pt, free, ret (a returned size).                                       *)
(***************************************************************************)
EXTENDS Naturals, FiniteSets

CONSTANTS
  PGSIZE,       \* units in a page
  TRAMPOLINE,   \* page of the trampoline (MAXVA - PGSIZE in memlayout.h)
  TRAPFRAME     \* page of the trapframe, just below it

ASSUME /\ PGSIZE \in Nat \ {0} /\ TRAMPOLINE \in Nat /\ TRAPFRAME = TRAMPOLINE - 1
       /\ TRAPFRAME \div 512 = TRAMPOLINE \div 512

UserPT == [root : BOOLEAN, l1 : SUBSET Nat, l0 : SUBSET Nat, leaf : SUBSET Nat]
NoPT == [root |-> FALSE, l1 |-> {}, l0 |-> {}, leaf |-> {}]

PGROUNDUP(sz) == ((sz + PGSIZE - 1) \div PGSIZE) * PGSIZE
PX2(pg) == pg \div (512 * 512)
PX21(pg) == pg \div 512

(* The pages of the user image, and the frames a page table holds: its    *)
(* tables and the frames of its user pages (the trampoline maps kernel    *)
(* text and the trapframe page is p->trapframe, freed by freeproc).       *)
UserPages(pt) == pt.leaf \ {TRAMPOLINE, TRAPFRAME}
PTFrames(pt) ==
  (IF pt.root THEN 1 ELSE 0) + Cardinality(pt.l1) + Cardinality(pt.l0)
  + Cardinality(UserPages(pt))

Ok(r)    == [r EXCEPT !.ok = TRUE]
Fail(r)  == [r EXCEPT !.ok = FALSE]
Panic(r) == [r EXCEPT !.panic = TRUE, !.ok = FALSE]

(* kalloc: a frame off the free lists, or 0. *)
kalloc(r) ==
  IF r.free > 0 THEN {[r EXCEPT !.free = @ - 1], Fail(r)} ELSE {Fail(r)}

(* walk(pagetable, va, 1) below the root: a missing level-1, then level-0, *)
(* table is kalloc'ed, zeroed and installed; a failed kalloc returns 0 and *)
(* keeps the tables installed so far.                                     *)
Level1(r, pg) ==
  IF PX2(pg) \in r.pt.l1 THEN {r}
  ELSE {IF k.ok THEN [k EXCEPT !.pt.l1 = @ \cup {PX2(pg)}] ELSE k : k \in kalloc(r)}

Level0(r, pg) ==
  IF ~r.ok \/ PX21(pg) \in r.pt.l0 THEN {r}
  ELSE {IF k.ok THEN [k EXCEPT !.pt.l0 = @ \cup {PX21(pg)}] ELSE k : k \in kalloc(r)}

walk(r, pg) == UNION {Level0(s, pg) : s \in Level1(r, pg)}

(* walk(pagetable, va, 0) finds the level-0 table. *)
Walks(pt, pg) == PX2(pg) \in pt.l1 /\ PX21(pg) \in pt.l0

(* mappages of one page (every caller here maps PGSIZE): -1 when walk     *)
(* fails, panic("mappages: remap") on a valid PTE, else the leaf.         *)
mappages(r, pg) ==
  {IF ~s.ok THEN s
   ELSE IF pg \in s.pt.leaf THEN Panic(s)
   ELSE [s EXCEPT !.pt.leaf = @ \cup {pg}] : s \in walk(r, pg)}

(* uvmunmap: each page must be mapped by a leaf (else panic); its PTE is   *)
(* cleared and, with do_free, its frame kfree'd.                           *)
RECURSIVE UnmapPages(_, _, _, _)
UnmapPages(r, a, end, do_free) ==
  IF r.panic \/ a >= end THEN r
  ELSE IF ~Walks(r.pt, a \div PGSIZE) \/ (a \div PGSIZE) \notin r.pt.leaf THEN Panic(r)
  ELSE UnmapPages([r EXCEPT !.pt.leaf = @ \ {a \div PGSIZE},
                            !.free = IF do_free THEN @ + 1 ELSE @],
                  a + PGSIZE, end, do_free)

uvmunmap(r, va, npages, do_free) ==
  IF va % PGSIZE # 0 THEN Panic(r)
  ELSE UnmapPages(r, va, va + npages * PGSIZE, do_free)

(* Mutant of uvmdealloc: without the newsz >= oldsz early return. *)
uvmdealloc_noguard(r, oldsz, newsz) ==
  IF PGROUNDUP(newsz) < PGROUNDUP(oldsz)
    THEN [uvmunmap(r, PGROUNDUP(newsz),
                   (PGROUNDUP(oldsz) - PGROUNDUP(newsz)) \div PGSIZE, TRUE)
          EXCEPT !.ret = newsz]
  ELSE [r EXCEPT !.ret = newsz]

(* uvmdealloc: unmap and free the pages from PGROUNDUP(newsz) up to       *)
(* PGROUNDUP(oldsz); ret is the new size.                                  *)
uvmdealloc(r, oldsz, newsz) ==
  IF newsz >= oldsz THEN [r EXCEPT !.ret = oldsz]
  ELSE IF PGROUNDUP(newsz) < PGROUNDUP(oldsz)
    THEN [uvmunmap(r, PGROUNDUP(newsz),
                   (PGROUNDUP(oldsz) - PGROUNDUP(newsz)) \div PGSIZE, TRUE)
          EXCEPT !.ret = newsz]
  ELSE [r EXCEPT !.ret = newsz]

(* uvmalloc's loop from a (oldsz is PGROUNDUP(oldsz)): kalloc a page and   *)
(* map it; when either fails, kfree the page kalloc gave, uvmdealloc back  *)
(* to oldsz and return 0; else return newsz.                               *)
RECURSIVE AllocPages(_, _, _, _)
AllocPages(r, a, oldsz, newsz) ==
  IF a >= newsz THEN {[r EXCEPT !.ret = newsz]}
  ELSE UNION {
    IF ~k.ok THEN {[uvmdealloc(Ok(k), a, oldsz) EXCEPT !.ret = 0]}
    ELSE UNION {
      IF s.panic THEN {s}
      ELSE IF ~s.ok THEN {[uvmdealloc([Ok(s) EXCEPT !.free = @ + 1], a, oldsz) EXCEPT !.ret = 0]}
      ELSE AllocPages(s, a + PGSIZE, oldsz, newsz) : s \in mappages(k, a \div PGSIZE)}
    : k \in kalloc(r)}

uvmalloc(r, oldsz, newsz) ==
  IF newsz < oldsz THEN {[r EXCEPT !.ret = oldsz]}
  ELSE AllocPages(r, PGROUNDUP(oldsz), PGROUNDUP(oldsz), newsz)

(* freewalk: free every table page; a leaf still mapped panics. *)
freewalk(r) ==
  IF r.panic THEN r
  ELSE IF r.pt.leaf # {} THEN Panic(r)
  ELSE [r EXCEPT !.pt = NoPT, !.free = @ + PTFrames(r.pt)]

uvmfree(r, sz) ==
  freewalk(IF sz > 0 THEN uvmunmap(r, 0, PGROUNDUP(sz) \div PGSIZE, TRUE) ELSE r)

(* Mutant of CopyErr: err: returns without unmapping what was copied. *)
CopyErr_nounmap(r, i) == Fail(r)

(* uvmcopy(old, new, sz): for each page below sz, old must map it (else    *)
(* panic); kalloc a page, copy, map it in new.  On a failure the page      *)
(* kalloc gave is kfree'd and the i / PGSIZE pages mapped so far are       *)
(* unmapped and freed (err:), and it returns -1 (ok = FALSE).              *)
CopyErr(r, i) == Fail(uvmunmap(Ok(r), 0, i \div PGSIZE, TRUE))

RECURSIVE CopyPages(_, _, _, _)
CopyPages(old, r, i, sz) ==
  IF i >= sz THEN {r}
  ELSE IF ~Walks(old, i \div PGSIZE) \/ (i \div PGSIZE) \notin old.leaf THEN {Panic(r)}
  ELSE UNION {
    IF ~k.ok THEN {CopyErr(k, i)}
    ELSE UNION {
      IF s.panic THEN {s}
      ELSE IF ~s.ok THEN {CopyErr([s EXCEPT !.free = @ + 1], i)}
      ELSE CopyPages(old, s, i + PGSIZE, sz) : s \in mappages(k, i \div PGSIZE)}
    : k \in kalloc(r)}

uvmcopy(old, r, sz) == CopyPages(old, r, 0, sz)

(* uvmcreate: kalloc a root page and zero it, or 0. *)
uvmcreate(r) ==
  {IF k.ok THEN [k EXCEPT !.pt = [NoPT EXCEPT !.root = TRUE]] ELSE k : k \in kalloc(r)}

(* proc_pagetable: uvmcreate (kalloc a zeroed root), then map the          *)
(* trampoline and the trapframe; on a failure undo what is mapped,         *)
(* uvmfree(pagetable, 0), and return 0.                                     *)
TrapframeMapped(s) ==
  {IF t.ok THEN t ELSE Fail(uvmfree(uvmunmap(Ok(t), TRAMPOLINE * PGSIZE, 1, FALSE), 0))
   : t \in mappages(s, TRAPFRAME)}

proc_pagetable(r) ==
  UNION {
    IF ~k.ok THEN {k}
    ELSE UNION {
      IF s.panic THEN {s}
      ELSE IF ~s.ok THEN {Fail(uvmfree(Ok(s), 0))}
      ELSE TrapframeMapped(s)
      : s \in mappages(k, TRAMPOLINE)}
    : k \in uvmcreate(r)}

(* walkaddr: the page is translated only through a valid leaf with PTE_U; *)
(* the trampoline and trapframe are mapped without PTE_U, and every page  *)
(* of the user image with it.  Pages at or above MAXVA are not in pt.     *)
walkaddr(pt, pg) ==
  Walks(pt, pg) /\ pg \in UserPages(pt)

(* copyout of a small, aligned object (one page holds it): -1 unless      *)
(* walkaddr translates its page.  The bytes written are not modelled.     *)
copyout(pt, pg) == walkaddr(pt, pg)

(* proc_freepagetable: unmap the trampoline and trapframe, then uvmfree. *)
proc_freepagetable(r, sz) ==
  uvmfree(uvmunmap(uvmunmap(r, TRAMPOLINE * PGSIZE, 1, FALSE), TRAPFRAME * PGSIZE, 1, FALSE), sz)

=============================================================================
