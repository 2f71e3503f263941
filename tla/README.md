# TLA+ models of the xv6-riscv-snu memory system

These modules model the physical frame allocator with huge pages
(`kernel/kalloc.c`), the page-table walks that mmap uses (`kernel/vm.c`), the
mmap layer (regions, shared pages, page faults, and unmapping at exit), and
the process lifecycle (fork, exit, wait, sleep/wakeup, kill, sbrk and the
scheduler) from `kernel/proc.c` and `kernel/sysproc.c`, together with the user
page tables each process owns (`uvmalloc`, `uvmcopy`, `uvmfree` and the rest of
`kernel/vm.c` that builds and frees them). TLC checks them.

## The system and how its parts interact

* **Frame allocator** (`kalloc.c`). Physical memory is an array `hugepages[]`
  of huge descriptors, each covering `PGINHUGEPG` small frames. A descriptor
  has its own spinlock, free list, free count and `hugealloced` flag.
  * `kalloc` scans the descriptors. It serves at once from a descriptor that
    is already split. Otherwise it remembers the first whole-free one, and
    after the scan locks it again and splits it.
  * `kalloc_huge` claims a whole-free descriptor.
  * `kfree` and `kfree_huge` give frames back.
  * The counters `freemem`, `used4k` and `used2m` sit under `memstat_lock`,
    and `sys_kcall` reports them.
  * At boot, `kinit` frees every frame and marks the descriptor of the shared
    zero huge page (`ZEROHUGEPG`) as hugealloced.
* **Page tables** (`vm.c`).
  * `walk` and `hugewalk` find or create the PTE of an address at level 0 or
    level 1.
  * `walkfind` finds the leaf of an address.
  * `flexmappages` maps a range of small or huge pages onto the zero page,
    read-only.
  * `freewalk` frees the page-table pages, and panics on a leaf that is still
    mapped.
  * A process's user image is built by `mappages` (which walks with
    allocation and panics on a remap), grown by `uvmalloc`, shrunk by
    `uvmdealloc` and `uvmunmap`, copied by `uvmcopy` and freed by `uvmfree`.
    `proc_pagetable` creates a table with the trampoline and trapframe
    mapped; `proc_freepagetable` undoes it. Every one of them takes its
    error path when `kalloc` returns 0, and must give back what it took.
* **mmap layer** (`proc.c`, from line 712).
  * There is a global table `mmap_areas[]` of regions, and each process has
    slots `p->mmap[]` pointing into it.
  * `shared_pages[]` holds one record per frame: `(vma_idx, start_va,
    ref_count, pte)`.
  * `mmap` maps a range onto the zero page. `add_vma` then takes a free global
    area (`find_empty_vma`) and a free slot.
  * A page fault goes to `handle_shared_fault`, which joins the record of
    (area, page) or allocates a frame and publishes a record. In principle it
    can also go to `handle_private_fault`, which does copy-on-write or zero
    fill.
  * `munmap` pops the region, consults the record of the region's first page,
    clears the PTEs, and frees the frames when that record's count drops to 0.
  * `exit` calls `munmap_all`. The parent's `wait` then runs `freeproc`, which
    frees the page tables with `freewalk`.
* **Process lifecycle** (`proc.c`, lines 99-650).
  * Each CPU runs `scheduler()`, which takes a RUNNABLE process's `p->lock`
    and switches to it. The process releases that lock after `sched()`
    returns, in `forkret`, `yield` or `sleep`.
  * `fork` takes an UNUSED slot with `allocproc`, then sets `np->parent`
    under `wait_lock`, then makes the child RUNNABLE under `np->lock`.
  * `exit` takes `wait_lock`, gives its children to init (`reparent`, which
    wakes init), wakes its parent, then takes `p->lock`, becomes a ZOMBIE and
    releases `wait_lock`.
  * `wait` scans its children under `wait_lock`. It copies a ZOMBIE's
    status out to the caller's `addr` and frees it; if that `copyout`
    fails it returns -1 and leaves the ZOMBIE. It returns -1 with no
    children or when killed, and otherwise sleeps on itself, which
    releases `wait_lock` only after taking `p->lock`.
  * `kill` marks the process with the given pid and wakes it if it is asleep.
  * `allocproc` gives a slot a trapframe and a page table (`proc_pagetable`)
    and frees both with `freeproc` when either allocation fails. fork copies
    the image with `uvmcopy` and sets `np->sz`. `freeproc` frees the
    trapframe and the table with `proc_freepagetable(p->pagetable, p->sz)`.
  * `sbrk` calls `growproc`, which writes `p->sz` only if `uvmalloc`
    succeeded, and shrinks with `uvmdealloc(sz, sz + n)`, in uint64.

## Modules

| module | models | state / actions |
|---|---|---|
| `PhysMem` | `kalloc.c` as pure operators | `Mem` = `hugepages[]` (`fl`, `fc`, `ha`); `BootMem` = `kinit`; `PopPage`, `Kalloc`, `KallocHuge`, `Kfree`, `KfreeHuge`, `KallocFlex`, `KfreeFlex`, each one whole call |
| `KAlloc` | `kalloc.c`, with CPUs racing | the descriptor fields and memstat counters as variables, plus a pc per CPU; one action per critical section (`kalloc_scan` per loop iteration, `kalloc_split`, `kalloc_stat`, `kalloc_huge_scan`, `kalloc_huge_stat`, `kfree`, `kfree_stat`, `kfree_huge`, `kfree_huge_stat`) |
| `PageTable` | `walk`, `hugewalk`, `walkfind`, `flexmappages`, `freewalk` | the mmap window of one address space: the level-2 entry (`l2`), the level-1 entries (`l1`) and the level-0 entries (`l0`); `fp` holds the PTEs walk wrote into data frames |
| `Mmap` | the mmap layer and the parts of exit and wait that touch it | `mem`, `as`, `fp`, `mmap_areas`, `mmap`, `mmap_count`, `shared_pages`, `state`, `killed`, `pending`, `exit_i`, `panicked`; actions `sys_mmap`, `add_vma`, `sys_munmap`, `pagefault`, `exit`, `munmap_all`, `exit_zombie`, `reap` |
| `FrameAlloc` | what the allocator promises (spec 4.1, 6, 8) | `avail`, `held`, `heldHuge`; `Alloc`, `AllocHuge`, `Free`, `FreeHuge` |
| `UserVM` | the user page-table operations of `vm.c` and `proc_pagetable`/`proc_freepagetable` | pure operators over a result record `[ok, panic, pt, free, ret]`: `pt` is a page table (root, level-1 indices, level-0 indices, leaves), `free` the free-frame count; `kalloc`, `walk`, `mappages`, `uvmunmap`, `uvmdealloc`, `uvmalloc`, `freewalk`, `uvmfree`, `uvmcopy`, `uvmcreate`, `proc_pagetable`, `proc_freepagetable`, each the set of its possible outcomes; `walkaddr` and `copyout` as predicates on a page table |
| `ProcLife` | the process lifecycle of `proc.c`, with each slot's memory | `state`, `pid`, `parent`, `killed`, `chan` per slot; `lock` (the CPU holding each `p->lock`), `wait_lock`, `cpu` (`c->proc`), `nextpid`, a `pc` per process and the locals `np`, `wk`, `wch`; `pagetable`, `trapframe`, `sz` per slot, `freemem` and `panicked`; one action per stretch of code between two lock acquisitions |
| `MC_KAlloc`, `MC_Mmap`, `MC_ProcLife` | model-checking instances | sets of CPUs and processes, symmetry, and the argument sets for the runs |

How each module is shaped (heavy intermediate results, such as a walk or a
kalloc, are computed once and passed to a helper operator such as
`WalkLevel1`, `UnmapAt`, `SharedFault` or `ReapWith`):

* **KAlloc.** Every critical section is one step, so no lock needs a variable
  of its own. `owned` and `ownedHuge` record what each CPU's caller was
  handed, and only those frames are freed.
* **PageTable.** Addresses count pages. All of them lie under one level-2
  entry. A PTE is a record with fields `v`, `leaf`, `pa` and `w`.
* **Mmap.** One system call or fault is one step, with one exception: mmap is
  split between `find_empty_vma` and the claim, because nothing locks the
  global table across that gap.
  * `exit` unmaps one slot per step.
  * `reap` is `freeproc` done by the parent's `wait`. It resets the slot to a
    fresh process with an empty window (`allocproc`).
  * A fault is taken only on an access the MMU would trap (`Faults`).

* **ProcLife.** A lock is held by a CPU, as `holding()` compares `lk->cpu`.
  A step that acquires a lock is enabled only when the lock is free.
  * wait's scan is one step: no child becomes a ZOMBIE or changes parent
    without `wait_lock`, which the scan holds.
  * wakeup visits one process per step, under that process's lock.
  * The transient lock grabs of the table scans in `allocproc`, `kill` and
    `scheduler` on other slots are left out, since they change nothing.
  * A killed process at user space can only exit, which is usertrap's
    `killed()` check. init never exits, and `kill(1)` is not called.
  * fork's `allocproc` either succeeds (`fork`) or fails after spending a
    pid (`fork_noproc`); its copy is `uvmcopy` of the parent's table, which
    succeeds (`fork_copy`) or fails (`fork_fail`, then `freeproc`).
  * `sbrk` is one step (growproc takes no lock and touches only `p`).
  * wait's `addr` is 0 or a pointer into a page of `WAITADDR` = {0, 1}, and
    is chosen when the scan finds a ZOMBIE: the call uses it only there,
    once. `copyout` succeeds when `walkaddr` translates the page, so a
    pointer into page 1 of a one-page image fails, and wait leaves the
    ZOMBIE for a later call. A status that straddles two pages is not
    modelled: the status is an aligned int.
  * A panic stops every CPU: no step is enabled after one, and
    `ImageMatchesSize` says none happens.
* **UserVM.** A kalloc with a frame free may still return 0 (the race at
  `kalloc.c:214`), so every allocating call has a set of outcomes. Sizes are
  in units with `PGSIZE` = 2 units to a page, so sbrk by one unit grows or
  shrinks part of a page. `TRAMPOLINE` and `TRAPFRAME` are the last two
  pages below `MAXVA`, under one level-0 table.
  * fork uses the `#ifndef SNU` call `uvmcopy(p->pagetable, np->pagetable,
    p->sz)`. The SNU call `uvmcopy(p, np, p->sz)` (`proc.c:310`) passes the
    procs where `vm.c:455` takes page tables; its callee is not in the
    sources.

Following `proc.c:923`, the fault dispatch tests `area->options &&
MAP_SHARED`. That is true for every area, so `handle_private_fault` is
modelled but never reached.

## Runs

| run | cfg | result | what it shows |
|---|---|---|---|
| kalloc_concurrent | `KAlloc.cfg` | pass, 94,019 states | 3 CPUs: no frame is handed out twice, a whole-granted descriptor is never split, the memstat counters are consistent when every call has returned, and every step is a step of `FrameAlloc` (refinement) |
| kalloc_huge_race | `KAllocRace.cfg` | violation of `NoPanic` | kalloc remembers a whole-free descriptor; kalloc_huge grants it before kalloc's second phase; `_pop_page` panics |
| mmap_shared | `MmapShared.cfg` | pass, 562,052 states | one process, one-page small shared regions in one huge slot and huge shared regions in the other: no use after free, frames exclusive, `ref_count` = number of mappings, no live record on a free frame, no frame leaked once nothing is mapped, the zero page intact |
| mmap_private_zero | `MmapPrivateZero.cfg` | violation of `ZeroPageIntact` | munmap of an untouched private region frees the zero page (`proc.c:857`) |
| mmap_private_dispatch | `MmapPrivateDispatch.cfg` | violation of `RecordsOnlyForShared` | private faults go to the shared handler (`proc.c:923`) |
| mmap_readonly_store | `MmapReadOnlyStore.cfg` | violation of `RefCountExact` | a store to a read-only shared page joins its own record again (`proc.c:995`) |
| mmap_mid_unmap | `MmapMidUnmap.cfg` | violation of `MappedImpliesRegion` | munmap of an inner address pops the region, fails, and keeps the mappings (`proc.c:795`) |
| mmap_multi_page | `MmapMultiPage.cfg` | violation of `RecordsNameLiveFrames` | multi-page munmap frees all frames on the first page's record (`proc.c:810`) |
| mmap_huge_walk | `MmapHugeWalk.cfg` | violation of `NoPTEInDataFrame` | walk writes a PTE into a huge data frame (`vm.c:99`) |
| mmap_area_race | `MmapAreaRace.cfg` | violation of `AreaOwnership` | two processes claim the same global area (`proc.c:1066`) |
| mmap_area_exhaust | `MmapAreaExhaust.cfg` | violation of `NoPanic` | munmap of an untouched shared region leaves its area valid (`proc.c:811`); the leaked areas exhaust `mmap_areas`; mmap then maps without a region, and freewalk panics at reap (`proc.c:756`) |
| proc_lifecycle | `ProcLife.cfg` | pass, 187,523 states | init and two slots on two CPUs, with sbrk and any kalloc free to fail: every parent link names a live, older process; while `wait_lock` is free no process sleeps in wait beside a ZOMBIE child; such a sleeper is always woken; the free frames and the frames the processes hold always add up to the same total (`FramesConserved`); each page table maps exactly the pages below `PGROUNDUP(p->sz)` and nothing panics (`ImageMatchesSize`); no state has every CPU waiting |

Every property of a passing run has a mutant in `PROJECT.json`: a plausible
bug in a mapped definition, which TLC must catch. The mutants are:

* a `_pop_page` without its empty check;
* a split without its hugealloced check;
* a huge scan without its freecount test;
* a forgotten `used2m--`;
* munmap treating an unrecorded region as idle;
* munmap not decrementing `ref_count`;
* freeproc not clearing the page table;
* walk dropping the allocator update;
* a `PopPage` that leaves the frame on the list;
* a `kfree` that never puts the frame back (caught by the refinement);
* munmap of a shared region that never frees an idle frame (caught by
  `NoFrameLeak`);
* uvmdealloc without its `newsz >= oldsz` early return, so a wrapped
  shrink stores a huge `p->sz` (caught by `TypeOK`);
* exit that does not reparent its children;
* sleep releasing `wait_lock` before it takes `p->lock`;
* exit that does not wake its parent;
* uvmcopy's `err:` that does not unmap the pages it copied (caught by
  `FramesConserved`);
* growproc that writes uvmalloc's 0 into `p->sz` (caught by
  `ImageMatchesSize`).

## Refinement

`FrameAlloc` states what the allocator promises. The allocator hands out a
small frame only while it is free. It hands out a huge page only when all of
its frames are free, and a freed frame is free again. `KAlloc` defines
`Abs == INSTANCE FrameAlloc WITH ...`. The mapping works as follows.

* The available frames (`FreeSmall`) are the frames on the free lists of
  descriptors that are not granted whole.
* A CPU holds what its caller was handed, plus what kalloc has popped for it
  and not yet returned.
* A CPU holds a huge page that kalloc_huge has claimed for it.

`ImplementsFrameAlloc` (`Abs!AbsSpec`) is a property of kalloc_concurrent.
The steps that only change counters or locks are stuttering steps of
`FrameAlloc`.

## Bounds

* **Allocator.** There are 3 descriptors of 2 frames. One holds a kernel
  frame and one is the zero page, which leaves exactly one whole-free
  descriptor. kalloc and kalloc_huge then compete for it, and kalloc also
  splits the partly used one.
* **mmap.** There are 4 descriptors of 2 frames. The window has 4 pages
  (two huge slots) in mmap_shared, one for the small regions and one for
  the huge ones, and 2 pages (one huge slot) in the violation runs. There are 2 global areas and 2 slots per process, and
  `MAXREF` = 2.
  * These bounds are enough for the area table to fill up, for a region to
    be unmapped and remapped, and for an area to be reused after reap.
  * Two-page regions can cover a whole huge slot.
  * Every bug above shows in at most 12 steps.
* **Lifecycle.** There are 3 process slots (init and two more) and 2 CPUs,
  and pids run up to `MAXPID` = 3, so two forks (or failed allocations) in a
  behaviour.
  * init can fork a child, the child can fork a grandchild, and the child can
    exit while the grandchild lives, so init gets an orphan.
  * Both CPUs can run a waiter and an exiter at once.
  * A slot is reused once a reaped child's slot takes the second fork. A
    failed fork leaves its slot UNUSED with the pid spent.
  * With `MAXPID` = 4 and the memory below, the liveness check takes more
    than five minutes; the third fork added no memory case the second lacks.
* **User memory.** `FREEFRAMES` = 8 frames are free after userinit, `PGSIZE`
  = 2 units, images up to `MAXSZ` = 3 units (two pages), and sbrk by +1 or
  -1 unit.
  * A fork of init's one-page image takes 7 frames (trapframe, root, two
    level-1 and two level-0 tables, the page). After init grows to two pages,
    a fork copies the first page and runs out on the second, so uvmcopy's
    `err:` unmaps a copied page.
  * sbrk -1 from `p->sz` = 1 unmaps page 0; from `p->sz` = 0 the uint64 sum
    wraps and uvmdealloc shrinks nothing; a shrink from 3 to 2 unmaps page 1.
  * Any kalloc may also fail with frames free, so every failure path of
    allocproc, walk, uvmalloc and uvmcopy is taken at every call.
* **Two processes.** The pass runs use one process, because with two the
  state space grows past 1.5 million states. The area race is checked with
  two processes under symmetry.

## Fairness

For `KAlloc` and `Mmap`, every property is a safety property, so no
fairness is assumed. After a panic
the model stutters (`Halted`), which stands for the stopped machine. Without a
panic a process can always exit and be reaped, so no run deadlocks.

`proc_lifecycle` checks `WakeupNotLost` under `KernelFairSpec`, which is
strong fairness on each process's kernel step.

* The kernel steps of a process are the code between two lock
  acquisitions. Such a step is enabled whenever its lock is free.
* xv6 spinlocks spin until the lock is released, and every lock holder
  releases it within a bounded number of its own steps.
* Strong fairness is needed because a lock can be taken by other CPUs
  infinitely often.
* No fairness is assumed for the user side (fork, exit, wait and kill
  calls), or for the scheduler picking a process. A process that is
  RUNNABLE but never scheduled makes no progress. The property is about a
  woken sleeper becoming RUNNABLE, which the scheduler does not decide.

`FairSpec` also assumes strong fairness for the scheduler and for the timer
interrupt (yield), and weak fairness for a killed process's usertrap exit.
Only the lifecycle finding below uses it.

## Findings not given a run

The project is limited to twelve runs, and these findings have no run of
their own. They are listed as hazards in `PROJECT.json`.

* **A kill racing wait is lost** (`proc.c:450`). wait checks `killed(p)`
  with `wait_lock` held and only then sleeps. A kill between the check and
  the sleep sets `p->killed`. It finds the waiter not yet SLEEPING, so it
  wakes nothing. If no child ever exits, the waiter sleeps forever with
  `killed` set. `KilledExits` states that a killed, live process eventually
  becomes a ZOMBIE. It is violated under `FairSpec` with `MAXPID` = 3, in a
  28-state trace. The lost kill is not a lost wakeup in the lock sense:
  xv6's wait sleeps only on children.
* **kill(0) marks an UNUSED slot** (`proc.c:615`). UNUSED slots have
  pid 0, and kill does not check the state, so `kill(0)` sets `killed` on
  the first free slot. `allocproc` does not clear `killed`; only `freeproc`
  does. The next process forked into that slot is therefore born killed. It
  exits on its first return to user space.
* **sbrk into an mmap region panics** (`proc.c:282`). mmap maps at the
  address its caller gives, and growproc checks the new size against
  nothing. A process that mmaps a region just above its image and then grows
  into it makes `mappages` panic with "remap" (`vm.c:224`) instead of
  returning -1. `ProcLife` gives a process no regions, and `Mmap` does not
  model the image below them, so neither module reaches it.
* **copyout ignores PTE_W** (`vm.c:507`). `walkaddr` checks `PTE_V` and
  `PTE_U` only. wait's `copyout` of the exit status into an untouched
  private mmap page writes into the shared zero page; into a read-only
  shared page it writes the frame every sharer sees. Page contents and
  permission bits are not modelled.

## Not modelled

* **fork.** `fork` calls `uvmcopy(p, np, p->sz)` (`proc.c:310`), but the
  `uvmcopy` in the sources takes two page tables (`vm.c:455`). The code that
  would share or copy mmap regions with a child is therefore absent, and so
  is the only way two processes could map the same shared frame.
  * `share_vma` has no caller.
  * The records' locking inside munmap and the fault handlers is not split
    into steps: two processes never share a region without fork.
* **Other vm.c code.** The kernel map (`kvm*`), `uvmclear` (used by exec,
  which is not in the sources), `copyin`/`copyinstr` (no modelled call uses
  them) and the bytes `copyout` moves are not modelled.
* **Data that no property distinguishes.** Byte offsets within a page, junk
  fills, PTE bits U/R/X and `PTE_SHR` are left out.
* **Zero mmap length.** `mmap` with length 0 panics in flexmappages
  (`proc.c:742`, `vm.c:252`). It is listed as a hazard rather than given a run.
* **Negative mmap lengths.** They are not modelled; see the hazards in
  `PROJECT.json`.
* **The lifecycle and mmap together.** `ProcLife` composes the lifecycle
  with the user image (`UserVM`), not with `Mmap`; `Mmap` models exit's
  `munmap_all` and reap on their own. fork copies no mmap regions in the
  sources, so the two meet only at exit.
* **The frame allocator under the user image.** `UserVM` counts free frames;
  which descriptor a frame comes from is `KAlloc`'s concern, and its only
  effect on callers, a 0 return with frames free, is modelled.
* **Other process calls.** `sys_sleep` is not modelled. It sleeps on
  `ticks` under `tickslock`, and both, with the clock interrupt that wakes
  it, live in `trap.c`, which is not in the sources. Adding it would also
  put a second lock under `sleep` and a tick counter into `ProcLife`, whose
  liveness run already needs `MAXPID` = 3 to finish in time. `kill(1)` is
  not modelled either (init exiting panics), nor `sys_getpid` and
  `sys_uptime`, which only read. The mmaptest3 and thread tests, whose kernel side is not in the
  sources, are not modelled either.
