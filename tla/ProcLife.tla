------------------------------ MODULE ProcLife ------------------------------
(***************************************************************************)
(* The process lifecycle of kernel/proc.c: fork (allocproc), exit (with    *)
(* reparent), wait (with freeproc), sleep and wakeup on wait's channel,    *)
(* kill, yield and the per-CPU scheduler.                                  *)
(*                                                                         *)
(* Each CPU runs at most one process (c->proc).  A spinlock is held by a  *)
(* CPU (holding() compares lk->cpu): lock[p] is the CPU holding p->lock,   *)
(* wait_lock the CPU holding wait_lock.  A step is one stretch of code    *)
(* between two acquires, so a step that acquires a lock is enabled only    *)
(* when the lock is free, and a CPU spinning on it stays where it is.      *)
(* The scheduler takes p->lock and switches to p; p releases it after      *)
(* sched() returns (forkret, yield, sleep).  A process that switches away  *)
(* and the scheduler's release of its lock are one step.                   *)
(*                                                                         *)
(* pc[p] is where p's kernel thread is.  At "user" p runs user code and    *)
(* may make a system call (fork, exit, wait, kill) or take a timer         *)
(* interrupt (yield); a killed process only exits (usertrap's killed()     *)
(* check).  sleep is modelled where wait calls it, the only sleep of this  *)
(* file; its channel is the waiting process.                               *)
(*                                                                         *)
(* Each process has its user memory (UserVM): allocproc takes a trapframe  *)
(* and a page table, fork copies the parent's image into the child, sbrk   *)
(* grows or shrinks it (growproc), and wait's freeproc gives it all back.  *)
(* The frames come from one free count that every CPU allocates from.      *)
(* After a panic no CPU runs.                                              *)
(***************************************************************************)
EXTENDS Naturals, FiniteSets, FiniteSetsExt, UserVM

CONSTANTS
  PROCS,      \* the slots of proc[]
  initproc,   \* the slot userinit gives to the first process (pid 1)
  CPUS,       \* the harts, each running scheduler()
  NULL,
  MAXPID,     \* bound on allocpid: fork is not called once nextpid > MAXPID
  FREEFRAMES, \* frames on the free lists once userinit is done
  SBRK,       \* the arguments n passed to sbrk
  MAXSZ,      \* bound on p->sz: sbrk does not grow a process past it
  WRAP,       \* 2^64, as far as sizes tell: above every size, so that
              \* (sz + n) % WRAP is the uint64 sum of sz and a negative n
  WAITADDR    \* the pages a non-zero wait(addr) may point into

ASSUME /\ initproc \in PROCS /\ NULL \notin PROCS \cup CPUS /\ MAXPID \in Nat
       /\ FREEFRAMES \in Nat /\ SBRK \subseteq Int \ {0} /\ MAXSZ \in Nat
       /\ WRAP > MAXSZ + 1 /\ \A n \in SBRK : n > -WRAP
       /\ WAITADDR \subseteq Nat

VARIABLES
  state,      \* p->state
  pid,        \* p->pid
  parent,     \* p->parent
  killed,     \* p->killed
  chan,       \* p->chan
  lock,       \* lock[p]: the CPU holding p->lock, or NULL
  wait_lock,  \* the CPU holding wait_lock, or NULL
  cpu,        \* cpu[c]: c->proc
  nextpid,
  pc,         \* pc[p]: where p's kernel thread is
  np,         \* np[p]: fork's child while p is in fork
  wk,         \* wk[p]: the slots p's current wakeup has still to visit
  wch         \* wch[p]: the channel of that wakeup

VARIABLES
  pagetable,  \* pagetable[p]: p->pagetable (UserPT; NoPT when 0)
  trapframe,  \* trapframe[p]: p->trapframe is a frame
  sz,         \* p->sz
  freemem,    \* the frames on the allocator's free lists
  panicked    \* the kernel has panicked

memvars == <<pagetable, trapframe, sz, freemem, panicked>>

vars == <<state, pid, parent, killed, chan, lock, wait_lock, cpu, nextpid,
          pc, np, wk, wch, memvars>>

Labels == {"none", "forkret", "user", "fork_copy", "fork_parent", "fork_run",
           "wait_acq", "wait_scan", "wait_sleep", "sleep_block", "sleep_ret",
           "sleep_reacq", "yield_ret", "exit_acq", "wake_init", "wake_parent",
           "exit_lock", "zombie"}

(* init's page table after allocproc and uvmfirst: the trampoline and     *)
(* trapframe pages at the top, page 0 holding initcode, and the tables     *)
(* they need.                                                              *)
InitPT ==
  [root |-> TRUE, l1 |-> {PX2(0), PX2(TRAMPOLINE)}, l0 |-> {PX21(0), PX21(TRAMPOLINE)},
   leaf |-> {0, TRAMPOLINE, TRAPFRAME}]

(* procinit and userinit: every slot UNUSED but init's, which allocproc    *)
(* gave pid 1 and userinit made RUNNABLE with one page (p->sz = PGSIZE);   *)
(* its first run starts at forkret.                                        *)
Init ==
  /\ state = [p \in PROCS |-> IF p = initproc THEN "RUNNABLE" ELSE "UNUSED"]
  /\ pid = [p \in PROCS |-> IF p = initproc THEN 1 ELSE 0]
  /\ parent = [p \in PROCS |-> NULL]
  /\ killed = [p \in PROCS |-> FALSE]
  /\ chan = [p \in PROCS |-> NULL]
  /\ lock = [p \in PROCS |-> NULL]
  /\ wait_lock = NULL
  /\ cpu = [c \in CPUS |-> NULL]
  /\ nextpid = 2
  /\ pc = [p \in PROCS |-> IF p = initproc THEN "forkret" ELSE "none"]
  /\ np = [p \in PROCS |-> NULL]
  /\ wk = [p \in PROCS |-> {}]
  /\ wch = [p \in PROCS |-> NULL]
  /\ pagetable = [p \in PROCS |-> IF p = initproc THEN InitPT ELSE NoPT]
  /\ trapframe = [p \in PROCS |-> p = initproc]
  /\ sz = [p \in PROCS |-> IF p = initproc THEN PGSIZE ELSE 0]
  /\ freemem = FREEFRAMES
  /\ panicked = FALSE

On(p, c) == cpu[c] = p /\ ~panicked
Goto(p, l) == pc' = [pc EXCEPT ![p] = l]
AtUser(p, c) == On(p, c) /\ pc[p] = "user" /\ ~killed[p]
Children(p) == {q \in PROCS : parent[q] = p}
ZombieKids(p) == {q \in Children(p) : state[q] = "ZOMBIE"}

(* sched() back into scheduler(), which sets c->proc = 0 and releases      *)
(* p->lock.                                                                *)
Sched(p, c) ==
  /\ cpu' = [cpu EXCEPT ![c] = NULL]
  /\ lock' = [lock EXCEPT ![p] = NULL]

(* The record UserVM's operations take, for the memory of process q. *)
Mem(q) == [ok |-> TRUE, panic |-> panicked, pt |-> pagetable[q], free |-> freemem, ret |-> 0]

(* freeproc's frees: kfree(p->trapframe) if there is one, then            *)
(* proc_freepagetable(p->pagetable, p->sz) if there is a page table.      *)
freeproc_mem(r, tf, size) ==
  LET r1 == IF tf THEN [r EXCEPT !.free = @ + 1] ELSE r
  IN IF r.pt.root THEN proc_freepagetable(r1, size) ELSE r1

(* freeproc(q), whose frees ended in fr: the fields it clears, and the    *)
(* slot back to UNUSED.                                                    *)
FreeProc(q, fr) ==
  /\ state' = [state EXCEPT ![q] = "UNUSED"]
  /\ pid' = [pid EXCEPT ![q] = 0]
  /\ parent' = [parent EXCEPT ![q] = NULL]
  /\ killed' = [killed EXCEPT ![q] = FALSE]
  /\ chan' = [chan EXCEPT ![q] = NULL]
  /\ pagetable' = [pagetable EXCEPT ![q] = NoPT]
  /\ trapframe' = [trapframe EXCEPT ![q] = FALSE]
  /\ sz' = [sz EXCEPT ![q] = 0]
  /\ freemem' = fr.free
  /\ panicked' = fr.panic

(* allocproc's allocations for slot q: a trapframe page, then             *)
(* proc_pagetable; when either fails, freeproc gives the trapframe back   *)
(* and allocproc returns 0 (ok = FALSE).                                   *)
allocproc_mem(r) ==
  UNION {IF ~k.ok THEN {k}
         ELSE {IF s.ok \/ s.panic THEN s ELSE [s EXCEPT !.free = @ + 1] : s \in proc_pagetable(k)}
         : k \in kalloc(r)}

(* scheduler(): CPU c finds a RUNNABLE process, takes its lock, marks it   *)
(* RUNNING and switches to it.                                             *)
scheduler(c, p) ==
  /\ ~panicked /\ cpu[c] = NULL /\ state[p] = "RUNNABLE" /\ lock[p] = NULL
  /\ lock' = [lock EXCEPT ![p] = c]
  /\ state' = [state EXCEPT ![p] = "RUNNING"]
  /\ cpu' = [cpu EXCEPT ![c] = p]
  /\ UNCHANGED <<memvars, pid, parent, killed, chan, wait_lock, nextpid, pc, np, wk, wch>>

(* forkret: release the lock the scheduler took, return to user space. *)
forkret(p, c) ==
  /\ On(p, c) /\ pc[p] = "forkret"
  /\ lock' = [lock EXCEPT ![p] = NULL]
  /\ Goto(p, "user")
  /\ UNCHANGED <<memvars, state, pid, parent, killed, chan, wait_lock, cpu, nextpid, np, wk, wch>>

(* yield, on a timer interrupt: RUNNABLE, then sched(). *)
yield(p, c) ==
  /\ AtUser(p, c) /\ lock[p] = NULL
  /\ state' = [state EXCEPT ![p] = "RUNNABLE"]
  /\ Sched(p, c)
  /\ Goto(p, "yield_ret")
  /\ UNCHANGED <<memvars, pid, parent, killed, chan, wait_lock, nextpid, np, wk, wch>>

(* yield after sched() returns: release(&p->lock). *)
yield_ret(p, c) ==
  /\ On(p, c) /\ pc[p] = "yield_ret"
  /\ lock' = [lock EXCEPT ![p] = NULL]
  /\ Goto(p, "user")
  /\ UNCHANGED <<memvars, state, pid, parent, killed, chan, wait_lock, cpu, nextpid, np, wk, wch>>

(* sys_fork -> fork -> allocproc: take the lock of an UNUSED slot q, give  *)
(* it the next pid, mark it USED and give it a trapframe and a page table; *)
(* q's first run starts at forkret.                                        *)
fork(p, c, q) ==
  /\ AtUser(p, c) /\ nextpid <= MAXPID
  /\ state[q] = "UNUSED" /\ lock[q] = NULL
  /\ \E r \in allocproc_mem(Mem(q)) :
       /\ r.ok
       /\ pagetable' = [pagetable EXCEPT ![q] = r.pt]
       /\ trapframe' = [trapframe EXCEPT ![q] = TRUE]
       /\ freemem' = r.free
  /\ lock' = [lock EXCEPT ![q] = c]
  /\ pid' = [pid EXCEPT ![q] = nextpid]
  /\ nextpid' = nextpid + 1
  /\ state' = [state EXCEPT ![q] = "USED"]
  /\ pc' = [pc EXCEPT ![p] = "fork_copy", ![q] = "forkret"]
  /\ np' = [np EXCEPT ![p] = q]
  /\ UNCHANGED <<sz, panicked, parent, killed, chan, wait_lock, cpu, wk, wch>>

(* allocproc's trapframe kalloc or proc_pagetable fails: freeproc(p) and  *)
(* release(&p->lock) leave q UNUSED, with its pid spent; fork returns -1. *)
fork_noproc(p, c, q) ==
  /\ AtUser(p, c) /\ nextpid <= MAXPID
  /\ state[q] = "UNUSED" /\ lock[q] = NULL
  /\ \E r \in allocproc_mem(Mem(q)) :
       /\ ~r.ok
       /\ freemem' = r.free /\ panicked' = r.panic
  /\ nextpid' = nextpid + 1
  /\ UNCHANGED <<pagetable, trapframe, sz, state, pid, parent, killed, chan, lock,
                 wait_lock, cpu, pc, np, wk, wch>>

(* uvmcopy(p, np, p->sz) fails: freeproc(np), release(&np->lock), return  *)
(* -1.  (The SNU build passes the procs where vm.c's uvmcopy takes their  *)
(* page tables; the copy modelled is that of p->pagetable into            *)
(* np->pagetable, as in the #ifndef SNU call.)                            *)
fork_fail(p, c) ==
  LET q == np[p] IN
  /\ On(p, c) /\ pc[p] = "fork_copy"
  /\ \E r \in uvmcopy(pagetable[p], Mem(q), sz[p]) :
       /\ ~r.ok
       /\ FreeProc(q, freeproc_mem(Ok(r), trapframe[q], sz[q]))
  /\ lock' = [lock EXCEPT ![q] = NULL]
  /\ pc' = [pc EXCEPT ![p] = "user", ![q] = "none"]
  /\ np' = [np EXCEPT ![p] = NULL]
  /\ UNCHANGED <<wait_lock, cpu, nextpid, wk, wch>>

(* The copy succeeds: np->sz = p->sz; release(&np->lock). *)
fork_copy(p, c) ==
  /\ On(p, c) /\ pc[p] = "fork_copy"
  /\ \E r \in uvmcopy(pagetable[p], Mem(np[p]), sz[p]) :
       /\ r.ok
       /\ pagetable' = [pagetable EXCEPT ![np[p]] = r.pt]
       /\ freemem' = r.free
  /\ sz' = [sz EXCEPT ![np[p]] = sz[p]]
  /\ lock' = [lock EXCEPT ![np[p]] = NULL]
  /\ Goto(p, "fork_parent")
  /\ UNCHANGED <<trapframe, panicked, state, pid, parent, killed, chan, wait_lock,
                 cpu, nextpid, np, wk, wch>>

(* Under wait_lock: np->parent = p. *)
fork_parent(p, c) ==
  /\ On(p, c) /\ pc[p] = "fork_parent" /\ wait_lock = NULL
  /\ parent' = [parent EXCEPT ![np[p]] = p]
  /\ Goto(p, "fork_run")
  /\ UNCHANGED <<memvars, state, pid, killed, chan, lock, wait_lock, cpu, nextpid, np, wk, wch>>

(* Under np->lock: np->state = RUNNABLE; fork returns the pid. *)
fork_run(p, c) ==
  /\ On(p, c) /\ pc[p] = "fork_run" /\ lock[np[p]] = NULL
  /\ state' = [state EXCEPT ![np[p]] = "RUNNABLE"]
  /\ Goto(p, "user")
  /\ np' = [np EXCEPT ![p] = NULL]
  /\ UNCHANGED <<memvars, pid, parent, killed, chan, lock, wait_lock, cpu, nextpid, wk, wch>>

(* sys_wait -> wait: spin for wait_lock. *)
wait(p, c) ==
  /\ AtUser(p, c)
  /\ Goto(p, "wait_acq")
  /\ UNCHANGED <<memvars, state, pid, parent, killed, chan, lock, wait_lock, cpu, nextpid, np, wk, wch>>

wait_acq(p, c) ==
  /\ On(p, c) /\ pc[p] = "wait_acq" /\ wait_lock = NULL
  /\ wait_lock' = c
  /\ Goto(p, "wait_scan")
  /\ UNCHANGED <<memvars, state, pid, parent, killed, chan, lock, cpu, nextpid, np, wk, wch>>

(* wait's status pointer addr is 0, or points into page a of the caller's *)
(* image: the copyout of pp->xstate succeeds for addr = 0 (no copyout) or *)
(* when walkaddr translates page a.  addr is fixed for the call and used  *)
(* once, when a ZOMBIE is found, so it is chosen there.                   *)
StatusCopied(p, a) == a = NULL \/ copyout(pagetable[p], a)

(* One pass of wait's loop, under wait_lock.  No child becomes a ZOMBIE,  *)
(* or changes parent, without wait_lock, so the pass sees a fixed set of  *)
(* children.  A ZOMBIE child whose lock is free is freed and wait returns *)
(* its pid; if copyout of its status fails, wait returns -1 and leaves    *)
(* the ZOMBIE for a later wait.  With no children or killed(p) wait       *)
(* returns -1; otherwise it goes to sleep.                                *)
wait_scan(p, c) ==
  /\ On(p, c) /\ pc[p] = "wait_scan"
  /\ \/ \E z \in ZombieKids(p), a \in WAITADDR \cup {NULL} :
          /\ lock[z] = NULL
          /\ IF StatusCopied(p, a)
               THEN /\ FreeProc(z, freeproc_mem(Mem(z), trapframe[z], sz[z]))
                    /\ pc' = [pc EXCEPT ![p] = "user", ![z] = "none"]
               ELSE /\ UNCHANGED <<memvars, state, pid, parent, killed, chan>>
                    /\ Goto(p, "user")
          /\ wait_lock' = NULL
     \/ /\ ZombieKids(p) = {} /\ (Children(p) = {} \/ killed[p])
        /\ wait_lock' = NULL
        /\ Goto(p, "user")
        /\ UNCHANGED <<memvars, state, pid, parent, killed, chan>>
     \/ /\ ZombieKids(p) = {} /\ Children(p) # {} /\ ~killed[p]
        /\ Goto(p, "wait_sleep")
        /\ UNCHANGED <<memvars, state, pid, parent, killed, chan, wait_lock>>
  /\ UNCHANGED <<lock, cpu, nextpid, np, wk, wch>>

(* Mutant of wait_sleep: sleep releases lk before it takes p->lock. *)
wait_sleep_swapped(p, c) ==
  /\ On(p, c) /\ pc[p] = "wait_sleep"
  /\ wait_lock' = NULL
  /\ Goto(p, "sleep_block")
  /\ UNCHANGED <<memvars, state, pid, parent, killed, chan, lock, cpu, nextpid, np, wk, wch>>

(* sleep(p, &wait_lock): acquire(&p->lock) while still holding wait_lock. *)
wait_sleep(p, c) ==
  /\ On(p, c) /\ pc[p] = "wait_sleep" /\ lock[p] = NULL
  /\ lock' = [lock EXCEPT ![p] = c]
  /\ Goto(p, "sleep_block")
  /\ UNCHANGED <<memvars, state, pid, parent, killed, chan, wait_lock, cpu, nextpid, np, wk, wch>>

(* release(lk); chan and SLEEPING; sched(). *)
sleep_block(p, c) ==
  /\ On(p, c) /\ pc[p] = "sleep_block"
  /\ wait_lock' = NULL
  /\ chan' = [chan EXCEPT ![p] = p]
  /\ state' = [state EXCEPT ![p] = "SLEEPING"]
  /\ Sched(p, c)
  /\ Goto(p, "sleep_ret")
  /\ UNCHANGED <<memvars, pid, parent, killed, nextpid, np, wk, wch>>

(* Woken and scheduled again: p->chan = 0, release(&p->lock). *)
sleep_ret(p, c) ==
  /\ On(p, c) /\ pc[p] = "sleep_ret"
  /\ chan' = [chan EXCEPT ![p] = NULL]
  /\ lock' = [lock EXCEPT ![p] = NULL]
  /\ Goto(p, "sleep_reacq")
  /\ UNCHANGED <<memvars, state, pid, parent, killed, wait_lock, cpu, nextpid, np, wk, wch>>

(* acquire(lk), and wait's loop scans again. *)
sleep_reacq(p, c) ==
  /\ On(p, c) /\ pc[p] = "sleep_reacq" /\ wait_lock = NULL
  /\ wait_lock' = c
  /\ Goto(p, "wait_scan")
  /\ UNCHANGED <<memvars, state, pid, parent, killed, chan, lock, cpu, nextpid, np, wk, wch>>


(* sys_exit -> exit, by any process but init (init never exits).  The     *)
(* files and munmap_all are left to Mmap; then spin for wait_lock.        *)
exit(p, c) ==
  /\ On(p, c) /\ pc[p] = "user" /\ p # initproc
  /\ Goto(p, "exit_acq")
  /\ UNCHANGED <<memvars, state, pid, parent, killed, chan, lock, wait_lock, cpu, nextpid, np, wk, wch>>

(* Mutant of exit_acq: exit forgets wakeup(p->parent) when it had no     *)
(* children to reparent.                                                  *)
exit_acq_nowake(p, c) ==
  /\ On(p, c) /\ pc[p] = "exit_acq" /\ wait_lock = NULL
  /\ wait_lock' = c
  /\ parent' = [q \in PROCS |-> IF parent[q] = p THEN initproc ELSE parent[q]]
  /\ wk' = [wk EXCEPT ![p] = PROCS \ {p}]
  /\ IF Children(p) # {}
       THEN /\ wch' = [wch EXCEPT ![p] = initproc]
            /\ Goto(p, "wake_init")
       ELSE /\ wch' = [wch EXCEPT ![p] = NULL]
            /\ Goto(p, "exit_lock")
  /\ UNCHANGED <<memvars, state, pid, killed, chan, lock, cpu, nextpid, np>>

(* Mutant of exit_acq: exit does not call reparent. *)
exit_acq_noreparent(p, c) ==
  /\ On(p, c) /\ pc[p] = "exit_acq" /\ wait_lock = NULL
  /\ wait_lock' = c
  /\ wk' = [wk EXCEPT ![p] = PROCS \ {p}]
  /\ wch' = [wch EXCEPT ![p] = parent[p]]
  /\ Goto(p, "wake_parent")
  /\ UNCHANGED <<memvars, state, pid, parent, killed, chan, lock, cpu, nextpid, np>>

(* acquire(&wait_lock); reparent(p) gives p's children to init; then the  *)
(* wakeup(initproc) of reparent (once: init cannot sleep again while p    *)
(* holds wait_lock, so the later calls find nothing) if there was a       *)
(* child, and wakeup(p->parent).                                          *)
exit_acq(p, c) ==
  /\ On(p, c) /\ pc[p] = "exit_acq" /\ wait_lock = NULL
  /\ wait_lock' = c
  /\ parent' = [q \in PROCS |-> IF parent[q] = p THEN initproc ELSE parent[q]]
  /\ wk' = [wk EXCEPT ![p] = PROCS \ {p}]
  /\ IF Children(p) # {}
       THEN /\ wch' = [wch EXCEPT ![p] = initproc]
            /\ Goto(p, "wake_init")
       ELSE /\ wch' = [wch EXCEPT ![p] = parent[p]]
            /\ Goto(p, "wake_parent")
  /\ UNCHANGED <<memvars, state, pid, killed, chan, lock, cpu, nextpid, np>>

(* One iteration of wakeup's loop: under q->lock, a process SLEEPING on   *)
(* the channel becomes RUNNABLE.                                          *)
wakeup(p, c, q) ==
  /\ On(p, c) /\ pc[p] \in {"wake_init", "wake_parent"}
  /\ q \in wk[p] /\ lock[q] = NULL
  /\ state' = [state EXCEPT ![q] =
                 IF @ = "SLEEPING" /\ chan[q] = wch[p] THEN "RUNNABLE" ELSE @]
  /\ wk' = [wk EXCEPT ![p] = @ \ {q}]
  /\ UNCHANGED <<memvars, pid, parent, killed, chan, lock, wait_lock, cpu, nextpid, pc, np, wch>>

(* wakeup's loop is done: after reparent's, wake p->parent; after that,   *)
(* exit goes on to take p->lock.                                          *)
wakeup_done(p, c) ==
  /\ On(p, c) /\ pc[p] \in {"wake_init", "wake_parent"} /\ wk[p] = {}
  /\ IF pc[p] = "wake_init"
       THEN /\ wk' = [wk EXCEPT ![p] = PROCS \ {p}]
            /\ wch' = [wch EXCEPT ![p] = parent[p]]
            /\ Goto(p, "wake_parent")
       ELSE /\ wch' = [wch EXCEPT ![p] = NULL]
            /\ Goto(p, "exit_lock")
            /\ UNCHANGED wk
  /\ UNCHANGED <<memvars, state, pid, parent, killed, chan, lock, wait_lock, cpu, nextpid, np>>

(* acquire(&p->lock); ZOMBIE; release(&wait_lock); sched(), never back. *)
exit_lock(p, c) ==
  /\ On(p, c) /\ pc[p] = "exit_lock" /\ lock[p] = NULL
  /\ state' = [state EXCEPT ![p] = "ZOMBIE"]
  /\ wait_lock' = NULL
  /\ cpu' = [cpu EXCEPT ![c] = NULL]
  /\ Goto(p, "zombie")
  /\ UNCHANGED <<memvars, pid, parent, killed, chan, lock, nextpid, np, wk, wch>>

(* sys_kill -> kill(pid): the slot q with that pid, under q->lock, is      *)
(* marked killed and woken if SLEEPING.  The pid may be 0, which every     *)
(* UNUSED slot has.  kill(1), which kills init, is not called.            *)
kill(p, c, q) ==
  /\ AtUser(p, c) /\ q # initproc /\ lock[q] = NULL
  /\ killed' = [killed EXCEPT ![q] = TRUE]
  /\ state' = [state EXCEPT ![q] = IF @ = "SLEEPING" THEN "RUNNABLE" ELSE @]
  /\ UNCHANGED <<memvars, pid, parent, chan, lock, wait_lock, cpu, nextpid, pc, np, wk, wch>>

(* Mutant of GrowWith: p->sz is written with uvmalloc's result, also 0. *)
GrowWith_setsz(p, n, r) ==
  /\ pagetable' = [pagetable EXCEPT ![p] = r.pt]
  /\ freemem' = r.free /\ panicked' = r.panic
  /\ sz' = [sz EXCEPT ![p] = r.ret]

(* growproc's result r: a page table and free count; p->sz becomes r.ret, *)
(* except when uvmalloc returned 0 (growproc returns -1).                 *)
GrowWith(p, n, r) ==
  /\ pagetable' = [pagetable EXCEPT ![p] = r.pt]
  /\ freemem' = r.free /\ panicked' = r.panic
  /\ sz' = IF n > 0 /\ r.ret = 0 THEN sz ELSE [sz EXCEPT ![p] = r.ret]

(* sys_sbrk -> growproc(n), without locks: uvmalloc(sz, sz + n) for n > 0, *)
(* uvmdealloc(sz, sz + n) for n < 0, where sz + n is a uint64 and so wraps *)
(* when n < -sz.                                                          *)
sbrk(p, c, n) ==
  /\ AtUser(p, c) /\ sz[p] + n <= MAXSZ
  /\ IF n > 0 THEN \E r \in uvmalloc(Mem(p), sz[p], sz[p] + n) : GrowWith(p, n, r)
     ELSE GrowWith(p, n, uvmdealloc(Mem(p), sz[p], (sz[p] + n) % WRAP))
  /\ UNCHANGED <<trapframe, state, pid, parent, killed, chan, lock, wait_lock, cpu,
                 nextpid, pc, np, wk, wch>>

(* Every step of p's kernel thread below user space. *)
KernelStep(p, c) ==
  \/ forkret(p, c) \/ yield_ret(p, c)
  \/ fork_fail(p, c) \/ fork_copy(p, c) \/ fork_parent(p, c) \/ fork_run(p, c)
  \/ wait_acq(p, c) \/ wait_scan(p, c) \/ wait_sleep(p, c) \/ sleep_block(p, c)
  \/ sleep_ret(p, c) \/ sleep_reacq(p, c)
  \/ exit_acq(p, c) \/ (\E q \in PROCS : wakeup(p, c, q)) \/ wakeup_done(p, c)
  \/ exit_lock(p, c)

(* What a process at user space may do. *)
UserStep(p, c) ==
  \/ yield(p, c) \/ wait(p, c) \/ exit(p, c)
  \/ \E q \in PROCS : fork(p, c, q) \/ fork_noproc(p, c, q) \/ kill(p, c, q)
  \/ \E n \in SBRK : sbrk(p, c, n)

Next ==
  \E c \in CPUS, p \in PROCS :
     scheduler(c, p) \/ KernelStep(p, c) \/ UserStep(p, c)

Spec == Init /\ [][Next]_vars

(* A CPU in the kernel keeps executing (it runs with interrupts off while *)
(* it holds a spinlock, and nothing here sleeps), and a CPU spinning on a  *)
(* lock that is free again and again takes it: strong fairness for every  *)
(* kernel step.                                                            *)
KernelFairness ==
  \A p \in PROCS : SF_vars(\E c \in CPUS : KernelStep(p, c))

(* Besides, the round-robin loop of scheduler() comes back to every slot,  *)
(* so a process that is RUNNABLE whenever its lock is free is run; the     *)
(* timer interrupt makes a process at user space yield (trap.c); usertrap  *)
(* makes a killed process exit.  User code itself may call anything, or    *)
(* nothing.                                                                *)
Fairness ==
  /\ KernelFairness
  /\ \A p \in PROCS :
        /\ SF_vars(\E c \in CPUS : scheduler(c, p))
        /\ SF_vars(\E c \in CPUS : yield(p, c))
        /\ WF_vars(\E c \in CPUS : killed[p] /\ exit(p, c))

KernelFairSpec == Spec /\ KernelFairness
FairSpec == Spec /\ Fairness

(***************************************************************************)
(* Properties.                                                             *)
(***************************************************************************)
TypeOK ==
  /\ state \in [PROCS -> {"UNUSED", "USED", "SLEEPING", "RUNNABLE", "RUNNING", "ZOMBIE"}]
  /\ pid \in [PROCS -> 0 .. MAXPID]
  /\ parent \in [PROCS -> PROCS \cup {NULL}]
  /\ killed \in [PROCS -> BOOLEAN]
  /\ chan \in [PROCS -> PROCS \cup {NULL}]
  /\ lock \in [PROCS -> CPUS \cup {NULL}]
  /\ wait_lock \in CPUS \cup {NULL}
  /\ cpu \in [CPUS -> PROCS \cup {NULL}]
  /\ nextpid \in 2 .. MAXPID + 1
  /\ pc \in [PROCS -> Labels]
  /\ np \in [PROCS -> PROCS \cup {NULL}]
  /\ wk \in [PROCS -> SUBSET PROCS]
  /\ wch \in [PROCS -> PROCS \cup {NULL}]
  /\ pagetable \in [PROCS -> UserPT]
  /\ trapframe \in [PROCS -> BOOLEAN]
  /\ sz \in [PROCS -> 0 .. MAXSZ]
  /\ freemem \in Nat
  /\ panicked \in BOOLEAN

(* A parent link names a live process older than the child: exit hands a *)
(* process's children to init (reparent) before it can be reaped, so no  *)
(* child is left pointing at a freed slot, or at the newer process that   *)
(* fork later puts in it.                                                 *)
ParentLinksValid ==
  \A q \in PROCS :
     parent[q] # NULL => state[parent[q]] # "UNUSED" /\ pid[parent[q]] < pid[q]

(* No lost wakeup: whenever nobody holds wait_lock (no exit is between     *)
(* making a child a ZOMBIE's parent and waking it), no process sleeps in  *)
(* wait while it has a ZOMBIE child.  It rests on sleep taking p->lock    *)
(* before releasing wait_lock, and on exit waking the parent under        *)
(* wait_lock.                                                              *)
NoLostWakeup ==
  wait_lock = NULL =>
     \A p \in PROCS : state[p] = "SLEEPING" => ZombieKids(p) = {}

(* A process asleep in wait with a ZOMBIE child is woken. *)
WakeupNotLost ==
  \A p \in PROCS :
     (state[p] = "SLEEPING" /\ ZombieKids(p) # {}) ~> state[p] # "SLEEPING"

(* The frames a process holds: its trapframe, its page-table pages and   *)
(* its user pages.                                                        *)
Held(p) == PTFrames(pagetable[p]) + (IF trapframe[p] THEN 1 ELSE 0)

(* No frame is lost or made up: the free frames and the frames every     *)
(* process holds always add up to what there was after userinit.  Every *)
(* failure inside allocproc, uvmcopy and uvmalloc (any kalloc may return *)
(* 0, also under a race with other CPUs) gives back what the call took,  *)
(* and freeproc gives back all a process held.                           *)
FramesConserved ==
  freemem + MapThenSumSet(Held, PROCS) = FREEFRAMES + PTFrames(InitPT) + 1

(* A process's page table maps exactly the pages below PGROUNDUP(p->sz), *)
(* besides the trampoline and trapframe: growproc changes p->sz only when *)
(* uvmalloc or uvmdealloc has mapped or unmapped those pages, a failing   *)
(* uvmalloc unmaps what it mapped, and fork sets np->sz to what uvmcopy   *)
(* copied.  Otherwise a later uvmalloc would remap a page (panic), or     *)
(* freeproc's uvmfree would find a page unmapped, or a leaf left.         *)
ImageMatchesSize ==
  \A p \in PROCS : pagetable[p].root =>
     /\ UserPages(pagetable[p]) = {pg \in 0 .. MAXSZ : pg < PGROUNDUP(sz[p]) \div PGSIZE}
     /\ ~panicked

(* kill's promise (proc.c:606, "the victim won't exit until it tries to   *)
(* return to user space", and proc.c:618, "Wake process from sleep()"): a *)
(* killed process eventually exits.  The code breaks it: a kill between   *)
(* wait's killed() check and its sleep is lost (see README).              *)
KilledExits ==
  \A p \in PROCS :
     (killed[p] /\ state[p] # "UNUSED") ~> state[p] \in {"ZOMBIE", "UNUSED"}

=============================================================================
