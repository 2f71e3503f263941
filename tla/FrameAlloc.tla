------------------------------ MODULE FrameAlloc ------------------------------
(***************************************************************************)
(* What the frame allocator promises its callers (spec 4.1, 6, 8): a       *)
(* small frame is handed to one caller at a time, out of the frames that   *)
(* are free; a huge page is handed out only when every one of its frames   *)
(* is free, and then none of them is free until it is given back; a freed *)
(* frame or huge page is free again.  Which free frame is chosen, when a   *)
(* call fails, and the diagnostic counters are left open.                  *)
(***************************************************************************)
EXTENDS FiniteSets

CONSTANTS
  Callers,      \* whoever calls the allocator (the CPUs)
  Frame,        \* the small frames the allocator manages
  Huge,         \* the huge pages
  Part(_),      \* Part(h): the small frames huge page h consists of
  FreeAtBoot    \* the frames free once the allocator is initialised

VARIABLES
  avail,        \* the small frames free for kalloc (and, whole, for kalloc_huge)
  held,         \* held[c]: the small frames caller c was handed
  heldHuge      \* heldHuge[c]: the huge pages caller c was handed

absvars == <<avail, held, heldHuge>>

AbsTypeOK ==
  /\ avail \subseteq Frame
  /\ held \in [Callers -> SUBSET Frame]
  /\ heldHuge \in [Callers -> SUBSET Huge]

AbsInit ==
  /\ avail = FreeAtBoot
  /\ held = [c \in Callers |-> {}]
  /\ heldHuge = [c \in Callers |-> {}]

Alloc(c, f) ==
  /\ f \in avail
  /\ avail' = avail \ {f}
  /\ held' = [held EXCEPT ![c] = @ \cup {f}]
  /\ UNCHANGED heldHuge

AllocHuge(c, h) ==
  /\ Part(h) \subseteq avail
  /\ avail' = avail \ Part(h)
  /\ heldHuge' = [heldHuge EXCEPT ![c] = @ \cup {h}]
  /\ UNCHANGED held

Free(c, f) ==
  /\ f \in held[c]
  /\ avail' = avail \cup {f}
  /\ held' = [held EXCEPT ![c] = @ \ {f}]
  /\ UNCHANGED heldHuge

FreeHuge(c, h) ==
  /\ h \in heldHuge[c]
  /\ avail' = avail \cup Part(h)
  /\ heldHuge' = [heldHuge EXCEPT ![c] = @ \ {h}]
  /\ UNCHANGED held

AbsNext ==
  \E c \in Callers :
     \/ \E f \in Frame : Alloc(c, f) \/ Free(c, f)
     \/ \E h \in Huge : AllocHuge(c, h) \/ FreeHuge(c, h)

AbsSpec == AbsInit /\ [][AbsNext]_absvars

=============================================================================
