------------------------------- MODULE Process -------------------------------
(***************************************************************************)
(* kernel/process.c: thread control blocks (PCBs) and the ready queue, a   *)
(* list linked through the PCBs.  process_create takes two pages from the  *)
(* allocator, one for the PCB and one for the stack, and writes to both at *)
(* their physical addresses, which are mapped only as far as the identity  *)
(* map goes; a write beyond it is a page fault, and that hangs the kernel. *)
(*                                                                         *)
(* No thread is ever switched to and none ends: the queue only grows.      *)
(* Other clients use the allocator between the calls.                      *)
(***************************************************************************)
EXTENDS Integers, FiniteSets, Sequences

CONSTANTS
  MaxFrames, PageSize, KernelEnd, MemoryMaps,   \* see Pmm
  Mapped,        \* how many frames the identity map covers: 1024
  FrameOfStack   \* the bytes process_create puts on a new stack: 20

VARIABLES
  mmap, pmm_bitmap, pmm_total, pmm_free, kernel_end_frame, pmm_next_free,
  held, last,    \* see Pmm
  pcb,           \* the PCBs, by the frame they lie in
  ready_queue_head, ready_queue_tail,    \* frames; 0 is the null pointer
  next_pid,
  pc,            \* where process_create stands
  proc,          \* its local variable: the frame of the new PCB
  lost           \* history: PCB pages of creations that failed half-way

pmmvars == <<mmap, pmm_bitmap, pmm_total, pmm_free, kernel_end_frame,
             pmm_next_free, held, last>>
PM == INSTANCE Pmm

queuevars == <<pcb, ready_queue_head, ready_queue_tail, next_pid>>
vars == <<pmmvars, queuevars, pc, proc, lost>>

Frame == PM!Frame
NULL  == 0

ASSUME ProcessAssumption ==
  /\ MaxFrames \in Nat \ {0} /\ PageSize \in Nat \ {0}
  /\ KernelEnd \in 1 .. MaxFrames * PageSize
  /\ MemoryMaps \subseteq Seq(PM!Region)
  /\ Mapped \in 1 .. MaxFrames
  /\ FrameOfStack \in 1 .. PageSize

Pcb(pid, esp, next) == [pid |-> pid, esp |-> esp, next |-> next]
NoPcb == Pcb(0, 0, NULL)

\* The identity map reaches a page the allocator returned.
Reachable(page) == PM!FrameDown(page) < Mapped
------------------------------------------------------------------------------
process_init ==
  /\ pc = "boot"
  /\ ready_queue_head' = NULL /\ ready_queue_tail' = NULL
  /\ next_pid' = 1
  /\ pc' = "idle"
  /\ UNCHANGED <<pmmvars, pcb, proc, lost>>

\* The first half of process_create: the PCB.  Its pid is spent here.
\* Mutant: the pid is taken without counting on.
NextPid_same == next_pid
NextPid == next_pid + 1

allocate_pcb ==
  /\ pc = "idle"
  /\ PM!pmm_alloc_page
  /\ \/ /\ last'.page = PM!NULL
        /\ UNCHANGED <<queuevars, pc, proc>>
     \/ /\ last'.page # PM!NULL /\ ~Reachable(last'.page)
        /\ pc' = "fault"
        /\ UNCHANGED <<queuevars, proc>>
     \/ /\ last'.page # PM!NULL /\ Reachable(last'.page)
        /\ proc' = PM!FrameDown(last'.page)
        /\ pcb' = [pcb EXCEPT ![proc'] = Pcb(next_pid, 0, NULL)]
        /\ next_pid' = NextPid
        /\ pc' = "stack"
        /\ UNCHANGED <<ready_queue_head, ready_queue_tail>>
  /\ UNCHANGED lost

\* Where the five words of the new stack end; the mutant starts from the
\* bottom of the page.
StackTop_bottom(page) == page - FrameOfStack
StackTop(page) == page + PageSize - FrameOfStack

\* The new PCB goes behind the tail, or becomes the head of an empty queue.
\* Mutant: every new PCB becomes the head.
Enqueued(esp) ==
  LET filled == [pcb EXCEPT ![proc].esp = esp, ![proc].next = NULL]
  IN  IF ready_queue_tail = NULL THEN filled
      ELSE [filled EXCEPT ![ready_queue_tail].next = proc]

NewHead_proc == proc
NewHead == IF ready_queue_tail = NULL THEN proc ELSE ready_queue_head

\* Mutant: the tail stays at the first PCB.
NewTail_stale == IF ready_queue_tail = NULL THEN proc ELSE ready_queue_tail
NewTail == proc

\* The second half: the stack and the queue.  Without a page for the stack the
\* call returns 0 and forgets the PCB.
allocate_stack ==
  /\ pc = "stack"
  /\ PM!pmm_alloc_page
  /\ \/ /\ last'.page = PM!NULL
        /\ pc' = "idle" /\ proc' = NULL
        /\ lost' = lost \cup {proc}
        /\ UNCHANGED queuevars
     \/ /\ last'.page # PM!NULL /\ ~Reachable(last'.page)
        /\ pc' = "fault"
        /\ UNCHANGED <<queuevars, proc, lost>>
     \/ /\ last'.page # PM!NULL /\ Reachable(last'.page)
        /\ pcb' = Enqueued(StackTop(last'.page))
        /\ ready_queue_head' = NewHead
        /\ ready_queue_tail' = NewTail
        /\ pc' = "idle" /\ proc' = NULL
        /\ UNCHANGED <<next_pid, lost>>
------------------------------------------------------------------------------
\* The list as the scheduler would walk it: the PCB after n links.
Walk[n \in 0 .. MaxFrames] ==
  IF n = 0 THEN ready_queue_head
  ELSE LET before == Walk[n - 1]
       IN  IF before = NULL THEN NULL ELSE pcb[before].next

Queued == {Walk[n] : n \in 0 .. MaxFrames} \ {NULL}
Queue  == [i \in 1 .. Cardinality(Queued) |-> pcb[Walk[i - 1]].pid]

StackFrame(p) == PM!FrameDown(pcb[p].esp)
Owned == Queued \cup {StackFrame(p) : p \in Queued} \cup lost \cup ({proc} \ {NULL})

\* Other clients of the allocator: they free only what is theirs.
ClientPmm ==
  /\ pc \in {"boot", "idle"}
  /\ \/ PM!pmm_init
     \/ PM!pmm_alloc_page
     \/ \E frame \in held \ Owned : PM!pmm_free_page(PM!PageOf(frame))
  /\ UNCHANGED <<queuevars, pc, proc, lost>>

Init ==
  /\ PM!Init
  /\ pcb = [f \in Frame |-> NoPcb]
  /\ ready_queue_head = NULL /\ ready_queue_tail = NULL
  /\ next_pid = 1
  /\ pc = "boot" /\ proc = NULL /\ lost = {}

Next == ClientPmm \/ process_init \/ allocate_pcb \/ allocate_stack

Spec == Init /\ [][Next]_vars
------------------------------------------------------------------------------
\* PCBs and stacks are pages of their own: no page serves two purposes or two
\* threads, and none is free or a client's while the queue still names it.
PagesApart ==
  /\ Cardinality(Queued \cup {StackFrame(p) : p \in Queued}) = 2 * Cardinality(Queued)
  /\ Owned \subseteq held
  /\ Owned \cap PM!FreeFrames = {}

\* Every pid spent is accounted for by a page that never comes back: a queued
\* PCB, a lost one, or the one being made.  This is why next_pid, a 32-bit
\* counter, cannot wrap and repeat a pid: pages run out first.
PidsAccounted ==
  /\ next_pid - 1 =
       Cardinality(Queued) + Cardinality(lost) + Cardinality({proc} \ {NULL})
  /\ next_pid - 1 <= Cardinality(held)

\* The list implements the queue: creation order is execution order.
ThreadQueue == INSTANCE ReadyQueue WITH queue <- Queue, Pids <- 1 .. MaxFrames
Implements == ThreadQueue!Spec

\* process_create creates a thread or returns 0, and never hangs the kernel
\* (include/process.h:41, the tests of both pages in process.c:60 and 71).
CreateReturns == pc # "fault"
==============================================================================
