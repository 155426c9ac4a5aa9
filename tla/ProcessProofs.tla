---------------------------- MODULE ProcessProofs ----------------------------
(***************************************************************************)
(* Proofs about Process for every memory, every memory map and every reach *)
(* of the identity map: the links of the PCBs are the queue of threads in  *)
(* the order of their creation, no page serves two of them, and no pid is  *)
(* given twice.                                                            *)
(***************************************************************************)
EXTENDS Process, SequenceTheorems, FiniteSetTheorems, TLAPS

\* Its facts about numbers are about every operator.
Numbers == INSTANCE Folding WITH Op <- +

-----------------------------------------------------------------------------
(* The allocator below, with what PmmProofs shows of it.                   *)

PP == INSTANCE PmmProofs

LEMMA Discharged == PP!PmmAssumption
BY ProcessAssumption
DEF PP!PmmAssumption, PM!Region, PP!Region, PM!MemoryType, PP!MemoryType

LEMMA SameStart == PM!Init <=> PP!Init
BY DEF PM!Init, PP!Init, PM!Frame, PP!Frame, PM!Call, PP!Call, PM!NULL, PP!NULL

LEMMA SameInit == PM!pmm_init <=> PP!pmm_init
<1>1. \A r : PM!RegionFrames(r) = PP!RegionFrames(r)
  BY DEF PM!RegionFrames, PP!RegionFrames, PM!Frame, PP!Frame, PM!RegionEnd, PP!RegionEnd,
         PM!RegionStart, PP!RegionStart, PM!FrameUp, PP!FrameUp, PM!FrameDown, PP!FrameDown
<1>2. PM!Released(mmap) = PP!Released(mmap)
  BY <1>1 DEF PM!Released, PP!Released
<1>3. QED
  BY <1>2 DEF PM!pmm_init, PP!pmm_init, PM!Counted, PP!Counted, PM!Cardinality, PP!Cardinality,
              PM!Call, PP!Call, PM!NULL, PP!NULL, PM!FrameUp, PP!FrameUp, PM!Frame, PP!Frame

LEMMA SameAlloc == PM!pmm_alloc_page <=> PP!pmm_alloc_page
<1>1. PM!Candidates = PP!Candidates
  BY DEF PM!Candidates, PP!Candidates, PM!Clear, PP!Clear
<1>2. PM!Lowest(PM!Candidates) = PP!Lowest(PP!Candidates)
  BY <1>1 DEF PM!Lowest, PP!Lowest
<1>3. QED
  BY <1>1, <1>2 DEF PM!pmm_alloc_page, PP!pmm_alloc_page, PM!Take, PP!Take,
                    PM!Call, PP!Call, PM!NULL, PP!NULL, PM!PageOf, PP!PageOf

LEMMA SameFree == ASSUME NEW page PROVE PM!pmm_free_page(page) <=> PP!pmm_free_page(page)
<1>1. PM!Accepts(page) <=> PP!Accepts(page)
  BY DEF PM!Accepts, PP!Accepts, PM!FrameDown, PP!FrameDown, PM!NULL, PP!NULL
<1>2. PM!Give(PM!FrameDown(page)) <=> PP!Give(PP!FrameDown(page))
  BY DEF PM!Give, PP!Give, PM!FrameDown, PP!FrameDown
<1>3. QED
  BY <1>1, <1>2 DEF PM!pmm_free_page, PP!pmm_free_page, PM!Call, PP!Call, PM!NULL, PP!NULL

LEMMA FramesFinite ==
  IsFiniteSet(Frame) /\ Cardinality(Frame) = MaxFrames
<1>1. 0 \in Int /\ MaxFrames - 1 \in Int /\ MaxFrames \in Nat \ {0}
  BY ProcessAssumption
<1>2. IsFiniteSet(0 .. MaxFrames - 1) /\ Cardinality(0 .. MaxFrames - 1) = MaxFrames
  BY <1>1, FS_Interval
<1>3. QED BY <1>2 DEF Frame, PM!Frame

\* What is handed out is not free, and frame 0 is neither.
LEMMA HeldFrames ==
  ASSUME PP!OwnerInv
  PROVE  /\ held \subseteq Frame \ {NULL} /\ IsFiniteSet(held)
         /\ PM!FreeFrames \cap held = {}
         /\ PP!Ready => NULL \notin PP!FreeFrames
<1>1. held \subseteq Frame /\ mmap \in MemoryMaps
  BY DEF PP!OwnerInv, PP!PmmInv, PP!TypeOK, PP!Frame, PM!Frame, Frame
<1>2. CASE ~PP!Ready
  BY <1>2, FS_EmptySet DEF PP!OwnerInv, PP!PmmInv, PP!ClosedBeforeInit
<1>3. CASE PP!Ready
  <2>1. PP!FreeFrames \cap held = {} /\ PP!FreeFrames \cup held = PP!Released(mmap)
    BY <1>3 DEF PP!OwnerInv, PP!Conservation
  <2>2. \A f \in PP!Released(mmap) : f >= PP!FrameUp(KernelEnd)
    BY <1>1, Discharged, PP!ReleasedFrames
  <2>3. PP!FrameUp(KernelEnd) \in 1 .. MaxFrames
    BY Discharged, PP!KernelEndFrame
  <2>4. 0 \notin PP!Released(mmap)
    BY <2>2, <2>3, ProcessAssumption
  <2>5. QED
    BY <1>1, <2>1, <2>4, FramesFinite, FS_Subset
    DEF Frame, PM!Frame, PP!Frame, NULL, PM!FreeFrames, PP!FreeFrames
<1>4. QED BY <1>2, <1>3

LEMMA PageNames ==
  ASSUME NEW f \in Frame \ {NULL}
  PROVE  /\ PM!PageOf(f) \in Nat /\ PM!PageOf(f) # PM!NULL
         /\ PM!FrameDown(PM!PageOf(f)) = f
         /\ StackTop(PM!PageOf(f)) \in Nat
         /\ PM!FrameDown(StackTop(PM!PageOf(f))) = f
<1>1. f \in Nat /\ f # 0 /\ PageSize \in Nat \ {0} /\ FrameOfStack \in 1 .. PageSize
  BY ProcessAssumption DEF Frame, PM!Frame, NULL
<1>2. f * PageSize \in Nat /\ f * PageSize # 0
  BY <1>1
<1>3. \A o \in 0 .. PageSize - 1 : (f * PageSize + o) \div PageSize = f
  BY <1>1
<1>4. QED
  <2>1. /\ PM!PageOf(f) = f * PageSize + 0
        /\ StackTop(PM!PageOf(f)) = f * PageSize + (PageSize - FrameOfStack)
    BY <1>1, <1>2 DEF PM!PageOf, StackTop
  <2>2. 0 \in 0 .. PageSize - 1 /\ PageSize - FrameOfStack \in 0 .. PageSize - 1
    BY <1>1
  <2>3. QED BY <1>2, <1>3, <2>1, <2>2 DEF PM!FrameDown, PM!NULL

\* An allocation fails, or hands out one frame that nobody has.
Granted(f) == last'.page = PM!PageOf(f) /\ held' = held \cup {f}

LEMMA AllocEffect ==
  ASSUME PP!OwnerInv, PM!pmm_alloc_page
  PROVE  /\ PP!OwnerInv'
         /\ \/ last'.page = PM!NULL /\ held' = held
            \/ \E f \in Frame \ {NULL} : f \notin held /\ Granted(f)
<1>1. PP!pmm_alloc_page
  BY SameAlloc
<1>2. PP!OwnerInv'
  BY <1>1, Discharged, PP!AllocStep, PP!OwnerAlloc DEF PP!OwnerInv
<1>3. CASE PP!Candidates = {}
  BY <1>1, <1>2, <1>3 DEF PP!pmm_alloc_page, PP!Call, PP!NULL, PM!NULL
<1>4. CASE PP!Candidates # {}
  <2> DEFINE f == PP!Lowest(PP!Candidates)
  <2>1. PP!Ready /\ PP!Candidates = PP!FreeFrames
    BY <1>4, Discharged, PP!CandidatesAreFree DEF PP!OwnerInv
  <2>2. f \in PP!FreeFrames
    <3>1. PP!FreeFrames \in SUBSET Nat
      BY ProcessAssumption DEF PP!FreeFrames, PP!Frame
    <3>2. QED BY <1>4, <2>1, <3>1, Discharged, PP!LowestIsLeast
  <2>3. PP!Take(f) /\ last' = PP!Call("alloc", PP!PageOf(f))
    BY <1>1, <1>4 DEF PP!pmm_alloc_page
  <2> HIDE DEF f
  <2>4. f \in Frame /\ f \notin held
    BY <2>1, <2>2 DEF PP!OwnerInv, PP!Conservation, PP!FreeFrames, PP!Frame, Frame, PM!Frame
  <2>5. Granted(f)
    BY <2>3 DEF Granted, PP!Take, PP!Call, PP!PageOf, PM!PageOf
  <2>6. f # NULL
    BY <2>1, <2>2, HeldFrames
  <2>7. QED BY <1>2, <2>4, <2>5, <2>6
<1>5. QED BY <1>3, <1>4

LEMMA NothingTaken ==
  ASSUME PP!OwnerInv, PM!pmm_alloc_page, last'.page = PM!NULL
  PROVE  held' = held
BY AllocEffect, PageNames DEF Granted

-----------------------------------------------------------------------------
(* The invariant: some sequence s of frames is the list the links make.    *)

PcbType == [pid : Nat, esp : Nat, next : Frame]

Typed ==
  /\ pcb \in [Frame -> PcbType]
  /\ proc \in Frame /\ lost \in SUBSET Frame
  /\ next_pid \in Nat /\ next_pid >= 1
  /\ pc \in {"boot", "idle", "stack", "fault"}

\* Head, links and tail name the members of s one after the other.
Linked(s) ==
  /\ s \in Seq(Frame \ {NULL})
  /\ ready_queue_head = IF s = <<>> THEN NULL ELSE s[1]
  /\ ready_queue_tail = IF s = <<>> THEN NULL ELSE s[Len(s)]
  /\ \A i \in 1 .. Len(s) : pcb[s[i]].next = IF i = Len(s) THEN NULL ELSE s[i + 1]

\* Later threads have higher pids, which is also why the list has no cycle, and
\* the PCB in the making has the last one.
PidsGrow(s) ==
  /\ \A i, j \in 1 .. Len(s) : i < j => pcb[s[i]].pid < pcb[s[j]].pid
  /\ \A i \in 1 .. Len(s) : pcb[s[i]].pid \in 1 .. next_pid - 1
  /\ proc # NULL => /\ pcb[proc].pid = next_pid - 1 /\ next_pid > 1
                    /\ \A i \in 1 .. Len(s) : pcb[s[i]].pid < pcb[proc].pid

\* The PCBs, the stacks, the lost pages and the page of the PCB in the making.
Pcbs(s)   == {s[i] : i \in 1 .. Len(s)}
Stacks(s) == {StackFrame(p) : p \in Pcbs(s)}
Apart(s) ==
  /\ Pcbs(s) \cup Stacks(s) \cup lost \cup ({proc} \ {NULL}) \subseteq held
  /\ \A p, q \in Pcbs(s) : StackFrame(p) = StackFrame(q) => p = q
  /\ Pcbs(s) \cap Stacks(s) = {} /\ Pcbs(s) \cap lost = {}
  /\ proc \notin Pcbs(s) \cup Stacks(s) \cup lost

Accounted(s) ==
  next_pid - 1 = Len(s) + Cardinality(lost) + IF proc = NULL THEN 0 ELSE 1

Position(s) ==
  /\ pc \in {"boot", "idle"} => proc = NULL
  /\ pc = "stack" => proc # NULL
  /\ pc = "boot" => s = <<>> /\ next_pid = 1 /\ lost = {}

Threads(s) == Linked(s) /\ PidsGrow(s) /\ Apart(s) /\ Accounted(s) /\ Position(s)

ProcessInv == PP!OwnerInv /\ Typed /\ \E s \in Seq(Frame \ {NULL}) : Threads(s)

-----------------------------------------------------------------------------
(* Following the links.                                                    *)

\* No PCB comes twice, so the list is shorter than the memory has frames.
LEMMA ListLength ==
  ASSUME NEW s, Linked(s), PidsGrow(s)
  PROVE  /\ \A i, j \in 1 .. Len(s) : s[i] = s[j] => i = j
         /\ IsFiniteSet(Pcbs(s)) /\ Cardinality(Pcbs(s)) = Len(s)
         /\ Len(s) < MaxFrames
<1>1. s \in Seq(Frame \ {NULL}) /\ Len(s) \in Nat
  BY DEF Linked
<1>2. \A i \in 1 .. Len(s) : pcb[s[i]].pid \in Nat /\ s[i] \in Frame \ {NULL}
  BY <1>1, ProcessAssumption DEF PidsGrow
<1>3. ASSUME NEW i \in 1 .. Len(s), NEW j \in 1 .. Len(s), s[i] = s[j] PROVE i = j
  BY <1>1, <1>2, <1>3 DEF PidsGrow
<1>4. IsFiniteSet(Pcbs(s)) /\ Cardinality(Pcbs(s)) = Len(s)
  <2> DEFINE f == [i \in 1 .. Len(s) |-> s[i]]
  <2>1. f \in [1 .. Len(s) -> Pcbs(s)] /\ \A i \in 1 .. Len(s) : f[i] = s[i]
    BY DEF Pcbs
  <2> HIDE DEF f
  <2>2. f \in Surjection(1 .. Len(s), Pcbs(s))
    BY <2>1 DEF Pcbs, Surjection
  <2>3. f \in Injection(1 .. Len(s), Pcbs(s))
    BY <2>1, <1>3 DEF Injection, IsInjective
  <2>4. IsFiniteSet(1 .. Len(s)) /\ Cardinality(1 .. Len(s)) = Len(s)
    <3>1. 1 \in Int /\ Len(s) \in Int
      BY <1>1
    <3>2. QED BY <1>1, <3>1, FS_Interval
  <2>5. QED BY <2>2, <2>3, <2>4, FS_Surjection
<1>5. Len(s) < MaxFrames
  <2>1. NULL \in Frame /\ MaxFrames \in Nat
    BY ProcessAssumption DEF NULL, Frame, PM!Frame
  <2>2. IsFiniteSet(Frame \ {NULL}) /\ Cardinality(Frame \ {NULL}) = MaxFrames - 1
    BY <2>1, FramesFinite, FS_RemoveElement
  <2>3. Pcbs(s) \subseteq Frame \ {NULL}
    BY <1>2 DEF Pcbs
  <2>4. Cardinality(Pcbs(s)) <= MaxFrames - 1
    BY <2>2, <2>3, FS_Subset
  <2>5. QED BY <1>1, <1>4, <2>1, <2>4
<1>6. QED BY <1>3, <1>4, <1>5

\* Walk is the function its definition says: there is one.
Links(W) ==
  [n \in 0 .. MaxFrames |->
     IF n = 0 THEN ready_queue_head
     ELSE LET before == W[n - 1] IN IF before = NULL THEN NULL ELSE pcb[before].next]
Members(s) == [n \in 0 .. MaxFrames |-> IF n < Len(s) THEN s[n + 1] ELSE NULL]

LEMMA MembersFollow ==
  ASSUME NEW s, Linked(s), PidsGrow(s)
  PROVE  Members(s) = Links(Members(s))
<1>1. s \in Seq(Frame \ {NULL}) /\ Len(s) \in Nat /\ MaxFrames \in Nat /\ Len(s) < MaxFrames
  BY ListLength, ProcessAssumption DEF Linked
<1>2. \A i \in 1 .. Len(s) : s[i] # NULL
  BY <1>1
<1>3. ASSUME NEW n \in 0 .. MaxFrames
      PROVE  Members(s)[n] = Links(Members(s))[n]
  <2>1. CASE n = 0
    BY <1>1, <2>1 DEF Members, Links, Linked
  <2>2. CASE n # 0
    <3>1. n - 1 \in 0 .. MaxFrames
      BY <1>1, <2>2
    <3>2. CASE n - 1 < Len(s)
      <4>1. n \in 1 .. Len(s)
        BY <1>1, <2>2, <3>2
      <4>2. Members(s)[n - 1] = s[n] /\ s[n] # NULL
        BY <1>2, <3>1, <3>2, <4>1 DEF Members
      <4>3. Links(Members(s))[n] = pcb[s[n]].next
        BY <2>2, <4>2 DEF Links
      <4>4. pcb[s[n]].next = IF n = Len(s) THEN NULL ELSE s[n + 1]
        BY <4>1 DEF Linked
      <4>5. QED BY <1>1, <4>1, <4>3, <4>4 DEF Members
    <3>3. CASE ~(n - 1 < Len(s))
      <4>1. Members(s)[n - 1] = NULL /\ Members(s)[n] = NULL
        BY <1>1, <3>1, <3>3 DEF Members
      <4>2. QED BY <2>2, <4>1 DEF Links
    <3>4. QED BY <3>2, <3>3
  <2>3. QED BY <2>1, <2>2
<1>4. QED BY <1>3 DEF Members, Links

LEMMA WalkOfList ==
  ASSUME NEW s, Linked(s), PidsGrow(s)
  PROVE  Walk = Members(s)
<1>1. Members(s) = Links(Members(s))
  BY MembersFollow
<1>2. Walk = Links(Walk)
  BY <1>1 DEF Walk, Links
<1> DEFINE Differ == {n \in 0 .. MaxFrames : Walk[n] # Members(s)[n]}
<1>3. Differ = {}
  <2> SUFFICES ASSUME Differ # {} PROVE FALSE
    OBVIOUS
  <2>1. PICK n \in Differ : \A m \in Differ : n <= m
    <3>1. Differ \in SUBSET Nat
      BY ProcessAssumption
    <3>2. QED BY <3>1, Numbers!LeastExists
  <2>2. n \in 0 .. MaxFrames /\ MaxFrames \in Nat
    BY ProcessAssumption
  <2>3. Walk[n] = Links(Walk)[n] /\ Members(s)[n] = Links(Members(s))[n]
    BY <1>1, <1>2
  <2>4. CASE n = 0
    BY <2>1, <2>2, <2>3, <2>4 DEF Links
  <2>5. CASE n # 0
    <3>1. n - 1 \in 0 .. MaxFrames /\ n - 1 \notin Differ
      BY <2>1, <2>2, <2>5
    <3>2. Walk[n - 1] = Members(s)[n - 1]
      BY <3>1
    <3>3. Links(Walk)[n] = Links(Members(s))[n]
      BY <2>2, <2>5, <3>2 DEF Links
    <3>4. QED BY <2>1, <2>3, <3>3
  <2>6. QED BY <2>4, <2>5
<1>4. \A n \in 0 .. MaxFrames : Walk[n] = Members(s)[n]
  BY <1>3
<1>5. Walk = [n \in 0 .. MaxFrames |-> Walk[n]]
  BY <1>2 DEF Links
<1>6. QED BY <1>4, <1>5 DEF Members

\* What the scheduler would see by following the links is s.
Followed ==
  \A s \in Seq(Frame \ {NULL}) : Linked(s) /\ PidsGrow(s) =>
    /\ Queued = Pcbs(s)
    /\ Cardinality(Queued) = Len(s)
    /\ Queue = [i \in 1 .. Len(s) |-> pcb[s[i]].pid]

LEMMA QueueIsList == Followed
<1> SUFFICES ASSUME NEW s \in Seq(Frame \ {NULL}), Linked(s), PidsGrow(s)
             PROVE  /\ Queued = Pcbs(s) /\ Cardinality(Queued) = Len(s)
                    /\ Queue = [i \in 1 .. Len(s) |-> pcb[s[i]].pid]
  BY DEF Followed
<1>1. Len(s) \in Nat /\ MaxFrames \in Nat /\ Len(s) < MaxFrames
      /\ Cardinality(Pcbs(s)) = Len(s)
  BY ListLength, ProcessAssumption
<1>2. \A n \in 0 .. MaxFrames : Walk[n] = IF n < Len(s) THEN s[n + 1] ELSE NULL
  BY WalkOfList DEF Members
<1>3. \A i \in 1 .. Len(s) : Walk[i - 1] = s[i] /\ s[i] # NULL /\ i - 1 \in 0 .. MaxFrames
  BY <1>1, <1>2
<1>4. Queued \subseteq Pcbs(s)
  <2> SUFFICES ASSUME NEW n \in 0 .. MaxFrames, Walk[n] # NULL PROVE Walk[n] \in Pcbs(s)
    BY DEF Queued
  <2>1. n < Len(s) /\ Walk[n] = s[n + 1]
    BY <1>2
  <2>2. n + 1 \in 1 .. Len(s)
    BY <1>1, <2>1
  <2>3. QED BY <2>1, <2>2 DEF Pcbs
<1>5. Pcbs(s) \subseteq Queued
  BY <1>3 DEF Pcbs, Queued
<1>6. Cardinality(Queued) = Len(s)
  <2>1. Queued = Pcbs(s)
    BY <1>4, <1>5
  <2>2. QED BY <1>1, <2>1
<1>7. Queued = Pcbs(s)
  BY <1>4, <1>5
<1>8. Queue = [i \in 1 .. Len(s) |-> pcb[s[i]].pid]
  BY <1>3, <1>6 DEF Queue
<1>9. QED BY <1>6, <1>7, <1>8

LEMMA QueueIsListNext == Followed'
BY QueueIsList, PTL

-----------------------------------------------------------------------------
(* The steps.                                                              *)

PidsOf(s) == [i \in 1 .. Len(s) |-> pcb[s[i]].pid]

\* The list is as long as it was, or one thread longer, in the terms of
\* ReadyQueue.
Extended(s) ==
  \E t \in Seq(Frame \ {NULL}) :
    /\ Threads(t)'
    /\ \/ PidsOf(t)' = PidsOf(s)
       \/ \E pid \in 1 .. MaxFrames :
            /\ \A i \in 1 .. Len(s) : PidsOf(s)[i] < pid
            /\ PidsOf(t)' = Append(PidsOf(s), pid)

\* The pages a creation takes from the allocator are the threads' from then on;
\* only the page whose use faults belongs to nobody.
OwnedBy(s) == Pcbs(s) \cup Stacks(s) \cup lost \cup ({proc} \ {NULL})
Takes(s) ==
  pc' # "fault" =>
    \E t \in Seq(Frame \ {NULL}) :
      Threads(t)' /\ OwnedBy(t)' = OwnedBy(s) \cup (held' \ held)

LEMMA ProcessInit == Init => ProcessInv
<1> SUFFICES ASSUME Init PROVE ProcessInv
  OBVIOUS
<1>1. PP!OwnerInv
  <2>1. PP!Init
    BY SameStart DEF Init
  <2>2. PP!PmmInv
    BY <2>1, Discharged, PP!InitPmmInv
  <2>3. QED BY <2>1, <2>2 DEF PP!Init, PP!OwnerInv, PP!Conservation, PP!Ready
<1>2. Typed
  <2>1. NULL \in Frame
    BY ProcessAssumption DEF NULL, Frame, PM!Frame
  <2>2. NoPcb \in PcbType
    BY <2>1 DEF NoPcb, Pcb, PcbType, NULL
  <2>3. QED BY <2>1, <2>2 DEF Init, Typed
<1>3. Threads(<<>>)
  <2>1. Linked(<<>>)
    BY DEF Init, Linked
  <2>2. PidsGrow(<<>>)
    BY DEF Init, PidsGrow
  <2>3. Pcbs(<<>>) = {} /\ Stacks(<<>>) = {}
    BY DEF Pcbs, Stacks
  <2>4. Apart(<<>>)
    BY <2>3 DEF Init, Apart
  <2>5. Accounted(<<>>)
    BY FS_EmptySet DEF Init, Accounted
  <2>6. Position(<<>>)
    BY DEF Init, Position
  <2>7. QED BY <2>1, <2>2, <2>4, <2>5, <2>6 DEF Threads
<1>4. <<>> \in Seq(Frame \ {NULL})
  OBVIOUS
<1>5. QED BY <1>1, <1>2, <1>3, <1>4 DEF ProcessInv

\* What the queue, lost and proc own are frames of their own: the pids spent
\* are not more than the frames handed out.
LEMMA PidsFit ==
  ASSUME NEW s, PP!OwnerInv, Typed, Threads(s)
  PROVE  /\ next_pid - 1 <= Cardinality(held)
         /\ Cardinality(held) <= MaxFrames /\ Cardinality(held) \in Nat
<1> DEFINE own == {proc} \ {NULL}
<1>1. /\ IsFiniteSet(Pcbs(s)) /\ Cardinality(Pcbs(s)) = Len(s) /\ Len(s) \in Nat
      /\ next_pid \in Nat
  BY ListLength DEF Threads, Linked, Typed
<1>2. IsFiniteSet(lost) /\ Cardinality(lost) \in Nat
  BY FramesFinite, FS_Subset, FS_CardinalityType DEF Typed
<1>3. IsFiniteSet(own) /\ Cardinality(own) = IF proc = NULL THEN 0 ELSE 1
  <2>1. CASE proc = NULL
    BY <2>1, FS_EmptySet
  <2>2. CASE proc # NULL
    <3>1. own = {proc}
      BY <2>2
    <3>2. QED BY <2>2, <3>1, FS_Singleton
  <2>3. QED BY <2>1, <2>2
<1>4. /\ Pcbs(s) \cap lost = {} /\ (Pcbs(s) \cup lost) \cap own = {}
      /\ (Pcbs(s) \cup lost) \cup own \subseteq held
  BY DEF Threads, Apart
<1> HIDE DEF own
<1>5. /\ IsFiniteSet(Pcbs(s) \cup lost)
      /\ Cardinality(Pcbs(s) \cup lost) = Len(s) + Cardinality(lost)
  <2>1. /\ IsFiniteSet(Pcbs(s) \cup lost)
        /\ Cardinality(Pcbs(s) \cup lost) =
             Cardinality(Pcbs(s)) + Cardinality(lost) - Cardinality(Pcbs(s) \cap lost)
    BY <1>1, <1>2, FS_Union
  <2>2. Cardinality(Pcbs(s) \cap lost) = 0
    BY <1>4, FS_EmptySet
  <2>3. QED BY <1>1, <1>2, <2>1, <2>2
<1>6. Cardinality((Pcbs(s) \cup lost) \cup own) = next_pid - 1
  <2>1. Cardinality((Pcbs(s) \cup lost) \cup own) =
          Cardinality(Pcbs(s) \cup lost) + Cardinality(own)
            - Cardinality((Pcbs(s) \cup lost) \cap own)
    BY <1>3, <1>5, FS_Union
  <2>2. Cardinality((Pcbs(s) \cup lost) \cap own) = 0
    BY <1>4, FS_EmptySet
  <2>3. next_pid - 1 = Len(s) + Cardinality(lost) + IF proc = NULL THEN 0 ELSE 1
    BY DEF Threads, Accounted
  <2>4. QED BY <1>1, <1>2, <1>3, <1>5, <2>1, <2>2, <2>3
<1>7. IsFiniteSet(held) /\ held \subseteq Frame
  BY HeldFrames
<1>8. Cardinality((Pcbs(s) \cup lost) \cup own) <= Cardinality(held)
  BY <1>4, <1>7, FS_Subset
<1>9. Cardinality(held) <= MaxFrames /\ Cardinality(held) \in Nat
  BY <1>7, FramesFinite, FS_Subset, FS_CardinalityType
<1>10. QED BY <1>6, <1>8, <1>9

\* A step that leaves the queue alone and takes no page away from it.
LEMMA ThreadsKept ==
  ASSUME NEW s, Threads(s), UNCHANGED <<queuevars, proc, lost>>,
         Pcbs(s) \cup Stacks(s) \cup lost \cup ({proc} \ {NULL}) \subseteq held',
         Position(s)'
  PROVE  Extended(s) /\ Threads(s)' /\ OwnedBy(s)' = OwnedBy(s)
<1>1. /\ pcb' = pcb /\ ready_queue_head' = ready_queue_head /\ next_pid' = next_pid
      /\ ready_queue_tail' = ready_queue_tail /\ proc' = proc /\ lost' = lost
  BY DEF queuevars
<1>2. Linked(s)'
  BY <1>1 DEF Threads, Linked
<1>3. PidsGrow(s)'
  BY <1>1 DEF Threads, PidsGrow
<1>4. Pcbs(s)' = Pcbs(s) /\ Stacks(s)' = Stacks(s) /\ \A p : StackFrame(p)' = StackFrame(p)
  BY <1>1 DEF Pcbs, Stacks, StackFrame
<1>5. Apart(s)'
  BY <1>1, <1>4 DEF Threads, Apart
<1>6. Accounted(s)'
  BY <1>1 DEF Threads, Accounted
<1>7. PidsOf(s)' = PidsOf(s)
  BY <1>1 DEF PidsOf
<1>8. s \in Seq(Frame \ {NULL})
  BY DEF Threads, Linked
<1>9. Threads(s)'
  BY <1>2, <1>3, <1>5, <1>6 DEF Threads
<1>10. OwnedBy(s)' = OwnedBy(s)
  BY <1>1, <1>4 DEF OwnedBy
<1>11. QED BY <1>7, <1>8, <1>9, <1>10 DEF Extended

LEMMA InitProcessStep ==
  ASSUME NEW s, PP!OwnerInv, Typed, Threads(s), process_init
  PROVE  PP!OwnerInv' /\ Typed' /\ Extended(s) /\ Owned' = Owned
<1>1. s = <<>> /\ next_pid = 1 /\ lost = {} /\ proc = NULL
  BY DEF process_init, Threads, Position
<1>2. ready_queue_head = NULL /\ ready_queue_tail = NULL
  BY <1>1 DEF Threads, Linked
<1>3. UNCHANGED <<queuevars, proc, lost>> /\ UNCHANGED pmmvars /\ pc' = "idle"
  BY <1>1, <1>2 DEF process_init, queuevars
<1>4. PP!OwnerInv'
  BY <1>3, Discharged, PP!StutterStep
  DEF pmmvars, PP!vars, PP!OwnerInv, PP!Conservation, PP!Ready, PP!FreeFrames
<1>5. Typed'
  BY <1>3 DEF Typed, queuevars
<1>6. Position(s)'
  BY <1>1, <1>3 DEF Position
<1>7. Pcbs(s) \cup Stacks(s) \cup lost \cup ({proc} \ {NULL}) \subseteq held'
  BY <1>3 DEF Threads, Apart, pmmvars
<1>8. Owned' = Owned
  BY <1>3 DEF Owned, Queued, Walk, StackFrame, queuevars
<1>9. QED BY <1>3, <1>4, <1>5, <1>6, <1>7, <1>8, ThreadsKept

\* The new PCB lies in a page nobody had, so the old ones do not change.
LEMMA PcbStep ==
  ASSUME NEW s, PP!OwnerInv, Typed, Threads(s), allocate_pcb
  PROVE  PP!OwnerInv' /\ Typed' /\ Extended(s) /\ Takes(s)
<1>1. PP!OwnerInv' /\ held \subseteq held'
  BY AllocEffect DEF allocate_pcb, Granted
<1>2. pc = "idle" /\ proc = NULL /\ lost' = lost
  BY DEF allocate_pcb, Threads, Position
<1>3. Pcbs(s) \cup Stacks(s) \cup lost \cup ({proc} \ {NULL}) \subseteq held'
  BY <1>1 DEF Threads, Apart
<1>4. CASE /\ UNCHANGED <<queuevars, proc>>
           /\ pc' = "fault" \/ (pc' = "idle" /\ last'.page = PM!NULL)
  <2>1. Position(s)'
    BY <1>2, <1>4 DEF Position
  <2>2. Extended(s) /\ Threads(s)' /\ OwnedBy(s)' = OwnedBy(s)
    BY <1>2, <1>3, <1>4, <2>1, ThreadsKept
  <2>3. Typed'
    BY <1>2, <1>4 DEF Typed, queuevars
  <2>4. pc' # "fault" => held' = held
    BY <1>4, NothingTaken DEF allocate_pcb
  <2>5. Takes(s)
    BY <2>2, <2>4 DEF Takes, Threads, Linked
  <2>6. QED BY <1>1, <2>2, <2>3, <2>5
<1>5. CASE /\ last'.page # PM!NULL /\ proc' = PM!FrameDown(last'.page)
           /\ pcb' = [pcb EXCEPT ![proc'] = Pcb(next_pid, 0, NULL)]
           /\ next_pid' = NextPid /\ pc' = "stack"
           /\ UNCHANGED <<ready_queue_head, ready_queue_tail>>
  <2>1. PICK f \in Frame \ {NULL} : f \notin held /\ Granted(f)
    BY <1>5, AllocEffect DEF allocate_pcb
  <2>2. proc' = f /\ held' = held \cup {f}
    BY <1>5, <2>1, PageNames DEF Granted
  <2>3. /\ pcb' = [pcb EXCEPT ![f] = Pcb(next_pid, 0, NULL)]
        /\ next_pid' = next_pid + 1
    BY <1>5, <2>2 DEF NextPid
  <2>4. NULL \in Frame /\ Pcb(next_pid, 0, NULL) \in PcbType
    <3>1. NULL \in Frame
      BY ProcessAssumption DEF NULL, Frame, PM!Frame
    <3>2. QED BY <3>1 DEF Typed, Pcb, PcbType
  <2>5. Typed'
    BY <1>2, <1>5, <2>1, <2>2, <2>3, <2>4 DEF Typed
  <2>6. s \in Seq(Frame \ {NULL}) /\ Len(s) \in Nat
        /\ \A i \in 1 .. Len(s) : s[i] \in Pcbs(s) /\ s[i] \in Frame
    BY DEF Threads, Linked, Pcbs
  <2>7. \A p \in Pcbs(s) : p # f /\ pcb'[p] = pcb[p]
    BY <2>1, <2>3, <2>6 DEF Threads, Apart, Typed, Pcbs
  <2>8. Linked(s)'
    BY <1>5, <2>6, <2>7 DEF Threads, Linked
  <2>9. pcb'[f].pid = next_pid /\ next_pid \in Nat /\ next_pid >= 1
    BY <2>1, <2>3 DEF Typed, Pcb
  <2>10. PidsGrow(s)'
    <3>1. /\ \A i, j \in 1 .. Len(s) : i < j => pcb[s[i]].pid < pcb[s[j]].pid
          /\ \A i \in 1 .. Len(s) : pcb[s[i]].pid \in 1 .. next_pid - 1
      BY DEF Threads, PidsGrow
    <3>2. \A i \in 1 .. Len(s) : pcb'[s[i]] = pcb[s[i]]
      BY <2>6, <2>7
    <3>3. next_pid' - 1 = next_pid /\ next_pid' > 1
          /\ \A i \in 1 .. Len(s) : pcb[s[i]].pid < next_pid /\ pcb[s[i]].pid \in 1 .. next_pid
      BY <2>3, <2>9, <3>1
    <3>4. QED BY <2>2, <2>9, <3>1, <3>2, <3>3 DEF PidsGrow
  <2>11. Pcbs(s)' = Pcbs(s) /\ \A p \in Pcbs(s) : StackFrame(p)' = StackFrame(p)
    BY <2>7 DEF Pcbs, StackFrame
  <2>12. Stacks(s)' = Stacks(s)
    BY <2>11 DEF Stacks
  <2>13. Apart(s)'
    <3>1. /\ Pcbs(s) \cup Stacks(s) \cup lost \subseteq held
          /\ \A p, q \in Pcbs(s) : StackFrame(p) = StackFrame(q) => p = q
          /\ Pcbs(s) \cap Stacks(s) = {} /\ Pcbs(s) \cap lost = {}
      BY DEF Threads, Apart
    <3>2. f \notin Pcbs(s) \cup Stacks(s) \cup lost
      BY <2>1, <3>1
    <3>3. QED BY <1>2, <2>2, <2>11, <2>12, <3>1, <3>2 DEF Apart
  <2>14. Accounted(s)'
    <3>1. Cardinality(lost) \in Nat
      BY FramesFinite, FS_Subset, FS_CardinalityType DEF Typed
    <3>2. next_pid - 1 = Len(s) + Cardinality(lost) + 0
      BY <1>2 DEF Threads, Accounted
    <3>3. QED BY <1>2, <2>1, <2>2, <2>3, <2>6, <2>9, <3>1, <3>2 DEF Accounted
  <2>15. Position(s)'
    BY <1>5, <2>1, <2>2 DEF Position
  <2>16. PidsOf(s)' = PidsOf(s)
    BY <2>6, <2>7 DEF PidsOf
  <2>17. Extended(s)
    BY <2>6, <2>8, <2>10, <2>13, <2>14, <2>15, <2>16 DEF Threads, Extended
  <2>18. OwnedBy(s)' = OwnedBy(s) \cup (held' \ held)
    <3>1. held' \ held = {f} /\ {proc} \ {NULL} = {} /\ {f} \ {NULL} = {f}
      BY <1>2, <2>1, <2>2
    <3>2. QED BY <1>2, <2>2, <2>11, <2>12, <3>1 DEF OwnedBy
  <2>19. Takes(s)
    BY <2>6, <2>8, <2>10, <2>13, <2>14, <2>15, <2>18 DEF Threads, Takes
  <2>20. QED BY <1>1, <2>5, <2>17, <2>19
<1>6. QED
  BY <1>2, <1>4, <1>5 DEF allocate_pcb

LEMMA PcbFields ==
  ASSUME NEW r, NEW a, NEW b, NEW c, r = [pid |-> a, esp |-> b, next |-> c], NEW v
  PROVE  /\ [r EXCEPT !.esp = v]  = [pid |-> a, esp |-> v, next |-> c]
         /\ [r EXCEPT !.next = v] = [pid |-> a, esp |-> b, next |-> v]
OBVIOUS

LEMMA PcbRecord ==
  ASSUME NEW r \in PcbType
  PROVE  r = [pid |-> r.pid, esp |-> r.esp, next |-> r.next]
BY DEF PcbType

\* Appending the new PCB to the list.
LEMMA Enqueuing ==
  ASSUME NEW s, PP!OwnerInv, Typed, Threads(s), pc = "stack",
         NEW f \in Frame \ {NULL}, f \notin held, held' = held \cup {f},
         pcb' = Enqueued(StackTop(PM!PageOf(f))),
         ready_queue_head' = NewHead, ready_queue_tail' = NewTail,
         pc' = "idle", proc' = NULL, UNCHANGED <<next_pid, lost>>
  PROVE  Typed' /\ Extended(s) /\ Takes(s)
<1> PICK t : t = Append(s, proc)
  OBVIOUS
<1> DEFINE n == Len(s)
           esp == StackTop(PM!PageOf(f))
<1>1. /\ s \in Seq(Frame \ {NULL}) /\ n \in Nat
      /\ \A i \in 1 .. n : s[i] \in Pcbs(s) /\ s[i] \in Frame \ {NULL}
  BY DEF Threads, Linked, Pcbs
<1>2. proc # NULL /\ proc \in Frame
  BY DEF Threads, Position, Typed
<1>3. /\ t \in Seq(Frame \ {NULL}) /\ Len(t) = n + 1 /\ t[n + 1] = proc
      /\ \A i \in 1 .. n : t[i] = s[i]
      /\ t # <<>>
  BY <1>1, <1>2
<1>4. ready_queue_tail = (IF n = 0 THEN NULL ELSE s[n]) /\ (n = 0 <=> s = <<>>)
  BY <1>1 DEF Threads, Linked
<1>5. n # 0 => s[n] \in Frame \ {NULL} /\ s[n] \in Pcbs(s)
  BY <1>1
<1>6. proc \notin Pcbs(s)
  BY DEF Threads, Apart
<1>7. esp \in Nat /\ PM!FrameDown(esp) = f
  BY PageNames
<1> HIDE DEF esp
<1>8. /\ pcb' \in [Frame -> PcbType]
      /\ pcb'[proc] = [pid |-> pcb[proc].pid, esp |-> esp, next |-> NULL]
      /\ n # 0 => pcb'[s[n]] = [pid |-> pcb[s[n]].pid, esp |-> pcb[s[n]].esp, next |-> proc]
      /\ \A p \in Frame : p # proc /\ (n # 0 => p # s[n]) => pcb'[p] = pcb[p]
  <2>0. pcb \in [Frame -> PcbType] /\ NULL \in Frame /\ pcb' = Enqueued(esp)
    BY ProcessAssumption DEF Typed, esp, NULL, Frame, PM!Frame
  <2> DEFINE filled == [pcb EXCEPT ![proc].esp = esp, ![proc].next = NULL]
  <2>1. /\ filled \in [Frame -> PcbType]
        /\ filled[proc] = [pid |-> pcb[proc].pid, esp |-> esp, next |-> NULL]
        /\ \A p \in Frame : p # proc => filled[p] = pcb[p]
    <3>1. pcb[proc] \in PcbType
      BY <1>2, <2>0
    <3>2. filled = [pcb EXCEPT ![proc] =
                      [pid |-> pcb[proc].pid, esp |-> esp, next |-> NULL]]
      <4> DEFINE stacked == [pcb EXCEPT ![proc].esp = esp]
      <4>1. stacked = [pcb EXCEPT ![proc] =
                         [pid |-> pcb[proc].pid, esp |-> esp, next |-> pcb[proc].next]]
        <5>1. pcb[proc] = [pid |-> pcb[proc].pid, esp |-> pcb[proc].esp, next |-> pcb[proc].next]
          BY <3>1, PcbRecord
        <5>2. [pcb[proc] EXCEPT !.esp = esp] =
                [pid |-> pcb[proc].pid, esp |-> esp, next |-> pcb[proc].next]
          BY <5>1, PcbFields
        <5>3. QED BY <5>2
      <4>2. filled = [stacked EXCEPT ![proc].next = NULL]
        BY DEF filled
      <4> HIDE DEF filled, stacked
      <4>3. /\ stacked[proc] = [pid |-> pcb[proc].pid, esp |-> esp, next |-> pcb[proc].next]
            /\ DOMAIN stacked = Frame /\ stacked = [p \in Frame |-> stacked[p]]
            /\ \A p \in Frame : p # proc => stacked[p] = pcb[p]
        BY <1>2, <2>0, <4>1
      <4>4. filled = [stacked EXCEPT ![proc] =
                        [pid |-> pcb[proc].pid, esp |-> esp, next |-> NULL]]
        <5>1. [stacked[proc] EXCEPT !.next = NULL] =
                [pid |-> pcb[proc].pid, esp |-> esp, next |-> NULL]
          BY <4>3, PcbFields
        <5>2. QED BY <4>2, <5>1
      <4>5. QED BY <1>2, <2>0, <4>3, <4>4
    <3>3. [pid |-> pcb[proc].pid, esp |-> esp, next |-> NULL] \in PcbType
      BY <1>7, <2>0, <3>1 DEF PcbType
    <3> HIDE DEF filled
    <3>4. QED BY <1>2, <2>0, <3>2, <3>3
  <2>2. Enqueued(esp) = IF ready_queue_tail = NULL THEN filled
                        ELSE [filled EXCEPT ![ready_queue_tail].next = proc]
    BY DEF Enqueued
  <2> HIDE DEF filled
  <2>3. CASE n = 0
    BY <1>4, <2>0, <2>1, <2>2, <2>3
  <2>4. CASE n # 0
    <3>1. ready_queue_tail = s[n] /\ s[n] # NULL /\ s[n] \in Frame /\ s[n] # proc
      BY <1>4, <1>5, <1>6, <2>4
    <3>2. pcb' = [filled EXCEPT ![s[n]].next = proc]
      BY <2>0, <2>2, <3>1
    <3>3. filled[s[n]] \in PcbType /\ filled[s[n]] = pcb[s[n]]
      BY <2>1, <3>1
    <3>4. pcb' \in [Frame -> PcbType]
      BY <1>2, <2>1, <3>1, <3>2 DEF PcbType
    <3>5. pcb'[s[n]] = [pid |-> pcb[s[n]].pid, esp |-> pcb[s[n]].esp, next |-> proc]
      BY <2>1, <3>1, <3>2, <3>3 DEF PcbType
    <3>6. pcb'[proc] = filled[proc]
      BY <1>2, <2>1, <3>1, <3>2
    <3>7. \A p \in Frame : p # proc /\ p # s[n] => pcb'[p] = pcb[p]
      BY <2>1, <3>1, <3>2
    <3>8. QED BY <2>1, <2>4, <3>1, <3>4, <3>5, <3>6, <3>7
  <2>5. QED BY <2>3, <2>4
<1>9. /\ pcb'[proc].pid = pcb[proc].pid /\ pcb'[proc].next = NULL /\ pcb'[proc].esp = esp
      /\ \A p \in Pcbs(s) : pcb'[p].pid = pcb[p].pid /\ pcb'[p].esp = pcb[p].esp
      /\ n # 0 => pcb'[s[n]].next = proc
      /\ \A p \in Pcbs(s) : (n # 0 => p # s[n]) => pcb'[p].next = pcb[p].next
  <2>1. \A p \in Pcbs(s) : p \in Frame /\ p # proc
    BY <1>1, <1>6 DEF Pcbs
  <2>2. QED BY <1>8, <2>1
<1>10. Typed'
  <2>1. NULL \in Frame
    BY ProcessAssumption DEF NULL, Frame, PM!Frame
  <2>2. QED BY <1>8, <2>1 DEF Typed
<1>11. \A i, j \in 1 .. n : s[i] = s[j] => i = j
  BY ListLength DEF Threads
<1>12. Linked(t)'
  <2>1. ready_queue_head' = t[1]
    <3>1. CASE n = 0
      BY <1>3, <1>4, <3>1 DEF NewHead
    <3>2. CASE n # 0
      BY <1>1, <1>3, <1>4, <1>5, <3>2 DEF NewHead, Threads, Linked
    <3>3. QED BY <3>1, <3>2
  <2>2. ready_queue_tail' = t[Len(t)]
    BY <1>3 DEF NewTail
  <2>3. ASSUME NEW i \in 1 .. Len(t)
        PROVE  pcb'[t[i]].next = IF i = Len(t) THEN NULL ELSE t[i + 1]
    <3>1. CASE i = n + 1
      BY <1>3, <1>9, <3>1
    <3>2. CASE i = n /\ n # 0
      BY <1>1, <1>3, <1>9, <3>2
    <3>3. CASE i \in 1 .. n - 1
      <4>1. i \in 1 .. n /\ i + 1 \in 1 .. n /\ n \in 1 .. n /\ i # n
        BY <1>1, <3>3
      <4>2. s[i] # s[n]
        BY <1>11, <4>1
      <4>3. pcb'[s[i]].next = pcb[s[i]].next
        BY <1>1, <1>9, <4>1, <4>2
      <4>4. pcb[s[i]].next = s[i + 1]
        BY <4>1 DEF Threads, Linked
      <4>5. t[i] = s[i] /\ t[i + 1] = s[i + 1] /\ i # Len(t)
        BY <1>1, <1>3, <4>1
      <4>6. QED BY <4>3, <4>4, <4>5
    <3>4. QED BY <1>1, <1>3, <3>1, <3>2, <3>3
  <2>4. QED BY <1>3, <2>1, <2>2, <2>3 DEF Linked
<1>13. /\ \A i, j \in 1 .. n : i < j => pcb[s[i]].pid < pcb[s[j]].pid
       /\ \A i \in 1 .. n : pcb[s[i]].pid \in 1 .. next_pid - 1 /\ pcb[s[i]].pid < pcb[proc].pid
       /\ pcb[proc].pid = next_pid - 1 /\ next_pid > 1 /\ next_pid \in Nat
  BY <1>2 DEF Threads, PidsGrow, Typed
<1>14. /\ \A i \in 1 .. n : pcb'[t[i]].pid = pcb[s[i]].pid
       /\ pcb'[t[n + 1]].pid = next_pid - 1
  BY <1>1, <1>3, <1>9, <1>13
<1>15. PidsGrow(t)'
  <2>1. \A i \in 1 .. Len(t) : i \in 1 .. n \/ i = n + 1
    BY <1>1, <1>3
  <2>2. ASSUME NEW i \in 1 .. Len(t), NEW j \in 1 .. Len(t), i < j
        PROVE  pcb'[t[i]].pid < pcb'[t[j]].pid
    <3>1. i \in 1 .. n
      BY <1>1, <1>3, <2>2
    <3>2. QED BY <1>13, <1>14, <2>1, <2>2, <3>1
  <2>3. \A i \in 1 .. Len(t) : pcb'[t[i]].pid \in 1 .. next_pid - 1
    BY <1>13, <1>14, <2>1
  <2>4. QED BY <2>2, <2>3 DEF PidsGrow
<1>16. Pcbs(t)' = Pcbs(s) \cup {proc}
  <2>1. \A i \in 1 .. Len(t) : i \in 1 .. n \/ i = n + 1
    BY <1>1, <1>3
  <2>2. Pcbs(t)' \subseteq Pcbs(s) \cup {proc}
    BY <1>3, <2>1 DEF Pcbs
  <2>3. proc \in Pcbs(t)' /\ Pcbs(s) \subseteq Pcbs(t)'
    <3>1. n + 1 \in 1 .. Len(t) /\ \A i \in 1 .. n : i \in 1 .. Len(t)
      BY <1>1, <1>3
    <3>2. QED BY <1>3, <3>1 DEF Pcbs
  <2>4. QED BY <2>2, <2>3
<1>17. /\ \A p \in Pcbs(s) : StackFrame(p)' = StackFrame(p)
       /\ \A p \in {proc} : StackFrame(p)' = f
  BY <1>7, <1>9 DEF StackFrame, PM!FrameDown
<1>18. Stacks(t)' = Stacks(s) \cup {f}
  <2>1. Stacks(t)' = {StackFrame(p)' : p \in Pcbs(s) \cup {proc}}
    BY <1>16 DEF Stacks
  <2>2. QED BY <1>17, <2>1 DEF Stacks
<1>19. Apart(t)'
  <2>1. /\ Pcbs(s) \cup Stacks(s) \cup lost \cup {proc} \subseteq held
        /\ \A p, q \in Pcbs(s) : StackFrame(p) = StackFrame(q) => p = q
        /\ \A p \in Pcbs(s) : StackFrame(p) \in Stacks(s)
        /\ Pcbs(s) \cap Stacks(s) = {} /\ Pcbs(s) \cap lost = {}
        /\ proc \notin Pcbs(s) \cup Stacks(s) \cup lost
    BY <1>2 DEF Threads, Apart, Stacks
  <2>2. f \notin Pcbs(s) \cup Stacks(s) \cup lost \cup {proc}
    BY <2>1
  <2>3. \A p, q \in Pcbs(t)' : StackFrame(p)' = StackFrame(q)' => p = q
    BY <1>16, <1>17, <2>1, <2>2
  <2>4. NULL \notin Pcbs(t)' \cup Stacks(t)' \cup lost
    <3>1. NULL \notin held
      BY HeldFrames
    <3>2. QED BY <1>2, <1>16, <1>18, <2>1, <3>1
  <2>5. QED BY <1>16, <1>18, <2>1, <2>2, <2>3, <2>4 DEF Apart
<1>20. Accounted(t)'
  <2>1. Cardinality(lost) \in Nat
    BY FramesFinite, FS_Subset, FS_CardinalityType DEF Typed
  <2>2. next_pid - 1 = n + Cardinality(lost) + 1
    BY <1>2 DEF Threads, Accounted
  <2>3. QED BY <1>1, <1>3, <1>13, <2>1, <2>2 DEF Accounted
<1>21. Position(t)'
  BY DEF Position
<1>22. next_pid - 1 \in 1 .. MaxFrames
  <2>1. /\ next_pid - 1 <= Cardinality(held)
        /\ Cardinality(held) <= MaxFrames /\ Cardinality(held) \in Nat
    BY PidsFit
  <2>2. QED BY <1>13, <2>1, ProcessAssumption
<1>23. PidsOf(t)' = Append(PidsOf(s), next_pid - 1)
  <2>1. PidsOf(s) \in Seq(Nat) /\ Len(PidsOf(s)) = n
    BY <1>1, <1>13 DEF PidsOf
  <2>2. PidsOf(t)' = [i \in 1 .. n + 1 |-> pcb'[t[i]].pid]
    BY <1>3 DEF PidsOf
  <2>3. \A i \in 1 .. n : PidsOf(s)[i] = pcb[s[i]].pid
    BY DEF PidsOf
  <2>4. Append(PidsOf(s), next_pid - 1) =
          [i \in 1 .. n + 1 |-> IF i = n + 1 THEN next_pid - 1 ELSE PidsOf(s)[i]]
    BY <2>1
  <2>5. \A i \in 1 .. n + 1 : i \in 1 .. n \/ i = n + 1
    BY <1>1
  <2>6. QED BY <1>1, <1>14, <2>2, <2>3, <2>4, <2>5
<1>24. \A i \in 1 .. Len(s) : PidsOf(s)[i] < next_pid - 1
  BY <1>13 DEF PidsOf
<1>25. Extended(s)
  BY <1>3, <1>12, <1>15, <1>19, <1>20, <1>21, <1>22, <1>23, <1>24 DEF Threads, Extended
<1>26. OwnedBy(t)' = OwnedBy(s) \cup (held' \ held)
  <2>1. held' \ held = {f} /\ {proc'} \ {NULL} = {} /\ {proc} \ {NULL} = {proc}
    BY <1>2
  <2>2. QED BY <1>16, <1>18, <2>1 DEF OwnedBy
<1>27. Takes(s)
  BY <1>3, <1>12, <1>15, <1>19, <1>20, <1>21, <1>26 DEF Threads, Takes
<1>28. QED BY <1>10, <1>25, <1>27

LEMMA StackStep ==
  ASSUME NEW s, PP!OwnerInv, Typed, Threads(s), allocate_stack
  PROVE  PP!OwnerInv' /\ Typed' /\ Extended(s) /\ Takes(s)
<1>1. PP!OwnerInv' /\ held \subseteq held'
  BY AllocEffect DEF allocate_stack, Granted
<1>2. Pcbs(s) \cup Stacks(s) \cup lost \cup ({proc} \ {NULL}) \subseteq held'
  BY <1>1 DEF Threads, Apart
<1>3. /\ pc = "stack" /\ proc # NULL /\ proc \in Frame /\ proc \in held
      /\ s \in Seq(Frame \ {NULL}) /\ Len(s) \in Nat
  BY DEF allocate_stack, Threads, Position, Apart, Linked, Typed
\* Without a page for the stack the PCB is lost, and its pid with it.
<1>4. CASE /\ last'.page = PM!NULL
           /\ pc' = "idle" /\ proc' = NULL /\ lost' = lost \cup {proc} /\ UNCHANGED queuevars
  <2>1. /\ pcb' = pcb /\ ready_queue_head' = ready_queue_head /\ next_pid' = next_pid
        /\ ready_queue_tail' = ready_queue_tail
    BY <1>4 DEF queuevars
  <2>2. Typed'
    <3>1. NULL \in Frame
      BY ProcessAssumption DEF NULL, Frame, PM!Frame
    <3>2. QED BY <1>3, <1>4, <2>1, <3>1 DEF Typed
  <2>3. Linked(s)'
    BY <2>1 DEF Threads, Linked
  <2>4. PidsGrow(s)'
    BY <1>4, <2>1 DEF Threads, PidsGrow
  <2>5. /\ Pcbs(s)' = Pcbs(s) /\ Stacks(s)' = Stacks(s)
        /\ \A p : StackFrame(p)' = StackFrame(p)
    BY <2>1 DEF Pcbs, Stacks, StackFrame
  <2>6. Apart(s)'
    <3>1. /\ Pcbs(s) \cup Stacks(s) \cup lost \cup {proc} \subseteq held'
          /\ \A p, q \in Pcbs(s) : StackFrame(p) = StackFrame(q) => p = q
          /\ Pcbs(s) \cap Stacks(s) = {} /\ Pcbs(s) \cap lost = {}
          /\ proc \notin Pcbs(s) \cup Stacks(s) \cup lost
      BY <1>2, <1>3 DEF Threads, Apart
    <3>2. NULL \notin held'
      <4>1. NULL \notin held
        BY HeldFrames
      <4>2. held' = held \/ \E f \in Frame \ {NULL} : held' = held \cup {f}
        BY AllocEffect DEF allocate_stack, Granted
      <4>3. QED BY <4>1, <4>2
    <3>3. QED BY <1>4, <2>5, <3>1, <3>2 DEF Apart
  <2>7. Accounted(s)'
    <3>1. IsFiniteSet(lost) /\ Cardinality(lost) \in Nat
      BY FramesFinite, FS_Subset, FS_CardinalityType DEF Typed
    <3>2. proc \notin lost
      BY DEF Threads, Apart
    <3>3. Cardinality(lost \cup {proc}) = Cardinality(lost) + 1
      BY <3>1, <3>2, FS_AddElement
    <3>4. next_pid - 1 = Len(s) + Cardinality(lost) + 1
      BY <1>3 DEF Threads, Accounted
    <3>5. QED BY <1>3, <1>4, <2>1, <3>1, <3>3, <3>4 DEF Accounted
  <2>8. Position(s)'
    BY <1>4 DEF Position
  <2>9. PidsOf(s)' = PidsOf(s)
    BY <2>1 DEF PidsOf
  <2>10. Extended(s)
    BY <1>3, <2>3, <2>4, <2>6, <2>7, <2>8, <2>9 DEF Threads, Extended
  <2>11. OwnedBy(s)' = OwnedBy(s) \cup (held' \ held)
    <3>1. held' = held
      BY <1>4, NothingTaken DEF allocate_stack
    <3>2. {proc'} \ {NULL} = {} /\ {proc} \ {NULL} = {proc} /\ held' \ held = {}
      BY <1>3, <1>4, <3>1
    <3>3. QED BY <1>4, <2>5, <3>2 DEF OwnedBy
  <2>12. Takes(s)
    BY <1>3, <2>3, <2>4, <2>6, <2>7, <2>8, <2>11 DEF Threads, Takes
  <2>13. QED BY <1>1, <2>2, <2>10, <2>12
<1>5. CASE pc' = "fault" /\ UNCHANGED <<queuevars, proc, lost>>
  <2>1. Position(s)'
    BY <1>5 DEF Position
  <2>2. Extended(s)
    BY <1>2, <1>5, <2>1, ThreadsKept
  <2>3. Typed'
    BY <1>5 DEF Typed, queuevars
  <2>4. Takes(s)
    BY <1>5 DEF Takes
  <2>5. QED BY <1>1, <2>2, <2>3, <2>4
<1>6. CASE /\ last'.page # PM!NULL /\ pcb' = Enqueued(StackTop(last'.page))
           /\ ready_queue_head' = NewHead /\ ready_queue_tail' = NewTail
           /\ pc' = "idle" /\ proc' = NULL /\ UNCHANGED <<next_pid, lost>>
  <2>1. PICK f \in Frame \ {NULL} : f \notin held /\ Granted(f)
    BY <1>6, AllocEffect DEF allocate_stack
  <2>2. held' = held \cup {f} /\ pcb' = Enqueued(StackTop(PM!PageOf(f)))
    BY <1>6, <2>1 DEF Granted
  <2>3. QED BY <1>1, <1>3, <1>6, <2>1, <2>2, Enqueuing
<1>7. QED
  BY <1>4, <1>5, <1>6 DEF allocate_stack

\* What OwnedBy says of the list, Owned says of the links.
OwnedIsListed == \A s \in Seq(Frame \ {NULL}) : Threads(s) => Owned = OwnedBy(s)

LEMMA OwnedFrames == OwnedIsListed
<1> SUFFICES ASSUME NEW s \in Seq(Frame \ {NULL}), Threads(s) PROVE Owned = OwnedBy(s)
  BY DEF OwnedIsListed
<1>1. Queued = Pcbs(s)
  BY QueueIsList DEF Followed, Threads
<1>2. QED BY <1>1 DEF Owned, OwnedBy, Stacks

LEMMA OwnedFramesNext == OwnedIsListed'
BY OwnedFrames, PTL

\* A creation owns exactly what it took.
LEMMA PagesTaken ==
  ASSUME ProcessInv, allocate_pcb \/ allocate_stack, pc' # "fault"
  PROVE  ProcessInv' /\ Owned' = Owned \cup (held' \ held)
<1>1. PICK s \in Seq(Frame \ {NULL}) : Threads(s)
  BY DEF ProcessInv
<1>2. PP!OwnerInv' /\ Typed' /\ Extended(s) /\ Takes(s)
  BY <1>1, PcbStep, StackStep DEF ProcessInv
<1>3. PICK t \in Seq(Frame \ {NULL}) :
        Threads(t)' /\ OwnedBy(t)' = OwnedBy(s) \cup (held' \ held)
  BY <1>2 DEF Takes
<1>4. Owned = OwnedBy(s) /\ Owned' = OwnedBy(t)'
  BY <1>1, <1>3, OwnedFrames, OwnedFramesNext DEF OwnedIsListed
<1>5. QED BY <1>2, <1>3, <1>4 DEF ProcessInv

\* The names of the threads as long as no creation fails: 1, 2, ... in the order
\* of creation.  A creation that fails takes its pid with it.
LEMMA StartEmpty ==
  ASSUME ProcessInv, process_init
  PROVE  Queue' = <<>> /\ lost' = {}
<1>1. PICK s \in Seq(Frame \ {NULL}) : Threads(s)
  BY DEF ProcessInv
<1>2. s = <<>> /\ next_pid = 1 /\ lost = {}
  BY <1>1 DEF process_init, Threads, Position
<1>3. ready_queue_head = NULL /\ ready_queue_tail = NULL
  BY <1>1, <1>2 DEF Threads, Linked
<1>4. UNCHANGED <<pcb, ready_queue_head, lost>>
  BY <1>2, <1>3 DEF process_init
<1>5. Queue' = Queue
  BY <1>4 DEF Queue, Queued, Walk
<1>6. Queue = <<>>
  <2>1. Queue = [i \in 1 .. Len(s) |-> pcb[s[i]].pid]
    BY <1>1, QueueIsList DEF Followed, Threads
  <2>2. QED BY <1>2, <2>1
<1>7. QED BY <1>2, <1>4, <1>5, <1>6

LEMMA CreationGrows ==
  ASSUME ProcessInv, allocate_pcb \/ allocate_stack,
         NEW n \in Nat, Queue = [i \in 1 .. n |-> i]
  PROVE  /\ allocate_pcb \/ pc' = "fault" => Queue' = Queue /\ lost' = lost
         /\ allocate_stack /\ last'.page = NULL =>
              Queue' = Queue /\ Cardinality(lost') = Cardinality(lost) + 1
         /\ allocate_stack /\ last'.page # NULL /\ pc' # "fault" /\ Cardinality(lost) = 0 =>
              lost' = lost /\ Queue' = [i \in 1 .. n + 1 |-> i]
<1>1. PICK s \in Seq(Frame \ {NULL}) : Threads(s)
  BY DEF ProcessInv
<1>2. PP!OwnerInv' /\ Typed' /\ Extended(s)
  BY <1>1, PcbStep, StackStep DEF ProcessInv
<1>3. PICK t \in Seq(Frame \ {NULL}) :
        /\ Threads(t)'
        /\ \/ PidsOf(t)' = PidsOf(s)
           \/ \E pid \in 1 .. MaxFrames :
                /\ \A i \in 1 .. Len(s) : PidsOf(s)[i] < pid
                /\ PidsOf(t)' = Append(PidsOf(s), pid)
  BY <1>2 DEF Extended
<1>4. Queue = PidsOf(s) /\ Queue' = PidsOf(t)'
  BY <1>1, <1>3, QueueIsList, QueueIsListNext DEF Followed, Threads, PidsOf
<1>5. Len(s) = n /\ Len(t) \in Nat
  <2>1. DOMAIN PidsOf(s) = 1 .. Len(s) /\ DOMAIN PidsOf(s) = 1 .. n
    BY <1>4 DEF PidsOf
  <2>2. Len(s) \in Nat /\ Len(t) \in Nat
    OBVIOUS
  <2>3. QED BY <2>1, <2>2
<1>6. DOMAIN PidsOf(t)' = 1 .. Len(t) /\ DOMAIN PidsOf(s) = 1 .. n
  BY <1>5 DEF PidsOf
<1>7. /\ Queue' = Queue \/ Len(t) = n + 1
      /\ Len(t) = n => Queue' = Queue
      /\ Len(t) \in {n, n + 1}
  <2>1. CASE PidsOf(t)' = PidsOf(s)
    <3>1. 1 .. Len(t) = 1 .. n
      BY <1>6, <2>1
    <3>2. QED BY <1>4, <1>5, <2>1, <3>1
  <2>2. ASSUME NEW pid, PidsOf(t)' = Append(PidsOf(s), pid) PROVE Len(t) = n + 1
    <3>1. PidsOf(s) = [i \in 1 .. n |-> i] /\ PidsOf(s) \in Seq(Nat) /\ Len(PidsOf(s)) = n
      BY <1>4
    <3>2. DOMAIN PidsOf(t)' = 1 .. n + 1
      BY <2>2, <3>1
    <3>3. QED BY <1>5, <1>6, <3>2
  <2>3. QED BY <1>3, <1>5, <2>1, <2>2
<1>8. /\ next_pid - 1 = n + Cardinality(lost) + IF proc = NULL THEN 0 ELSE 1
      /\ next_pid' - 1 = Len(t) + Cardinality(lost') + IF proc' = NULL THEN 0 ELSE 1
  BY <1>1, <1>3, <1>5 DEF Threads, Accounted
<1>9. /\ IsFiniteSet(lost) /\ Cardinality(lost) \in Nat /\ Cardinality(lost') \in Nat
      /\ next_pid \in Nat /\ next_pid' \in Nat
  <2>1. lost \in SUBSET Frame /\ lost' \in SUBSET Frame /\ next_pid \in Nat /\ next_pid' \in Nat
    BY <1>2 DEF ProcessInv, Typed
  <2>2. QED BY <2>1, FramesFinite, FS_Subset, FS_CardinalityType
<1>10. /\ (pc = "idle" => proc = NULL) /\ (pc = "stack" => proc # NULL /\ proc \notin lost)
       /\ (pc' = "idle" => proc' = NULL) /\ (pc' = "stack" => proc' # NULL)
  BY <1>1, <1>3 DEF Threads, Position, Apart
<1>11. ASSUME allocate_pcb \/ pc' = "fault" PROVE Queue' = Queue /\ lost' = lost
  <2>1. /\ lost' = lost
        /\ \/ next_pid' = next_pid /\ proc' = proc
           \/ next_pid' = next_pid + 1 /\ proc = NULL /\ proc' # NULL
    BY <1>10, <1>11 DEF allocate_pcb, allocate_stack, queuevars, NextPid
  <2>2. QED BY <1>5, <1>7, <1>8, <1>9, <2>1
<1>12. ASSUME allocate_stack, last'.page = NULL
       PROVE  Queue' = Queue /\ Cardinality(lost') = Cardinality(lost) + 1
  <2>1. /\ lost' = lost \cup {proc} /\ proc' = NULL /\ next_pid' = next_pid
        /\ proc # NULL /\ proc \notin lost
    BY <1>10, <1>12 DEF allocate_stack, queuevars, PM!NULL, NULL
  <2>2. Cardinality(lost') = Cardinality(lost) + 1
    BY <1>9, <2>1, FS_AddElement
  <2>3. QED BY <1>5, <1>7, <1>8, <1>9, <2>1, <2>2
<1>13. ASSUME allocate_stack, last'.page # NULL, pc' # "fault", Cardinality(lost) = 0
       PROVE  lost' = lost /\ Queue' = [i \in 1 .. n + 1 |-> i]
  <2>1. lost' = lost /\ proc' = NULL /\ proc # NULL /\ next_pid' = next_pid
    BY <1>10, <1>13 DEF allocate_stack, PM!NULL, NULL
  <2>2. Len(t) = n + 1 /\ next_pid' - 1 = n + 1
    BY <1>5, <1>8, <1>9, <1>13, <2>1
  <2>3. PICK pid \in 1 .. MaxFrames :
          /\ \A i \in 1 .. n : PidsOf(s)[i] < pid
          /\ PidsOf(t)' = Append(PidsOf(s), pid)
    <3>1. PidsOf(t)' # PidsOf(s)
      <4>1. 1 .. n + 1 # 1 .. n
        <5>1. n + 1 \in 1 .. n + 1 /\ n + 1 \notin 1 .. n
          OBVIOUS
        <5>2. QED BY <5>1
      <4>2. QED BY <1>6, <2>2, <4>1
    <3>2. QED BY <1>3, <1>5, <3>1
  <2>4. pid = n + 1
    <3>1. PidsOf(s) = [i \in 1 .. n |-> i] /\ PidsOf(s) \in Seq(Nat) /\ Len(PidsOf(s)) = n
      BY <1>4
    <3>2. pid \in Nat /\ MaxFrames \in Nat /\ pid > n
      BY <2>3, <3>1, ProcessAssumption
    <3>3. PidsOf(t)'[n + 1] = pid
      BY <2>3, <3>1
    <3>4. PidsOf(t)'[n + 1] \in 1 .. n + 1
      BY <1>3, <2>2 DEF Threads, PidsGrow, PidsOf
    <3>5. QED BY <3>2, <3>3, <3>4
  <2>5. PidsOf(t)' = [i \in 1 .. n + 1 |-> i]
    BY <1>4, <2>3, <2>4
  <2>6. QED BY <1>4, <2>1, <2>5
<1>14. QED BY <1>11, <1>12, <1>13

\* Other clients take and return pages, but none that a thread owns.
LEMMA ClientStep ==
  ASSUME NEW s, PP!OwnerInv, Typed, Threads(s), ClientPmm
  PROVE  PP!OwnerInv' /\ Typed' /\ Extended(s)
<1>1. UNCHANGED <<queuevars, pc, proc, lost>>
  BY DEF ClientPmm
<1>2. Typed'
  BY <1>1 DEF Typed, queuevars
<1>3. Position(s)'
  BY <1>1 DEF Threads, Position, queuevars
<1>4. Owned = OwnedBy(s) /\ Owned \subseteq held
  BY OwnedFrames DEF OwnedIsListed, OwnedBy, Threads, Linked, Apart
<1>5. PP!OwnerInv' /\ Owned \subseteq held'
  <2>1. CASE PM!pmm_init
    <3>1. PP!pmm_init
      BY <2>1, SameInit
    <3>2. PP!OwnerInv'
      BY <3>1, Discharged, PP!InitStep, PP!OwnerInit DEF PP!OwnerInv
    <3>3. QED BY <1>4, <3>1, <3>2 DEF PP!pmm_init
  <2>2. CASE PM!pmm_alloc_page
    <3>1. PP!OwnerInv' /\ held \subseteq held'
      BY <2>2, AllocEffect DEF Granted
    <3>2. QED BY <1>4, <3>1
  <2>3. CASE \E frame \in held \ Owned : PM!pmm_free_page(PM!PageOf(frame))
    <3>1. PICK frame \in held \ Owned : PM!pmm_free_page(PM!PageOf(frame))
      BY <2>3
    <3>2. frame \in Frame \ {NULL} /\ PM!PageOf(frame) = PP!PageOf(frame)
      BY HeldFrames DEF PM!PageOf, PP!PageOf
    <3>3. PP!pmm_free_page(PP!PageOf(frame))
      BY <3>1, <3>2, SameFree
    <3>4. PP!FrameDown(PP!PageOf(frame)) = frame
      BY <3>2, PageNames DEF PM!FrameDown, PP!FrameDown
    <3>5. PP!PageOf(frame) \in PP!Address
      BY <3>2, Discharged, PP!PageAddress DEF Frame, PM!Frame, PP!Frame
    <3>6. PP!Owned(PP!PageOf(frame))
      BY <3>1, <3>4 DEF PP!Owned
    <3>7. PP!OwnerInv'
      BY <3>3, <3>5, <3>6, Discharged, PP!FreeStep, PP!OwnerFree DEF PP!OwnerInv
    <3>8. held \ {frame} \subseteq held'
      BY <3>3, <3>4 DEF PP!pmm_free_page, PP!Give
    <3>9. QED BY <1>4, <3>1, <3>7, <3>8
  <2>4. QED BY <2>1, <2>2, <2>3 DEF ClientPmm
<1>6. Extended(s)
  BY <1>1, <1>3, <1>4, <1>5, ThreadsKept DEF OwnedBy
<1>7. QED BY <1>2, <1>5, <1>6

LEMMA StutterStep ==
  ASSUME NEW s, PP!OwnerInv, Typed, Threads(s), UNCHANGED vars
  PROVE  PP!OwnerInv' /\ Typed' /\ Extended(s)
<1>1. UNCHANGED pmmvars /\ UNCHANGED <<queuevars, pc, proc, lost>>
  BY DEF vars
<1>2. PP!OwnerInv'
  BY <1>1, Discharged, PP!StutterStep
  DEF pmmvars, PP!vars, PP!OwnerInv, PP!Conservation, PP!Ready, PP!FreeFrames
<1>3. Typed' /\ Position(s)'
  BY <1>1 DEF Typed, queuevars, Threads, Position
<1>4. Pcbs(s) \cup Stacks(s) \cup lost \cup ({proc} \ {NULL}) \subseteq held'
  BY <1>1 DEF Threads, Apart, pmmvars
<1>5. QED BY <1>1, <1>2, <1>3, <1>4, ThreadsKept

LEMMA AnyStep ==
  ASSUME NEW s, PP!OwnerInv, Typed, Threads(s), [Next]_vars
  PROVE  PP!OwnerInv' /\ Typed' /\ Extended(s)
BY ClientStep, InitProcessStep, PcbStep, StackStep, StutterStep DEF Next

-----------------------------------------------------------------------------
(* The theorems.                                                           *)

\* The inductive invariant: whatever the clients of the allocator do and
\* wherever a creation fails, the links make a list.
THEOREM ProcessInvariance == Spec => []ProcessInv
<1>1. ProcessInv /\ [Next]_vars => ProcessInv'
  BY AnyStep DEF ProcessInv, Extended
<1>2. QED BY <1>1, ProcessInit, PTL DEF Spec

\* No page serves two threads or two purposes, and none of them is free
\* (process.c:58-71: both pages come straight from the allocator).
THEOREM ThreadPagesApart == Spec => []PagesApart
<1>1. ProcessInv => PagesApart
  <2> SUFFICES ASSUME PP!OwnerInv, NEW s \in Seq(Frame \ {NULL}), Threads(s)
               PROVE  PagesApart
    BY DEF ProcessInv
  <2>1. /\ Queued = Pcbs(s) /\ Cardinality(Queued) = Len(s)
        /\ IsFiniteSet(Pcbs(s)) /\ Len(s) \in Nat
    BY QueueIsList, ListLength DEF Followed, Threads
  <2>2. IsFiniteSet(Stacks(s)) /\ Cardinality(Stacks(s)) = Len(s)
    <3> DEFINE f == [p \in Pcbs(s) |-> StackFrame(p)]
    <3>1. f \in [Pcbs(s) -> Stacks(s)] /\ \A p \in Pcbs(s) : f[p] = StackFrame(p)
      BY DEF Stacks
    <3> HIDE DEF f
    <3>2. f \in Surjection(Pcbs(s), Stacks(s))
      BY <3>1 DEF Stacks, Surjection
    <3>3. f \in Injection(Pcbs(s), Stacks(s))
      BY <3>1 DEF Injection, IsInjective, Threads, Apart
    <3>4. QED BY <2>1, <3>2, <3>3, FS_Surjection
  <2>3. Cardinality(Pcbs(s) \cup Stacks(s)) = 2 * Cardinality(Queued)
    <3>1. Cardinality(Pcbs(s) \cup Stacks(s)) =
            Cardinality(Pcbs(s)) + Cardinality(Stacks(s)) - Cardinality(Pcbs(s) \cap Stacks(s))
      BY <2>1, <2>2, FS_Union
    <3>2. Cardinality(Pcbs(s) \cap Stacks(s)) = 0
      BY FS_EmptySet DEF Threads, Apart
    <3>3. QED BY <2>1, <2>2, <3>1, <3>2
  <2>4. Owned \subseteq held
    BY OwnedFrames DEF OwnedIsListed, OwnedBy, Threads, Apart
  <2>5. Queued \cup {StackFrame(p) : p \in Queued} = Pcbs(s) \cup Stacks(s)
    BY <2>1 DEF Stacks
  <2>6. PM!FreeFrames \cap held = {}
    BY HeldFrames
  <2>7. QED BY <2>3, <2>4, <2>5, <2>6 DEF PagesApart
<1>2. QED BY <1>1, ProcessInvariance, PTL

\* Every pid spent has a page that does not come back, so pids do not repeat
\* (process.c:47, 73).
THEOREM NoPidTwice == Spec => []PidsAccounted
<1>1. ProcessInv => PidsAccounted
  <2> SUFFICES ASSUME PP!OwnerInv, Typed, NEW s \in Seq(Frame \ {NULL}), Threads(s)
               PROVE  PidsAccounted
    BY DEF ProcessInv
  <2>1. Cardinality(Queued) = Len(s)
    BY QueueIsList DEF Followed, Threads
  <2>2. Cardinality({proc} \ {NULL}) = IF proc = NULL THEN 0 ELSE 1
    <3>1. CASE proc = NULL
      <4>1. {proc} \ {NULL} = {}
        BY <3>1
      <4>2. QED BY <3>1, <4>1, FS_EmptySet
    <3>2. CASE proc # NULL
      <4>1. {proc} \ {NULL} = {proc}
        BY <3>2
      <4>2. QED BY <3>2, <4>1, FS_Singleton
    <3>3. QED BY <3>1, <3>2
  <2>3. next_pid - 1 <= Cardinality(held)
    BY PidsFit
  <2>4. QED BY <2>1, <2>2, <2>3 DEF PidsAccounted, Threads, Accounted
<1>2. QED BY <1>1, ProcessInvariance, PTL

\* process.c implements the ready queue of process.h: a creation that succeeds
\* appends its thread in one step, and no other step is seen.
THEOREM ProcessRefinement == Spec => Implements
<1>1. Init => ThreadQueue!Init
  <2> SUFFICES ASSUME Init PROVE Queue = <<>>
    BY DEF ThreadQueue!Init
  <2>1. PICK s \in Seq(Frame \ {NULL}) : Threads(s)
    BY ProcessInit DEF ProcessInv
  <2>2. s = <<>>
    BY <2>1 DEF Init, Threads, Position
  <2>3. Queue = [i \in 1 .. Len(s) |-> pcb[s[i]].pid]
    BY <2>1, QueueIsList DEF Followed, Threads
  <2>4. QED BY <2>2, <2>3
<1>2. ProcessInv /\ [Next]_vars => [ThreadQueue!Enqueue]_Queue
  <2> SUFFICES ASSUME PP!OwnerInv, Typed, [Next]_vars,
                      NEW s \in Seq(Frame \ {NULL}), Threads(s)
               PROVE  [ThreadQueue!Enqueue]_Queue
    BY DEF ProcessInv
  <2>1. PICK t \in Seq(Frame \ {NULL}) :
          /\ Threads(t)'
          /\ \/ PidsOf(t)' = PidsOf(s)
             \/ \E pid \in 1 .. MaxFrames :
                  /\ \A i \in 1 .. Len(s) : PidsOf(s)[i] < pid
                  /\ PidsOf(t)' = Append(PidsOf(s), pid)
    BY AnyStep DEF Extended
  <2>2. Queue = PidsOf(s)
    BY QueueIsList DEF Followed, Threads, PidsOf
  <2>3. Queue' = PidsOf(t)'
    BY <2>1, QueueIsListNext DEF Followed, Threads, PidsOf
  <2>4. DOMAIN PidsOf(s) = 1 .. Len(s)
    BY DEF PidsOf
  <2>5. QED BY <2>1, <2>2, <2>3, <2>4 DEF ThreadQueue!Enqueue
<1>3. QED BY <1>1, <1>2, ProcessInvariance, PTL DEF Spec, Implements, ThreadQueue!Spec
=============================================================================
