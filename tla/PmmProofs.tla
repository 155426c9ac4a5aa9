------------------------------ MODULE PmmProofs ------------------------------
(***************************************************************************)
(* Proofs about Pmm for every number of frames, page size, kernel end and  *)
(* memory map: the counter, the hint and the reserved kernel are an        *)
(* inductive invariant under ANY client; from it follow first fit and the  *)
(* implementation of PageAllocator.  Under owning clients the frames in    *)
(* circulation are exactly the released ones, all of them available memory.*)
(***************************************************************************)
EXTENDS Pmm, FiniteSetTheorems, TLAPS

\* Its facts about numbers are about every operator.
Numbers == INSTANCE Folding WITH Op <- +

-----------------------------------------------------------------------------
(* Frames and addresses.                                                   *)

LEMMA FrameFinite ==
  /\ IsFiniteSet(Frame)
  /\ \A S \in SUBSET Frame : IsFiniteSet(S) /\ Cardinality(S) \in Nat
<1>1. IsFiniteSet(Frame)
  BY PmmAssumption, FS_Interval DEF Frame
<1>2. QED
  BY <1>1, FS_Subset, FS_CardinalityType

\* A page address names its frame, and only aligned addresses are page addresses.
LEMMA FrameOfPage ==
  ASSUME NEW f \in Nat
  PROVE  FrameDown(PageOf(f)) = f
BY PmmAssumption DEF FrameDown, PageOf

LEMMA PageOfFrame ==
  ASSUME NEW page \in Address
  PROVE  /\ FrameDown(page) \in Frame
         /\ page % PageSize = 0 => PageOf(FrameDown(page)) = page
BY PmmAssumption DEF FrameDown, PageOf, Address, Frame

LEMMA PageAddress ==
  ASSUME NEW f \in Frame
  PROVE  PageOf(f) \in Address /\ PageOf(f) % PageSize = 0
BY PmmAssumption DEF PageOf, Address, Frame

LEMMA PageInjective ==
  ASSUME NEW f \in Frame, NEW g \in Frame, PageOf(f) = PageOf(g)
  PROVE  f = g
BY FrameOfPage DEF Frame

LEMMA DivMonotone ==
  ASSUME NEW a \in Nat, NEW b \in Nat, a <= b
  PROVE  a \div PageSize <= b \div PageSize
BY PmmAssumption

LEMMA FrameUpMonotone ==
  ASSUME NEW a \in Nat, NEW b \in Nat, a <= b
  PROVE  FrameUp(a) <= FrameUp(b)
<1>1. /\ a + PageSize - 1 \in Nat /\ b + PageSize - 1 \in Nat
      /\ a + PageSize - 1 <= b + PageSize - 1
  BY PmmAssumption
<1>2. QED BY <1>1, DivMonotone DEF FrameUp

\* Rounding never loses the address it rounds.
LEMMA Rounding ==
  ASSUME NEW addr \in Nat, NEW f \in Nat
  PROVE  /\ FrameUp(addr) \in Nat /\ FrameDown(addr) \in Nat
         /\ FrameUp(addr) <= f => addr <= PageOf(f)
         /\ f < FrameDown(addr) => PageOf(f + 1) <= addr
BY PmmAssumption DEF FrameUp, FrameDown, PageOf

LEMMA KernelEndFrame == FrameUp(KernelEnd) \in 1 .. MaxFrames
BY PmmAssumption DEF FrameUp

\* The first-fit search is well defined: a set of frames has a lowest member.
LEMMA LowestIsLeast ==
  ASSUME NEW S \in SUBSET Nat, S # {}
  PROVE  /\ Lowest(S) \in S
         /\ \A g \in S : Lowest(S) <= g
BY Numbers!LeastExists DEF Lowest

LEMMA ReleasedFrames ==
  ASSUME NEW map \in MemoryMaps
  PROVE  /\ Released(map) \subseteq Frame
         /\ \A f \in Released(map) : f >= FrameUp(KernelEnd)
<1> SUFFICES ASSUME NEW i \in DOMAIN map, NEW f \in RegionFrames(map[i])
             PROVE  f \in Frame /\ f >= FrameUp(KernelEnd)
  BY DEF Released
<1>1. map[i] \in Region
  BY PmmAssumption
<1>2. RegionStart(map[i]) \in Nat /\ KernelEnd <= RegionStart(map[i])
  BY <1>1, PmmAssumption DEF RegionStart, Region
<1>3. FrameUp(KernelEnd) <= FrameUp(RegionStart(map[i]))
  <2>1. KernelEnd \in Nat
    BY PmmAssumption
  <2>2. QED BY <1>2, <2>1, FrameUpMonotone
<1>4. f \in Frame /\ FrameUp(RegionStart(map[i])) <= f
  BY DEF RegionFrames
<1>5. QED BY <1>2, <1>3, <1>4, KernelEndFrame, Rounding DEF Frame

-----------------------------------------------------------------------------
(* The invariant under any client.                                         *)


\* What keeps the parts together: the kernel's end is where the linker put it,
\* nothing below it is free, and the bitmap, the count and the hint agree.
PmmInv ==
  /\ TypeOK
  /\ CountExact
  /\ HintBelowFree
  /\ ClosedBeforeInit
  /\ Ready => /\ kernel_end_frame = FrameUp(KernelEnd)
              /\ \A f \in FreeFrames : kernel_end_frame <= f

LEMMA InitPmmInv == Init => PmmInv
<1> SUFFICES ASSUME Init PROVE PmmInv
  OBVIOUS
<1>1. TypeOK
  BY PmmAssumption DEF Init, TypeOK, Call, Address, NULL
<1>2. QED
  BY <1>1 DEF Init, PmmInv, CountExact, HintBelowFree, ClosedBeforeInit, Ready, FreeFrames

\* The scan finds exactly the free frames: the second loop adds nothing.
LEMMA CandidatesAreFree ==
  ASSUME PmmInv
  PROVE  Candidates = IF Ready THEN FreeFrames ELSE {}
<1>1. CASE ~Ready
  BY <1>1 DEF PmmInv, ClosedBeforeInit, Candidates
<1>2. CASE Ready
  <2>1. IsFiniteSet(FreeFrames) /\ pmm_free = Cardinality(FreeFrames)
    BY <1>2, FrameFinite DEF PmmInv, CountExact, FreeFrames
  <2>2. pmm_free = 0 <=> FreeFrames = {}
    BY <2>1, FS_EmptySet
  <2>3. Clear(pmm_next_free, MaxFrames) = FreeFrames
    BY <1>2, PmmAssumption DEF PmmInv, TypeOK, HintBelowFree, Clear, FreeFrames, Frame
  <2>4. QED BY <1>2, <2>2, <2>3 DEF Candidates
<1>3. QED BY <1>1, <1>2

LEMMA TakeEffect ==
  ASSUME TypeOK, NEW f \in FreeFrames, Take(f)
  PROVE  FreeFrames' = FreeFrames \ {f}
BY DEF TypeOK, Take, FreeFrames

LEMMA GiveEffect ==
  ASSUME TypeOK, NEW f \in Frame, Give(f)
  PROVE  FreeFrames' = FreeFrames \cup {f}
BY DEF TypeOK, Give, FreeFrames

\* An accepted page is a taken frame of its own at or after the kernel's end.
LEMMA AcceptedFrame ==
  ASSUME TypeOK, NEW page \in Address, Accepts(page)
  PROVE  /\ FrameDown(page) \in Frame \ FreeFrames
         /\ kernel_end_frame <= FrameDown(page)
         /\ PageOf(FrameDown(page)) = page
BY PageOfFrame DEF TypeOK, Accepts, FreeFrames

LEMMA InitStep == PmmInv /\ pmm_init => PmmInv'
<1> SUFFICES ASSUME PmmInv, pmm_init PROVE PmmInv'
  OBVIOUS
<1> DEFINE new == Released(mmap)
<1>1. new \subseteq Frame /\ \A f \in new : f >= FrameUp(KernelEnd)
  BY ReleasedFrames DEF PmmInv, TypeOK
<1>2. IsFiniteSet(new) /\ Cardinality(new) \in Nat
  BY <1>1, FrameFinite
<1>3. pmm_free = 0 /\ pmm_total \in Nat
  BY DEF PmmInv, TypeOK, ClosedBeforeInit, Ready, pmm_init
<1>4. FreeFrames' = new
  BY <1>1 DEF pmm_init, FreeFrames
<1>5. Ready' /\ kernel_end_frame' = FrameUp(KernelEnd) /\ pmm_next_free' = FrameUp(KernelEnd)
  BY KernelEndFrame DEF pmm_init, Ready
<1>6. TypeOK'
  <2>1. pmm_bitmap' \in [Frame -> {0, 1}]
    BY DEF pmm_init
  <2>2. pmm_free' \in Nat /\ pmm_total' \in Nat
    BY <1>2, <1>3 DEF pmm_init, Counted
  <2>3. kernel_end_frame' \in 0 .. MaxFrames /\ pmm_next_free' \in 0 .. MaxFrames
    BY <1>5, KernelEndFrame, PmmAssumption
  <2>4. last' \in [op : {"boot", "init", "alloc", "free"}, page : Address]
    BY PmmAssumption DEF pmm_init, Call, NULL, Address
  <2>5. mmap' \in MemoryMaps /\ held' \in SUBSET Frame
    BY DEF pmm_init, PmmInv, TypeOK
  <2>6. QED BY <2>1, <2>2, <2>3, <2>4, <2>5 DEF TypeOK
<1>7. CountExact'
  BY <1>2, <1>3, <1>4 DEF CountExact, pmm_init, Counted
<1>8. HintBelowFree' /\ \A f \in FreeFrames' : kernel_end_frame' <= f
  BY <1>1, <1>4, <1>5, KernelEndFrame DEF HintBelowFree, Frame
<1>9. ClosedBeforeInit'
  BY <1>5 DEF ClosedBeforeInit
<1>10. QED BY <1>5, <1>6, <1>7, <1>8, <1>9 DEF PmmInv

LEMMA AllocStep == PmmInv /\ pmm_alloc_page => PmmInv'
<1> SUFFICES ASSUME PmmInv, pmm_alloc_page PROVE PmmInv'
  OBVIOUS
<1>1. CASE Candidates = {}
  <2>1. last' \in [op : {"boot", "init", "alloc", "free"}, page : Address]
    BY <1>1, PmmAssumption DEF pmm_alloc_page, Call, NULL, Address
  <2>2. UNCHANGED <<mmap, pmm_bitmap, pmm_total, pmm_free, kernel_end_frame, pmm_next_free, held>>
    BY <1>1 DEF pmm_alloc_page
  <2>3. QED
    BY <2>1, <2>2 DEF PmmInv, TypeOK, CountExact, HintBelowFree, ClosedBeforeInit,
                      Ready, FreeFrames
<1>2. CASE Candidates # {}
  <2> DEFINE f == Lowest(Candidates)
  <2>1. Ready /\ Candidates = FreeFrames
    BY <1>2, CandidatesAreFree
  <2>2. f \in FreeFrames /\ \A g \in FreeFrames : f <= g
    BY <1>2, <2>1, LowestIsLeast DEF FreeFrames, Frame
  <2>3. Take(f) /\ last' = Call("alloc", PageOf(f))
        /\ UNCHANGED <<mmap, pmm_total, kernel_end_frame>>
    BY <1>2 DEF pmm_alloc_page
  <2> HIDE DEF f
  <2>4. FreeFrames' = FreeFrames \ {f} /\ f \in Frame
    BY <2>2, <2>3, TakeEffect DEF PmmInv, FreeFrames
  <2>5. /\ pmm_free' = Cardinality(FreeFrames')
        /\ pmm_free' \in Nat
    <3>1. IsFiniteSet(FreeFrames) /\ pmm_free = Cardinality(FreeFrames)
      BY <2>1, FrameFinite DEF PmmInv, CountExact, FreeFrames
    <3>2. Cardinality(FreeFrames \ {f}) = Cardinality(FreeFrames) - 1
      BY <2>2, <3>1, FS_RemoveElement
    <3>3. IsFiniteSet(FreeFrames') /\ Cardinality(FreeFrames') \in Nat
      BY <2>4, <3>1, FS_RemoveElement, FS_CardinalityType
    <3>4. QED BY <2>3, <2>4, <3>1, <3>2, <3>3 DEF Take
  <2>6. TypeOK'
    <3>1. pmm_bitmap' \in [Frame -> {0, 1}] /\ held' \in SUBSET Frame
      BY <2>3, <2>4 DEF PmmInv, TypeOK, Take
    <3>2. pmm_next_free' \in 0 .. MaxFrames
      BY <2>3, <2>4, PmmAssumption DEF Take, Frame
    <3>3. last' \in [op : {"boot", "init", "alloc", "free"}, page : Address]
      BY <2>3, <2>4, PageAddress DEF Call
    <3>4. QED BY <2>3, <2>5, <3>1, <3>2, <3>3 DEF PmmInv, TypeOK
  <2>7. HintBelowFree'
    BY <2>2, <2>3, <2>4 DEF HintBelowFree, Take, FreeFrames, Frame
  <2>8. QED
    BY <2>1, <2>3, <2>4, <2>5, <2>6, <2>7
    DEF PmmInv, CountExact, ClosedBeforeInit, Ready
<1>3. QED BY <1>1, <1>2

LEMMA FreeStep == ASSUME NEW page \in Address
                  PROVE  PmmInv /\ pmm_free_page(page) => PmmInv'
<1> SUFFICES ASSUME PmmInv, pmm_free_page(page) PROVE PmmInv'
  OBVIOUS
<1>1. last' \in [op : {"boot", "init", "alloc", "free"}, page : Address]
  BY DEF pmm_free_page, Call
<1>2. CASE ~Accepts(page)
  BY <1>1, <1>2 DEF pmm_free_page, PmmInv, TypeOK, CountExact, HintBelowFree,
                    ClosedBeforeInit, Ready, FreeFrames
<1>3. CASE Accepts(page)
  <2> DEFINE f == FrameDown(page)
  <2>1. f \in Frame \ FreeFrames /\ kernel_end_frame <= f
    BY <1>3, AcceptedFrame DEF PmmInv
  <2>2. Give(f) /\ UNCHANGED <<mmap, pmm_total, kernel_end_frame>>
    BY <1>3 DEF pmm_free_page
  <2> HIDE DEF f
  <2>3. Ready
    BY <2>1 DEF PmmInv, ClosedBeforeInit
  <2>4. FreeFrames' = FreeFrames \cup {f}
    BY <2>1, <2>2, GiveEffect DEF PmmInv
  <2>5. /\ pmm_free' = Cardinality(FreeFrames')
        /\ pmm_free' \in Nat
    <3>1. IsFiniteSet(FreeFrames) /\ pmm_free = Cardinality(FreeFrames)
      BY <2>3, FrameFinite DEF PmmInv, CountExact, FreeFrames
    <3>2. Cardinality(FreeFrames \cup {f}) = Cardinality(FreeFrames) + 1
      BY <2>1, <3>1, FS_AddElement
    <3>3. pmm_free \in Nat
      BY DEF PmmInv, TypeOK
    <3>4. QED BY <2>2, <2>4, <3>1, <3>2, <3>3 DEF Give
  <2>6. TypeOK'
    <3>1. pmm_bitmap' \in [Frame -> {0, 1}] /\ held' \in SUBSET Frame
      BY <2>1, <2>2 DEF PmmInv, TypeOK, Give
    <3>2. pmm_next_free' \in 0 .. MaxFrames
      BY <2>1, <2>2, PmmAssumption DEF PmmInv, TypeOK, Give, Frame
    <3>3. QED BY <1>1, <2>2, <2>5, <3>1, <3>2 DEF PmmInv, TypeOK
  <2>7. HintBelowFree'
    BY <2>1, <2>2, <2>3, <2>4 DEF PmmInv, TypeOK, HintBelowFree, Give, FreeFrames, Frame
  <2>8. QED
    BY <2>1, <2>2, <2>3, <2>4, <2>5, <2>6, <2>7
    DEF PmmInv, CountExact, ClosedBeforeInit, Ready
<1>4. QED BY <1>2, <1>3

LEMMA StutterStep == PmmInv /\ UNCHANGED vars => PmmInv'
BY DEF vars, PmmInv, TypeOK, CountExact, HintBelowFree, ClosedBeforeInit, Ready, FreeFrames

\* The inductive invariant, whatever the clients do.
THEOREM Invariance == Spec => []PmmInv
<1>1. PmmInv /\ [Next]_vars => PmmInv'
  BY InitStep, AllocStep, FreeStep, StutterStep DEF Next
<1>2. QED BY InitPmmInv, <1>1, PTL DEF Spec

\* TypeOK, CountExact, HintBelowFree and ClosedBeforeInit are conjuncts of it.
THEOREM TypeCorrect == Spec => []TypeOK
BY Invariance, PTL DEF PmmInv

\* pmm_free counts the clear bits after every sequence of calls.
THEOREM CountIsExact == Spec => []CountExact
BY Invariance, PTL DEF PmmInv

\* No free frame lies below the hint.
THEOREM HintIsSafe == Spec => []HintBelowFree
BY Invariance, PTL DEF PmmInv

\* The zeroed bitmap of .bss is never served.
THEOREM ClosedAtBoot == Spec => []ClosedBeforeInit
BY Invariance, PTL DEF PmmInv

\* No free frame holds a byte of the kernel image.
THEOREM KernelIsReserved == Spec => []KernelReserved
<1>1. PmmInv => KernelReserved
  <2> SUFFICES ASSUME PmmInv, Ready, NEW f \in FreeFrames
               PROVE  PageOf(f) >= KernelEnd
    BY DEF KernelReserved
  <2>1. FrameUp(KernelEnd) <= f /\ f \in Nat
    BY DEF PmmInv, FreeFrames, Frame
  <2>2. KernelEnd \in Nat /\ PageOf(f) \in Int
    BY <2>1, PmmAssumption DEF PageOf
  <2>3. QED BY <2>1, <2>2, Rounding
<1>2. QED BY Invariance, <1>1, PTL
-----------------------------------------------------------------------------
(* Action properties under any client.                                     *)

\* An allocation takes the lowest free page and nothing else.
THEOREM FirstFit == Spec => AllocFirstFit
<1> DEFINE A == pmm_free' < pmm_free =>
                  /\ FreeFrames' = FreeFrames \ {Lowest(FreeFrames)}
                  /\ last'.page = PageOf(Lowest(FreeFrames))
<1>1. ASSUME PmmInv, pmm_init PROVE A
  <2>1. pmm_free = 0 /\ Cardinality(Released(mmap)) \in Nat
    BY <1>1, ReleasedFrames, FrameFinite
    DEF PmmInv, TypeOK, ClosedBeforeInit, Ready, pmm_init
  <2>2. QED BY <1>1, <2>1 DEF pmm_init, Counted
<1>2. ASSUME PmmInv, pmm_alloc_page PROVE A
  <2>1. CASE Candidates = {}
    BY <1>2, <2>1 DEF pmm_alloc_page, PmmInv, TypeOK
  <2>2. CASE Candidates # {}
    <3>1. Candidates = FreeFrames
      BY <1>2, <2>2, CandidatesAreFree
    <3>2. Lowest(FreeFrames) \in FreeFrames
      BY <2>2, <3>1, LowestIsLeast DEF FreeFrames, Frame
    <3>3. Take(Lowest(FreeFrames)) /\ last' = Call("alloc", PageOf(Lowest(FreeFrames)))
      BY <1>2, <2>2, <3>1 DEF pmm_alloc_page
    <3>4. QED BY <1>2, <3>2, <3>3, TakeEffect DEF PmmInv, Call
  <2>3. QED BY <2>1, <2>2
<1>3. ASSUME PmmInv, NEW page \in Address, pmm_free_page(page) PROVE A
  BY <1>3 DEF PmmInv, TypeOK, pmm_free_page, Give
<1>4. PmmInv /\ UNCHANGED vars => A
  BY DEF vars, PmmInv, TypeOK
<1>5. PmmInv /\ [Next]_vars => [A]_vars
  BY <1>1, <1>2, <1>3, <1>4 DEF Next
<1>6. QED BY Invariance, <1>5, PTL DEF Spec, AllocFirstFit

-----------------------------------------------------------------------------
(* Pmm implements PageAllocator.                                           *)

Managed == {PageOf(f) : f \in {g \in Frame : g >= kernel_end_frame}}
Avail   == {PageOf(f) : f \in FreeFrames}

LEMMA AvailWithout ==
  ASSUME NEW S \in SUBSET Frame, NEW f \in S
  PROVE  /\ {PageOf(g) : g \in S \ {f}} = {PageOf(g) : g \in S} \ {PageOf(f)}
         /\ PageOf(f) \in {PageOf(g) : g \in S}
BY PageInjective

LEMMA AvailWith ==
  ASSUME NEW S, NEW f
  PROVE  {PageOf(g) : g \in S \cup {f}} = {PageOf(g) : g \in S} \cup {PageOf(f)}
OBVIOUS

\* A page the allocator ignores is unmanaged, or is available already.
LEMMA IgnoredPage ==
  ASSUME PmmInv, Ready, NEW page \in Address, ~Accepts(page)
  PROVE  Avail \cup ({page} \cap Managed) = Avail
<1> SUFFICES ASSUME page \in Managed PROVE page \in Avail
  OBVIOUS
<1>1. PICK f \in Frame : f >= kernel_end_frame /\ page = PageOf(f)
  BY DEF Managed
<1>2. FrameDown(page) = f /\ page % PageSize = 0
  BY <1>1, FrameOfPage, PageAddress DEF Frame
<1>3. page # NULL
  BY <1>1, KernelEndFrame, PmmAssumption DEF PmmInv, PageOf, NULL, Frame
<1>4. pmm_bitmap[f] # 1
  BY <1>1, <1>2, <1>3 DEF Accepts
<1>5. f \in FreeFrames
  BY <1>4 DEF PmmInv, TypeOK, FreeFrames
<1>6. QED BY <1>1, <1>5 DEF Avail

LEMMA InitMapped == ASSUME PmmInv, pmm_init PROVE Allocator!Setup
<1>1. ~Ready /\ Ready' /\ last' = Call("init", NULL)
  BY KernelEndFrame DEF pmm_init, Ready
<1>2. Managed' \subseteq Address
  BY PageAddress DEF Managed
<1>3. Avail' \subseteq Managed'
  <2>1. FreeFrames' \subseteq {g \in Frame : g >= kernel_end_frame'}
    BY <1>1, InitStep DEF PmmInv, FreeFrames
  <2>2. QED BY <2>1 DEF Managed, Avail
<1>4. QED BY <1>1, <1>2, <1>3 DEF Allocator!Setup, Allocator!Call, Call, Managed, Avail

LEMMA AllocMapped == ASSUME PmmInv, pmm_alloc_page PROVE Allocator!Allocate
<1>1. Ready' = Ready /\ kernel_end_frame' = kernel_end_frame
  BY DEF pmm_alloc_page, Ready
<1>2. CASE Candidates = {}
  <2>1. Ready => Avail = {}
    BY <1>2, CandidatesAreFree DEF Avail
  <2>2. FreeFrames' = FreeFrames /\ last' = Call("alloc", NULL)
    BY <1>2 DEF pmm_alloc_page, FreeFrames
  <2>3. QED BY <1>1, <2>1, <2>2 DEF Allocator!Allocate, Allocator!Call, Call, Avail
<1>3. CASE Candidates # {}
  <2> DEFINE f == Lowest(Candidates)
  <2>1. Ready /\ f \in FreeFrames
    BY <1>3, CandidatesAreFree, LowestIsLeast DEF FreeFrames, Frame
  <2>2. Take(f) /\ last' = Call("alloc", PageOf(f))
    BY <1>3 DEF pmm_alloc_page
  <2> HIDE DEF f
  <2>3. FreeFrames' = FreeFrames \ {f}
    BY <2>1, <2>2, TakeEffect DEF PmmInv
  <2>4. Avail' = Avail \ {PageOf(f)} /\ PageOf(f) \in Avail
    BY <2>1, <2>3, AvailWithout DEF Avail, FreeFrames
  <2>5. QED
    BY <1>1, <2>1, <2>2, <2>4 DEF Allocator!Allocate, Allocator!Call, Call, Avail
<1>4. QED BY <1>2, <1>3

LEMMA FreeMapped ==
  ASSUME PmmInv, NEW page \in Address, pmm_free_page(page)
  PROVE  Allocator!Release(page)
<1>1. Ready' = Ready /\ kernel_end_frame' = kernel_end_frame /\ last' = Call("free", page)
  BY DEF pmm_free_page, Ready
<1>2. CASE ~Ready
  BY <1>1, <1>2 DEF Allocator!Release, Allocator!Call, Call
<1>3. CASE Ready
  <2>1. Avail' = Avail \cup ({page} \cap Managed)
    <3>1. CASE Accepts(page)
      <4>1. FrameDown(page) \in Frame /\ kernel_end_frame <= FrameDown(page)
            /\ PageOf(FrameDown(page)) = page
        BY <3>1, AcceptedFrame DEF PmmInv
      <4>2. page \in Managed
        BY <4>1 DEF Managed, Frame, PmmInv, TypeOK
      <4>3. FreeFrames' = FreeFrames \cup {FrameDown(page)}
        BY <3>1, <4>1, GiveEffect DEF PmmInv, pmm_free_page
      <4>4. Avail' = Avail \cup {page}
        BY <4>1, <4>3, AvailWith DEF Avail
      <4>5. QED BY <4>2, <4>4
    <3>2. CASE ~Accepts(page)
      <4>1. FreeFrames' = FreeFrames
        BY <3>2 DEF pmm_free_page, FreeFrames
      <4>2. QED BY <1>3, <3>2, <4>1, IgnoredPage DEF Avail
    <3>3. QED BY <3>1, <3>2
  <2>2. QED
    BY <1>1, <1>3, <2>1 DEF Allocator!Release, Allocator!Call, Call, Managed, Avail
<1>4. QED BY <1>2, <1>3

\* Every behaviour of pmm.c is one that pmm.h allows.
THEOREM Refinement == Spec => Implements
<1>1. Init => Allocator!Init
  BY DEF Init, Allocator!Init, Allocator!Call, Call, Ready
<1>2. PmmInv /\ [Next]_vars => [Allocator!Next]_(Allocator!avars)
  <2> SUFFICES ASSUME PmmInv, [Next]_vars
               PROVE  [Allocator!Next]_(Allocator!avars)
    OBVIOUS
  <2>1. CASE pmm_init
    BY <2>1, InitMapped DEF Allocator!Next
  <2>2. CASE pmm_alloc_page
    BY <2>2, AllocMapped DEF Allocator!Next
  <2>3. CASE \E page \in Address : pmm_free_page(page)
    BY <2>3, FreeMapped DEF Allocator!Next
  <2>4. CASE UNCHANGED vars
    BY <2>4 DEF vars, Allocator!avars, Ready, FreeFrames
  <2>5. QED BY <2>1, <2>2, <2>3, <2>4 DEF Next
<1>3. QED BY Invariance, <1>1, <1>2, PTL DEF Spec, Implements, Allocator!Spec
-----------------------------------------------------------------------------
(* Owning clients: the released frames are shared out exactly.             *)

OwnerInv == PmmInv /\ Conservation

LEMMA OwnerInit == PmmInv /\ pmm_init => Conservation'
<1> SUFFICES ASSUME PmmInv, pmm_init PROVE Conservation'
  OBVIOUS
<1> DEFINE new == Released(mmap)
<1>1. new \subseteq Frame /\ IsFiniteSet(new) /\ Cardinality(new) \in Nat
  BY ReleasedFrames, FrameFinite DEF PmmInv, TypeOK
<1>2. pmm_total = 0 /\ pmm_free = 0 /\ held = {}
  BY DEF PmmInv, ClosedBeforeInit, Ready, pmm_init
<1>3. FreeFrames' = new /\ held' = {} /\ mmap' = mmap
  BY <1>1, <1>2 DEF pmm_init, FreeFrames
<1>4. pmm_free' + Cardinality(held') = pmm_total'
  BY <1>1, <1>2, <1>3, FS_EmptySet DEF pmm_init, Counted
<1>5. QED BY <1>3, <1>4 DEF Conservation

LEMMA OwnerAlloc == OwnerInv /\ pmm_alloc_page => Conservation'
<1> SUFFICES ASSUME OwnerInv, pmm_alloc_page PROVE Conservation'
  OBVIOUS
<1>1. CASE Candidates = {}
  BY <1>1 DEF pmm_alloc_page, OwnerInv, Conservation, Ready, FreeFrames
<1>2. CASE Candidates # {}
  <2> DEFINE f == Lowest(Candidates)
  <2>1. Ready /\ f \in FreeFrames
    BY <1>2, CandidatesAreFree, LowestIsLeast DEF OwnerInv, FreeFrames, Frame
  <2>2. Take(f) /\ UNCHANGED <<mmap, pmm_total, kernel_end_frame>>
    BY <1>2 DEF pmm_alloc_page
  <2> HIDE DEF f
  <2>3. FreeFrames' = FreeFrames \ {f} /\ held' = held \cup {f} /\ f \notin held
    BY <2>1, <2>2, TakeEffect DEF OwnerInv, PmmInv, Conservation, Take
  <2>4. IsFiniteSet(held) /\ Cardinality(held) \in Nat
    BY FrameFinite DEF OwnerInv, PmmInv, TypeOK
  <2>5. Cardinality(held') = Cardinality(held) + 1
    BY <2>3, <2>4, FS_AddElement
  <2>6. pmm_free' + Cardinality(held') = pmm_total'
    BY <2>1, <2>2, <2>4, <2>5 DEF OwnerInv, PmmInv, TypeOK, Conservation, Take
  <2>7. QED BY <2>1, <2>2, <2>3, <2>6 DEF OwnerInv, Conservation
<1>3. QED BY <1>1, <1>2

LEMMA OwnerFree ==
  ASSUME NEW page \in Address, Owned(page)
  PROVE  OwnerInv /\ pmm_free_page(page) => Conservation'
<1> SUFFICES ASSUME OwnerInv, pmm_free_page(page) PROVE Conservation'
  OBVIOUS
<1>1. CASE ~Accepts(page)
  BY <1>1 DEF pmm_free_page, OwnerInv, Conservation, Ready, FreeFrames
<1>2. CASE Accepts(page)
  <2> DEFINE f == FrameDown(page)
  <2>1. f \in Frame /\ f \in held
    BY <1>2, AcceptedFrame DEF Owned, OwnerInv, PmmInv
  <2>2. Give(f) /\ UNCHANGED <<mmap, pmm_total, kernel_end_frame>>
    BY <1>2 DEF pmm_free_page
  <2> HIDE DEF f
  <2>3. Ready
    BY <2>1 DEF OwnerInv, PmmInv, ClosedBeforeInit
  <2>4. FreeFrames' = FreeFrames \cup {f} /\ held' = held \ {f}
    BY <2>1, <2>2, GiveEffect DEF OwnerInv, PmmInv, Give
  <2>5. IsFiniteSet(held) /\ Cardinality(held) \in Nat
    BY FrameFinite DEF OwnerInv, PmmInv, TypeOK
  <2>6. Cardinality(held') = Cardinality(held) - 1
    BY <2>1, <2>4, <2>5, FS_RemoveElement
  <2>7. pmm_free' + Cardinality(held') = pmm_total'
    BY <2>2, <2>3, <2>5, <2>6 DEF OwnerInv, PmmInv, TypeOK, Conservation, Give
  <2>8. QED BY <2>1, <2>2, <2>3, <2>4, <2>7 DEF OwnerInv, Conservation
<1>3. QED BY <1>1, <1>2

\* First fit under owning clients: as long as nothing is freed out of order the
\* frames held are the lowest released ones, and an allocation takes the next.
LowestHeld == \A f \in held, g \in Released(mmap) : g < f => g \in held

TakesNext(f) ==
  /\ f \in Released(mmap) /\ held' = held \cup {f}
  /\ last'.page = PageOf(f)
  /\ Cardinality({g \in Released(mmap) : g < f}) = Cardinality(held)
  /\ Cardinality(held') = Cardinality(held) + 1

LEMMA AllocNext ==
  ASSUME OwnerInv, LowestHeld, pmm_alloc_page
  PROVE  /\ UNCHANGED <<mmap, pmm_total>> /\ LowestHeld'
         /\ \/ Cardinality(held) = pmm_total /\ held' = held /\ last'.page = NULL
            \/ Cardinality(held) < pmm_total /\ \E f \in Frame : TakesNext(f)
<1>1. UNCHANGED <<mmap, pmm_total>>
  BY DEF pmm_alloc_page
<1>2. IsFiniteSet(held) /\ Cardinality(held) \in Nat /\ pmm_total \in Nat /\ pmm_free \in Nat
  BY FrameFinite DEF OwnerInv, PmmInv, TypeOK
<1>3. IsFiniteSet(FreeFrames) /\ FreeFrames \subseteq Frame
  BY FrameFinite DEF FreeFrames
<1>4. CASE Candidates = {}
  <2>1. held' = held /\ last'.page = NULL
    BY <1>4 DEF pmm_alloc_page, Call
  <2>2. Cardinality(held) = pmm_total
    <3>1. CASE ~Ready
      BY <3>1, FS_EmptySet DEF OwnerInv, PmmInv, ClosedBeforeInit
    <3>2. CASE Ready
      <4>1. FreeFrames = {}
        BY <1>4, <3>2, CandidatesAreFree DEF OwnerInv
      <4>2. pmm_free = 0
        BY <3>2, <4>1, FS_EmptySet DEF OwnerInv, PmmInv, CountExact
      <4>3. QED BY <1>2, <3>2, <4>2 DEF OwnerInv, Conservation
    <3>3. QED BY <3>1, <3>2
  <2>3. QED BY <1>1, <2>1, <2>2 DEF LowestHeld
<1>5. CASE Candidates # {}
  <2>1. Ready /\ Candidates = FreeFrames
    BY <1>5, CandidatesAreFree DEF OwnerInv
  <2>2. PICK f \in FreeFrames :
          /\ \A g \in FreeFrames : f <= g
          /\ Take(f) /\ last' = Call("alloc", PageOf(f))
    <3>1. FreeFrames \in SUBSET Nat /\ FreeFrames # {}
      BY <1>3, <1>5, <2>1 DEF Frame
    <3>2. Lowest(FreeFrames) \in FreeFrames /\ \A g \in FreeFrames : Lowest(FreeFrames) <= g
      BY <3>1, LowestIsLeast
    <3>3. QED BY <1>5, <2>1, <3>2 DEF pmm_alloc_page
  <2>3. /\ FreeFrames \cap held = {} /\ FreeFrames \cup held = Released(mmap)
        /\ pmm_free + Cardinality(held) = pmm_total
    BY <2>1 DEF OwnerInv, Conservation
  <2>4. held \subseteq Nat /\ FreeFrames \subseteq Nat
    BY <1>3 DEF OwnerInv, PmmInv, TypeOK, Frame
  <2>5. held' = held \cup {f} /\ last'.page = PageOf(f)
    BY <2>2 DEF Take, Call
  <2>6. {g \in Released(mmap) : g < f} = held
    <3>1. ASSUME NEW g \in Released(mmap), g < f PROVE g \in held
      <4>1. g \in FreeFrames \cup held
        BY <2>3
      <4>2. ASSUME g \in FreeFrames PROVE FALSE
        <5>1. f <= g /\ f \in Nat /\ g \in Nat
          BY <2>2, <2>4, <4>2
        <5>2. QED BY <3>1, <5>1
      <4>3. QED BY <4>1, <4>2
    <3>2. ASSUME NEW g \in held PROVE g < f
      BY <2>2, <2>3, <2>4, <3>2 DEF LowestHeld
    <3>3. QED BY <2>3, <3>1, <3>2
  <2>7. LowestHeld'
    BY <1>1, <2>3, <2>4, <2>5, <2>6 DEF LowestHeld
  <2>8. Cardinality(held') = Cardinality(held) + 1
    BY <1>2, <2>2, <2>3, <2>5, FS_AddElement
  <2>9. Cardinality(held) < pmm_total
    <3>1. Cardinality(FreeFrames) # 0
      BY <1>3, <2>2, FS_EmptySet
    <3>2. QED BY <1>2, <2>1, <2>3, <3>1 DEF OwnerInv, PmmInv, CountExact
  <2>10. QED BY <1>1, <1>3, <2>2, <2>3, <2>5, <2>6, <2>7, <2>8, <2>9 DEF TakesNext
<1>6. QED BY <1>4, <1>5

LEMMA OwnerInvariance == OwnerSpec => []OwnerInv
<1>1. Init => OwnerInv
  BY InitPmmInv DEF Init, OwnerInv, Conservation, Ready
<1>2. OwnerInv /\ [OwnerNext]_vars => PmmInv'
  BY InitStep, AllocStep, FreeStep, StutterStep DEF OwnerNext, OwnerInv
<1>3. OwnerInv /\ [OwnerNext]_vars => Conservation'
  <2> SUFFICES ASSUME OwnerInv, [OwnerNext]_vars PROVE Conservation'
    OBVIOUS
  <2>1. CASE UNCHANGED vars
    BY <2>1 DEF vars, OwnerInv, Conservation, Ready, FreeFrames
  <2>2. QED
    BY <2>1, OwnerInit, OwnerAlloc, OwnerFree DEF OwnerNext, OwnerInv
<1>4. QED BY <1>1, <1>2, <1>3, PTL DEF OwnerSpec, OwnerInv

\* No released frame is lost, duplicated or both free and held.
THEOREM FramesAreConserved == OwnerSpec => []Conservation
BY OwnerInvariance, PTL DEF OwnerInv

LEMMA ReleasedIsRam ==
  ASSUME mmap \in MemoryMaps, NEW f \in Released(mmap)
  PROVE  InAvailableRam(f)
<1>1. PICK i \in DOMAIN mmap : f \in RegionFrames(mmap[i])
  BY DEF Released
<1> DEFINE r == mmap[i]
<1>2. r \in Region
  BY PmmAssumption
<1>3. /\ f \in Nat /\ r.type = "available"
      /\ FrameUp(RegionStart(r)) <= f /\ f < FrameDown(RegionEnd(r))
  BY <1>1 DEF RegionFrames, Frame
<1>4. RegionStart(r) \in Nat /\ RegionEnd(r) \in Nat /\ r.addr <= RegionStart(r)
  BY <1>2, PmmAssumption DEF Region, RegionStart, RegionEnd
<1>5. RegionStart(r) <= PageOf(f) /\ PageOf(f + 1) <= r.addr + r.len
  BY <1>3, <1>4, Rounding DEF RegionEnd
<1>6. PageOf(f) \in Int /\ r.addr \in Nat
  BY <1>2, <1>3, PmmAssumption DEF PageOf, Region
<1>7. r.addr <= PageOf(f)
  BY <1>4, <1>5, <1>6
<1>8. QED BY <1>3, <1>5, <1>7 DEF InAvailableRam

\* What circulates is available memory to the last byte.
THEOREM OnlyRam == OwnerSpec => []OnlyRamCirculates
<1>1. OwnerInv => OnlyRamCirculates
  BY ReleasedIsRam DEF OwnerInv, PmmInv, TypeOK, Conservation, OnlyRamCirculates
<1>2. QED BY OwnerInvariance, <1>1, PTL
==============================================================================
