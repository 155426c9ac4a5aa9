----------------------------- MODULE KernelProofs -----------------------------
(***************************************************************************)
(* Proofs about Kernel for every memory, every memory map, every size of   *)
(* the tables and of the TLB, and every content of fresh frames.           *)
(***************************************************************************)
EXTENDS Kernel, FiniteSetTheorems, TLAPS

-----------------------------------------------------------------------------
(* The modules below, with what their own proofs show of them.             *)

VP == INSTANCE VmmProofs WITH
        pc <- vpc, Requests <- {TestRequest(f) : f \in 0 .. MaxFrames - 1}
RP == INSTANCE ProcessProofs WITH pc <- ppc, Mapped <- Entries

LEMMA VmmDischarged == VP!VmmAssumption
BY KernelAssumption
DEF VP!VmmAssumption, VM!VmmAssumption, VP!PM!Region, VM!PM!Region,
    VP!PM!MemoryType, VM!PM!MemoryType, VP!PM!FrameDown, VM!PM!FrameDown,
    VP!Call, VM!Call, VP!Page, VM!Page, VP!Index, VM!Index, VP!Recursive, VM!Recursive,
    VP!Frame, VM!Frame, VP!PM!Frame, VM!PM!Frame, VP!Flags, VM!Flags,
    VP!Table, VM!Table, VP!Entry, VM!Entry

LEMMA ProcessDischarged == RP!ProcessAssumption
BY KernelAssumption
DEF RP!ProcessAssumption, PR!ProcessAssumption, RP!PM!Region, PR!PM!Region,
    RP!PM!MemoryType, PR!PM!MemoryType

\* The steps of the allocator, under the names they have in each module.
LEMMA SameAllocInit ==
  /\ PM!pmm_init <=> VP!PM!pmm_init
  /\ PM!pmm_init <=> RP!PM!pmm_init
BY DEF PM!pmm_init, VP!PM!pmm_init, RP!PM!pmm_init,
       PM!FrameUp, VP!PM!FrameUp, RP!PM!FrameUp, PM!FrameDown, VP!PM!FrameDown, RP!PM!FrameDown,
       PM!Frame, VP!PM!Frame, RP!PM!Frame, PM!Released, VP!PM!Released, RP!PM!Released,
       PM!RegionFrames, VP!PM!RegionFrames, RP!PM!RegionFrames,
       PM!RegionEnd, VP!PM!RegionEnd, RP!PM!RegionEnd,
       PM!RegionStart, VP!PM!RegionStart, RP!PM!RegionStart,
       PM!Counted, VP!PM!Counted, RP!PM!Counted,
       PM!Cardinality, VP!PM!Cardinality, RP!PM!Cardinality,
       PM!Call, VP!PM!Call, RP!PM!Call, PM!NULL, VP!PM!NULL, RP!PM!NULL

LEMMA SameAlloc ==
  /\ PM!pmm_alloc_page <=> VP!PM!pmm_alloc_page
  /\ PM!pmm_alloc_page <=> VM!PM!pmm_alloc_page
  /\ PM!pmm_alloc_page <=> RP!PM!pmm_alloc_page
  /\ PM!pmm_alloc_page <=> PR!PM!pmm_alloc_page
<1>1. /\ PM!Candidates = VP!PM!Candidates /\ PM!Candidates = VM!PM!Candidates
      /\ PM!Candidates = RP!PM!Candidates /\ PM!Candidates = PR!PM!Candidates
  BY DEF PM!Candidates, VP!PM!Candidates, VM!PM!Candidates, RP!PM!Candidates, PR!PM!Candidates,
         PM!Clear, VP!PM!Clear, VM!PM!Clear, RP!PM!Clear, PR!PM!Clear
<1>2. \A S : /\ PM!Lowest(S) = VP!PM!Lowest(S) /\ PM!Lowest(S) = VM!PM!Lowest(S)
             /\ PM!Lowest(S) = RP!PM!Lowest(S) /\ PM!Lowest(S) = PR!PM!Lowest(S)
  BY DEF PM!Lowest, VP!PM!Lowest, VM!PM!Lowest, RP!PM!Lowest, PR!PM!Lowest
<1>3. PM!pmm_alloc_page <=> VP!PM!pmm_alloc_page
  BY <1>1, <1>2 DEF PM!pmm_alloc_page, VP!PM!pmm_alloc_page, PM!Take, VP!PM!Take,
                    PM!Call, VP!PM!Call, PM!NULL, VP!PM!NULL, PM!PageOf, VP!PM!PageOf
<1>4. PM!pmm_alloc_page <=> VM!PM!pmm_alloc_page
  BY <1>1, <1>2 DEF PM!pmm_alloc_page, VM!PM!pmm_alloc_page, PM!Take, VM!PM!Take,
                    PM!Call, VM!PM!Call, PM!NULL, VM!PM!NULL, PM!PageOf, VM!PM!PageOf
<1>5. PM!pmm_alloc_page <=> RP!PM!pmm_alloc_page
  BY <1>1, <1>2 DEF PM!pmm_alloc_page, RP!PM!pmm_alloc_page, PM!Take, RP!PM!Take,
                    PM!Call, RP!PM!Call, PM!NULL, RP!PM!NULL, PM!PageOf, RP!PM!PageOf
<1>6. PM!pmm_alloc_page <=> PR!PM!pmm_alloc_page
  BY <1>1, <1>2 DEF PM!pmm_alloc_page, PR!PM!pmm_alloc_page, PM!Take, PR!PM!Take,
                    PM!Call, PR!PM!Call, PM!NULL, PR!PM!NULL, PM!PageOf, PR!PM!PageOf
<1>7. QED BY <1>3, <1>4, <1>5, <1>6

LEMMA SameFree ==
  ASSUME NEW page
  PROVE  /\ PM!pmm_free_page(page) <=> VP!PM!pmm_free_page(page)
         /\ PM!pmm_free_page(page) <=> RP!PM!pmm_free_page(page)
BY DEF PM!pmm_free_page, VP!PM!pmm_free_page, RP!PM!pmm_free_page,
       PM!Accepts, VP!PM!Accepts, RP!PM!Accepts, PM!Give, VP!PM!Give, RP!PM!Give,
       PM!FrameDown, VP!PM!FrameDown, RP!PM!FrameDown,
       PM!Call, VP!PM!Call, RP!PM!Call, PM!NULL, VP!PM!NULL, RP!PM!NULL

\* The page tables, the MMU and the steps of vmm_map_page.
LEMMA SameWalk ==
  /\ \A v : VM!Walk(v) = VP!Walk(v) /\ VM!Access(v) = VP!Access(v)
  /\ VM!Page = VP!Page /\ VM!Index = VP!Index /\ VM!Tables = VP!Tables
  /\ VM!Absent = VP!Absent /\ VM!Recursive = VP!Recursive
  /\ \A f, u : VM!Maps(f, u) = VP!Maps(f, u)
BY DEF VM!Walk, VP!Walk, VM!Access, VP!Access, VM!Maps, VP!Maps, VM!Absent, VP!Absent,
       VM!Page, VP!Page, VM!Index, VP!Index, VM!Recursive, VP!Recursive,
       VM!Tables, VP!Tables, VM!Slots, VP!Slots, VM!Linked, VP!Linked

LEMMA SameProcessor ==
  ASSUME NEW v
  PROVE  /\ VM!Fill(v) <=> VP!Fill(v)
         /\ VM!Evict(v) <=> VP!Evict(v)
<1>1. VM!Cached = VP!Cached
  BY SameWalk DEF VM!Cached, VP!Cached
<1>2. QED
  BY <1>1, SameWalk
  DEF VM!Fill, VP!Fill, VM!Evict, VP!Evict, VM!Cardinality, VP!Cardinality,
      VM!pmmvars, VP!pmmvars, VM!mapvars, VP!mapvars

LEMMA SameWords ==
  /\ \A i, j : VM!ReadWord(i, j) = VP!ReadWord(i, j)
  /\ \A i, j, e : VM!WriteWord(i, j, e) <=> VP!WriteWord(i, j, e)
  /\ \A i : (VM!Reaches(i) <=> VP!Reaches(i)) /\ VM!Cleared(i) = VP!Cleared(i)
  /\ VM!PD = VP!PD
BY SameWalk
DEF VM!ReadWord, VP!ReadWord, VM!WriteWord, VP!WriteWord, VM!Reaches, VP!Reaches,
    VM!Cleared, VP!Cleared, VM!Window, VP!Window, VM!PD, VP!PD

LEMMA SameMap ==
  ASSUME NEW r PROVE VM!vmm_map_page(r) <=> VP!vmm_map_page(r)
<1>1. VM!TableMissing(r.virt) <=> VP!TableMissing(r.virt)
  BY SameWords DEF VM!TableMissing, VP!TableMissing
<1>2. QED
  BY <1>1, SameWords, SameAlloc
  DEF VM!vmm_map_page, VP!vmm_map_page, VM!pmmvars, VP!pmmvars, VM!mapvars, VP!mapvars,
      VM!NewTable, VP!NewTable, VM!PM!FrameDown, VP!PM!FrameDown, VM!PM!NULL, VP!PM!NULL

LEMMA SameSteps ==
  /\ VM!LinkTable <=> VP!LinkTable
  /\ VM!ZeroTable <=> VP!ZeroTable
  /\ VM!SetPte <=> VP!SetPte
<1>1. VM!LinkTable <=> VP!LinkTable
  BY SameWords, SameWalk
  DEF VM!LinkTable, VP!LinkTable, VM!LinkEntry, VP!LinkEntry, VM!pmmvars, VP!pmmvars
<1>2. VM!ZeroTable <=> VP!ZeroTable
  BY SameWords DEF VM!ZeroTable, VP!ZeroTable, VM!pmmvars, VP!pmmvars
<1>3. VM!SetPte <=> VP!SetPte
  BY SameWords, SameWalk
  DEF VM!SetPte, VP!SetPte, VM!NewEntry, VP!NewEntry, VM!Idle, VP!Idle, VM!Cell, VP!Cell,
      VM!pmmvars, VP!pmmvars
<1>4. QED BY <1>1, <1>2, <1>3

\* The threads.
LEMMA SameProcess ==
  /\ PR!process_init <=> RP!process_init
  /\ PR!allocate_pcb <=> RP!allocate_pcb
  /\ PR!allocate_stack <=> RP!allocate_stack
  /\ PR!Owned = RP!Owned
<1>1. /\ PR!NULL = RP!NULL /\ PR!PM!NULL = RP!PM!NULL
      /\ \A a : PR!PM!FrameDown(a) = RP!PM!FrameDown(a)
  BY DEF PR!NULL, RP!NULL, PR!PM!NULL, RP!PM!NULL, PR!PM!FrameDown, RP!PM!FrameDown
<1>2. PR!process_init <=> RP!process_init
  BY <1>1 DEF PR!process_init, RP!process_init, PR!pmmvars, RP!pmmvars
<1>3. PR!allocate_pcb <=> RP!allocate_pcb
  BY <1>1, SameAlloc
  DEF PR!allocate_pcb, RP!allocate_pcb, PR!Reachable, RP!Reachable, PR!Pcb, RP!Pcb,
      PR!NextPid, RP!NextPid, PR!queuevars, RP!queuevars
<1>4. PR!allocate_stack <=> RP!allocate_stack
  BY <1>1, SameAlloc
  DEF PR!allocate_stack, RP!allocate_stack, PR!Reachable, RP!Reachable, PR!queuevars, RP!queuevars,
      PR!Enqueued, RP!Enqueued, PR!NewHead, RP!NewHead, PR!NewTail, RP!NewTail,
      PR!StackTop, RP!StackTop
<1>5. PR!Queued = RP!Queued
  BY <1>1 DEF PR!Queued, RP!Queued, PR!Walk, RP!Walk
<1>6. PR!Owned = RP!Owned
  BY <1>1, <1>5 DEF PR!Owned, RP!Owned, PR!StackFrame, RP!StackFrame
<1>7. QED BY <1>2, <1>3, <1>4, <1>6

LEMMA SameInit ==
  /\ VM!Init <=> VP!Init
  /\ PR!Init <=> RP!Init
<1>1. VM!Init <=> VP!Init
  <2>1. VM!PM!Init <=> VP!PM!Init
    BY DEF VM!PM!Init, VP!PM!Init, VM!PM!Frame, VP!PM!Frame, VM!PM!Call, VP!PM!Call,
           VM!PM!NULL, VP!PM!NULL
  <2>2. VM!setup_paging_c = VP!setup_paging_c
    BY DEF VM!setup_paging_c, VP!setup_paging_c, VM!Frame, VP!Frame, VM!PM!Frame, VP!PM!Frame,
           VM!Maps, VP!Maps, VM!Absent, VP!Absent, VM!Index, VP!Index, VM!Recursive, VP!Recursive
  <2>3. QED BY <2>1, <2>2, SameWalk DEF VM!Init, VP!Init, VM!Idle, VP!Idle
<1>2. PR!Init <=> RP!Init
  BY DEF PR!Init, RP!Init, PR!PM!Init, RP!PM!Init, PR!PM!Frame, RP!PM!Frame, PR!PM!Call, RP!PM!Call,
         PR!PM!NULL, RP!PM!NULL, PR!NULL, RP!NULL, PR!NoPcb, RP!NoPcb, PR!Pcb, RP!Pcb,
         PR!Frame, RP!Frame
<1>3. QED BY <1>1, <1>2

-----------------------------------------------------------------------------
(* The invariant.                                                          *)

Early == {"magic", "hang", "gdt", "pmm", "p1", "p2", "free1", "free2", "vmm"}
Late  == {"process", "create_a", "create_b", "ready", "fault"}

IsPage(p) == p = 0 \/ \E f \in RP!Frame \ {0} : p = PM!PageOf(f)

Main ==
  /\ kpc \in Early \cup {"map", "mapped"} \cup Late
  /\ IsPage(p1) /\ IsPage(p2) /\ IsPage(test_page)
  /\ gdt = <<>> \/ (gdt = Descriptors /\ segments = Reloaded)

\* Until vmm_init maps its page there is no table, no thread and no page in use
\* but those of the allocation test.
InTest == CASE kpc = "p2" -> {p1} [] kpc = "free1" -> {p1, p2} [] kpc = "free2" -> {p2}
            [] OTHER -> {}
TestedPages ==
  /\ held = PagesOf(InTest) /\ test_page = 0
  /\ p1 = p2 => p1 = 0
  /\ kpc \notin {"free1", "free2", "vmm"} => p2 = 0
Beginning ==
  /\ kpc \in Early => TestedPages
  /\ kpc \in Early \cup {"map"} =>
       /\ vpc = "idle" /\ VP!Tables = {} /\ reused = {}
       /\ ~VP!Walk(TestPage).present
  /\ kpc \in Early \cup {"map", "mapped", "process"} => ppc = "boot"

\* From then on the pages in use are the test page, tables and threads' pages.
TablesAt == VP!Tables \cup ({new_pt} \ {0})
Ownership ==
  /\ kpc \notin Early \cup {"fault"} =>
       held = PagesOf({test_page}) \cup TablesAt \cup RP!Owned
  /\ PagesOf({test_page}) \cap TablesAt = {}
  /\ (PagesOf({test_page}) \cup TablesAt) \cap RP!Owned = {}

Running ==
  /\ vpc \in {"idle", "link", "zero", "set"}
  /\ vpc # "idle" => kpc = "mapped" /\ call = TestRequest(TestFrame)
  /\ vpc = "idle" => new_pt = 0
  /\ vpc \in {"zero", "set"} => new_pt \in VP!Tables \cup {0}
  /\ kpc \in {"map", "mapped"} => test_page # 0
  /\ kpc \in {"create_a", "create_b"} => ppc \in {"idle", "stack"}
  /\ kpc = "ready" => ppc = "idle"

Written ==
  /\ kpc \notin Late => wrote = 0
  /\ wrote # 0 /\ test_vaddr \notin reused => wrote = TestFrame

\* The tables are in order, the boot table shows what it showed at the start,
\* and a page that is mapped at test_vaddr is the test page.  A table that was
\* linked with an entry for test_vaddr in it lets the test write anywhere.
IdentityWalks ==
  \A i \in VP!Index : /\ VP!Walk(<<0, i>>) = VP!Maps(i, FALSE)
                      /\ VP!Walk(<<KernelSlot, i>>) = VP!Maps(i, FALSE)
InOrder ==
  /\ VP!VmmInv
  /\ IdentityWalks
  /\ kpc = "mapped" /\ vpc = "idle" /\ VP!Walk(TestPage).present =>
       VP!Walk(TestPage).frame = TestFrame
Memory ==
  /\ reused \subseteq {v \in VP!Page : v[1] = test_vaddr[1]}
  /\ InOrder \/ (kpc \in Late /\ test_vaddr \in reused)

KernelParts == Main /\ Beginning /\ Ownership /\ Running /\ Written /\ Memory
KernelInv == RP!ProcessInv /\ KernelParts

-----------------------------------------------------------------------------
(* Pages, threads and tables under the steps of the allocator.             *)

LEMMA Sizes ==
  /\ MaxFrames \in Nat \ {0} /\ PageSize \in Nat \ {0}
  /\ test_vaddr \in VP!Page /\ test_vaddr[1] \notin {0, KernelSlot, VP!Recursive}
  /\ RP!Frame = 0 .. MaxFrames - 1 /\ VP!Frame = 0 .. MaxFrames - 1
<1>1. MaxFrames \in Nat \ {0} /\ PageSize \in Nat \ {0}
  BY VmmDischarged DEF VP!VmmAssumption
<1>2. RP!Frame = 0 .. MaxFrames - 1 /\ VP!Frame = 0 .. MaxFrames - 1
  BY DEF RP!Frame, RP!PM!Frame, VP!Frame, VP!PM!Frame
<1>3. QED BY <1>1, <1>2, KernelAssumption, SameWalk

LEMMA PageSets ==
  /\ PagesOf({}) = {} /\ PagesOf({0}) = {}
  /\ \A f \in RP!Frame \ {0} :
       /\ PM!PageOf(f) # 0 /\ PM!FrameDown(PM!PageOf(f)) = f
       /\ PagesOf({PM!PageOf(f)}) = {f}
  /\ \A S, T : PagesOf(S \cup T) = PagesOf(S) \cup PagesOf(T)
<1>1. ASSUME NEW f \in RP!Frame \ {0}
      PROVE  PM!PageOf(f) # 0 /\ PM!FrameDown(PM!PageOf(f)) = f
  BY Sizes DEF PM!PageOf, PM!FrameDown
<1>2. \A f \in RP!Frame \ {0} : PagesOf({PM!PageOf(f)}) = {f}
  BY <1>1 DEF PagesOf, PM!NULL
<1>3. QED BY <1>1, <1>2 DEF PagesOf, PM!NULL

\* An allocation fails, or hands out one frame that nobody has.
LEMMA Allocation ==
  ASSUME RP!PP!OwnerInv, PM!pmm_alloc_page
  PROVE  /\ RP!PP!OwnerInv'
         /\ IsPage(last'.page) /\ held' = held \cup PagesOf({last'.page})
         /\ held \cap PagesOf({last'.page}) = {}
<1>1. /\ RP!PP!OwnerInv'
      /\ \/ last'.page = 0 /\ held' = held
         \/ \E f \in RP!Frame \ {0} :
              f \notin held /\ last'.page = PM!PageOf(f) /\ held' = held \cup {f}
  BY ProcessDischarged, SameAlloc, RP!AllocEffect
  DEF RP!Granted, RP!PM!NULL, RP!NULL, RP!PM!PageOf, PM!PageOf
<1>2. QED BY <1>1, PageSets DEF IsPage

LEMMA AllocationOrder ==
  ASSUME VP!VmmInv, vpc = "idle", PM!pmm_init \/ PM!pmm_alloc_page, UNCHANGED vmmvars
  PROVE  VP!VmmInv'
<1>1. VP!ClientPmm
  BY SameAlloc, SameAllocInit DEF VP!ClientPmm, VP!mapvars, vmmvars
<1>2. QED BY <1>1, VmmDischarged, VP!ClientStep

\* kernel_main gives back a page it was given, or null.
LEMMA Release ==
  ASSUME RP!PP!OwnerInv, VP!VmmInv, vpc = "idle", VP!Tables = {}, new_pt = 0,
         UNCHANGED vmmvars, NEW page, IsPage(page), PagesOf({page}) \subseteq held,
         PM!pmm_free_page(page)
  PROVE  /\ RP!PP!OwnerInv' /\ VP!VmmInv'
         /\ held' = held \ PagesOf({page})
<1>1. CASE page = 0
  <2>1. /\ UNCHANGED <<mmap, pmm_bitmap, pmm_total, pmm_free, kernel_end_frame,
                       pmm_next_free, held>>
        /\ last' = PM!Call("free", 0)
    BY <1>1 DEF PM!pmm_free_page, PM!Accepts, PM!NULL
  <2>2. VP!AllocatorInv' /\ VP!PM!FreeFrames' = VP!PM!FreeFrames
    <3>1. last' \in [op : {"boot", "init", "alloc", "free"}, page : VP!PM!Address]
      BY <2>1, Sizes DEF PM!Call, VP!PM!Address
    <3>2. VP!PM!TypeOK'
      BY <2>1, <3>1 DEF VP!VmmInv, VP!AllocatorInv, VP!PM!TypeOK
    <3>3. QED
      BY <2>1, <3>2 DEF VP!VmmInv, VP!AllocatorInv, VP!PM!Ready, VP!PM!FreeFrames
  <2>3. VP!VmmInv'
    BY <2>1, <2>2, VmmDischarged, VP!Untouched DEF vmmvars
  <2>4. RP!PP!OwnerInv'
    <3>1. RP!PP!PmmInv'
      <4>1. last' \in [op : {"boot", "init", "alloc", "free"}, page : RP!PP!Address]
        BY <2>1, Sizes DEF PM!Call, RP!PP!Address
      <4>2. RP!PP!TypeOK'
        BY <2>1, <4>1 DEF RP!PP!OwnerInv, RP!PP!PmmInv, RP!PP!TypeOK
      <4>3. QED
        BY <2>1, <4>2
        DEF RP!PP!OwnerInv, RP!PP!PmmInv, RP!PP!Ready, RP!PP!FreeFrames, RP!PP!CountExact,
            RP!PP!HintBelowFree, RP!PP!KernelReserved, RP!PP!ClosedBeforeInit
    <3>2. QED
      BY <2>1, <3>1 DEF RP!PP!OwnerInv, RP!PP!Conservation, RP!PP!Ready, RP!PP!FreeFrames
  <2>5. QED BY <1>1, <2>1, <2>3, <2>4, PageSets
<1>2. CASE page # 0
  <2>1. PICK f \in RP!Frame \ {0} : page = PM!PageOf(f)
    BY <1>2 DEF IsPage
  <2>2. f \in held /\ PagesOf({page}) = {f} /\ PM!FrameDown(page) = f
    BY <2>1, PageSets
  <2>3. VP!VmmInv'
    <3>1. VP!PM!pmm_free_page(VP!PM!PageOf(f))
      BY <2>1, SameFree DEF VP!PM!PageOf, PM!PageOf
    <3>2. f \in VP!Clients
      BY <2>1, <2>2 DEF VP!Clients
    <3>3. VP!ClientPmm
      BY <3>1, <3>2 DEF VP!ClientPmm, VP!mapvars, vmmvars
    <3>4. QED BY <3>3, VmmDischarged, VP!ClientStep
  <2>4. RP!PP!pmm_free_page(RP!PP!PageOf(f)) /\ page = RP!PP!PageOf(f)
    BY <2>1, SameFree, ProcessDischarged, RP!SameFree DEF RP!PP!PageOf, PM!PageOf
  <2>5. RP!PP!PmmAssumption
    BY ProcessDischarged, RP!Discharged
  <2>6. f \in RP!PP!Frame /\ RP!PP!PageOf(f) \in RP!PP!Address
    BY <2>1, <2>5, ProcessDischarged, RP!PP!PageAddress DEF RP!Frame, RP!PM!Frame, RP!PP!Frame
  <2>7. RP!PP!FrameDown(RP!PP!PageOf(f)) = f
    BY <2>2, <2>4 DEF RP!PP!FrameDown, PM!FrameDown
  <2>8. RP!PP!Owned(RP!PP!PageOf(f))
    BY <2>2, <2>7 DEF RP!PP!Owned
  <2>9. RP!PP!OwnerInv'
    BY <2>4, <2>5, <2>6, <2>8, ProcessDischarged, RP!PP!FreeStep, RP!PP!OwnerFree DEF RP!PP!OwnerInv
  <2>10. RP!PP!Accepts(RP!PP!PageOf(f))
    <3>1. /\ pmm_bitmap \in [RP!PP!Frame -> {0, 1}] /\ f \notin RP!PP!FreeFrames
          /\ RP!PP!Ready /\ f \in RP!PP!Released(mmap) /\ mmap \in MemoryMaps
      BY <2>2 DEF RP!PP!OwnerInv, RP!PP!Conservation, RP!PP!PmmInv, RP!PP!TypeOK, RP!PP!ClosedBeforeInit
    <3>2. f >= RP!PP!FrameUp(KernelEnd)
      BY <2>5, <3>1, ProcessDischarged, RP!PP!ReleasedFrames
    <3>3. kernel_end_frame = RP!PP!FrameUp(KernelEnd)
      BY <3>1 DEF RP!PP!OwnerInv, RP!PP!PmmInv, RP!PP!Ready
    <3>4. pmm_bitmap[f] = 1
      BY <2>6, <3>1 DEF RP!PP!FreeFrames
    <3>5. RP!PP!PageOf(f) % PageSize = 0 /\ RP!PP!PageOf(f) # 0
      BY <2>1, Sizes DEF RP!PP!PageOf
    <3>6. QED BY <2>7, <3>2, <3>3, <3>4, <3>5 DEF RP!PP!Accepts, RP!PP!NULL
  <2>11. held' = held \ {f}
    BY <2>4, <2>7, <2>10 DEF RP!PP!pmm_free_page, RP!PP!Give
  <2>12. QED BY <2>2, <2>3, <2>9, <2>11
<1>3. QED BY <1>1, <1>2

\* The threads keep their pages as long as nobody else touches them.
LEMMA ThreadsStay ==
  ASSUME RP!ProcessInv, RP!PP!OwnerInv', UNCHANGED procvars, RP!Owned \subseteq held'
  PROVE  RP!ProcessInv' /\ RP!Owned' = RP!Owned
<1>1. PICK s \in Seq(RP!Frame \ {RP!NULL}) : RP!Threads(s)
  BY DEF RP!ProcessInv
<1>2. UNCHANGED <<RP!queuevars, proc, lost>> /\ ppc' = ppc
  BY DEF procvars, RP!queuevars
<1>3. RP!Position(s)'
  BY <1>1, <1>2 DEF RP!Threads, RP!Position, RP!queuevars
<1>4. RP!Owned = RP!OwnedBy(s)
  BY <1>1, ProcessDischarged, RP!OwnedFrames DEF RP!OwnedIsListed
<1>5. RP!Threads(s)'
  BY <1>1, <1>2, <1>3, <1>4, ProcessDischarged, RP!ThreadsKept DEF RP!OwnedBy
<1>6. RP!Typed'
  BY <1>2 DEF RP!ProcessInv, RP!Typed, RP!queuevars
<1>7. RP!ProcessInv'
  BY <1>5, <1>6 DEF RP!ProcessInv
<1>8. RP!Owned' = RP!Owned
  BY <1>2 DEF RP!Owned, RP!Queued, RP!Walk, RP!StackFrame, RP!queuevars
<1>9. QED BY <1>7, <1>8

LEMMA NoThreadYet ==
  ASSUME RP!ProcessInv, ppc = "boot"
  PROVE  RP!Owned = {}
<1>1. PICK s \in Seq(RP!Frame \ {RP!NULL}) : RP!Threads(s)
  BY DEF RP!ProcessInv
<1>2. s = <<>> /\ lost = {} /\ proc = RP!NULL
  BY <1>1 DEF RP!Threads, RP!Position
<1>3. RP!OwnedBy(s) = {}
  <2>1. RP!Pcbs(s) = {}
    BY <1>2 DEF RP!Pcbs
  <2>2. RP!Stacks(s) = {}
    BY <2>1 DEF RP!Stacks
  <2>3. QED BY <1>2, <2>1, <2>2 DEF RP!OwnedBy
<1>4. QED BY <1>1, <1>3, ProcessDischarged, RP!OwnedFrames DEF RP!OwnedIsListed

LEMMA OwnerQuiet ==
  ASSUME RP!PP!OwnerInv, UNCHANGED pmmvars PROVE RP!PP!OwnerInv'
BY RP!PP!StutterStep, ProcessDischarged, RP!Discharged
DEF pmmvars, RP!PP!vars, RP!PP!OwnerInv, RP!PP!Conservation, RP!PP!Ready, RP!PP!FreeFrames

LEMMA VmmQuiet ==
  ASSUME VP!VmmInv, UNCHANGED <<pmmvars, vmmvars>> PROVE VP!VmmInv'
<1>1. VP!PM!FreeFrames' = VP!PM!FreeFrames /\ VP!AllocatorInv' /\ held' = held
  BY VmmDischarged, VP!SameAllocator DEF VP!VmmInv, VP!pmmvars, pmmvars
<1>2. QED BY <1>1, VmmDischarged, VP!Untouched DEF vmmvars

LEMMA WalksStay ==
  ASSUME UNCHANGED mem
  PROVE  /\ VP!Tables' = VP!Tables
         /\ \A v : VP!Walk(v)' = VP!Walk(v)
BY DEF VP!Tables, VP!Slots, VP!Linked, VP!Walk

-----------------------------------------------------------------------------
(* The start, and the steps before vmm_init maps its page.                 *)

LEMMA KernelStart == Init => KernelInv
<1> SUFFICES ASSUME Init PROVE KernelInv
  OBVIOUS
<1>1. VP!Init /\ RP!Init
  BY SameInit DEF Init
<1>2. VP!VmmInv /\ RP!ProcessInv
  BY <1>1, VmmDischarged, ProcessDischarged, VP!InitVmmInv, RP!ProcessInit
<1>3. /\ mem = VP!setup_paging_c /\ vpc = "idle" /\ new_pt = 0 /\ reused = {}
      /\ held = {} /\ ppc = "boot"
  BY <1>1 DEF VP!Init, RP!Init, VP!PM!Init
<1>4. /\ {BootPde, BootPt} \subseteq VP!Frame /\ BootPde # BootPt
      /\ 0 \in VP!Index /\ KernelSlot \in VP!Index /\ 0 # VP!Recursive /\ KernelSlot # VP!Recursive
  BY VmmDischarged, VP!BootFrames, VP!Indices
<1>5. /\ \A i \in VP!Index : mem[BootPt][i] = VP!Maps(i, FALSE)
      /\ mem[BootPde][0] = VP!Maps(BootPt, FALSE)
      /\ mem[BootPde][KernelSlot] = VP!Maps(BootPt, FALSE)
      /\ \A i \in VP!Index \ {0, KernelSlot, VP!Recursive} : mem[BootPde][i] = VP!Absent
  BY <1>3, <1>4 DEF VP!setup_paging_c
<1>6. IdentityWalks
  <2>1. ASSUME NEW f, NEW e, e = VP!Maps(f, FALSE)
        PROVE  e.present = TRUE /\ e.user = FALSE /\ e.frame = f
    BY <2>1 DEF VP!Maps
  <2>2. \A i \in {0, KernelSlot}, j \in VP!Index : VP!Walk(<<i, j>>) = VP!Maps(j, FALSE)
    <3>1. SUFFICES ASSUME NEW i \in {0, KernelSlot}, NEW j \in VP!Index
                   PROVE  VP!Walk(<<i, j>>) = VP!Maps(j, FALSE)
      OBVIOUS
    <3>2. /\ mem[BootPde][i].present = TRUE /\ mem[BootPde][i].user = FALSE
          /\ mem[BootPde][i].frame = BootPt
      BY <1>5, <2>1
    <3>3. mem[BootPt][j].present = TRUE /\ mem[BootPt][j].user = FALSE /\ mem[BootPt][j].frame = j
      BY <1>5, <2>1
    <3>4. QED BY <3>2, <3>3 DEF VP!Walk
  <2>3. QED BY <2>2 DEF IdentityWalks
<1>7. VP!Tables = {}
  BY <1>5 DEF VP!Tables, VP!Slots, VP!Absent
<1>8. ~VP!Walk(TestPage).present
  <2>1. mem[BootPde][TestPage[1]] = VP!Absent
    BY <1>5, Sizes DEF TestPage, VP!Page
  <2>2. QED BY <2>1 DEF VP!Walk, VP!Absent
<1>9. RP!Owned = {}
  BY <1>2, <1>3, NoThreadYet
<1>10. Main
  BY DEF Init, Main, Early, IsPage
<1>11. Beginning
  <2>1. InTest = {}
    BY DEF Init, InTest
  <2>2. QED BY <1>3, <1>7, <1>8, <2>1, PageSets DEF Init, Beginning, TestedPages
<1>12. Ownership
  <2>1. TablesAt = {}
    BY <1>3, <1>7 DEF TablesAt
  <2>2. QED BY <1>9, <2>1 DEF Init, Ownership, Early
<1>13. Running /\ Written
  BY <1>3 DEF Init, Running, Written, Late
<1>14. Memory
  BY <1>2, <1>3, <1>6 DEF Init, Memory, InOrder
<1>15. QED
  BY <1>2, <1>10, <1>11, <1>12, <1>13, <1>14 DEF KernelInv, KernelParts

\* Up to vmm_init only the allocator moves.
LEMMA EarlyStep ==
  ASSUME KernelInv, kpc \in Early, kpc' \in Early \cup {"map", "process"},
         UNCHANGED <<vmmvars, procvars, wrote>>,
         RP!PP!OwnerInv', VP!VmmInv', Main',
         kpc' \in Early => TestedPages',
         kpc' \notin Early => held' = PagesOf({test_page'}),
         kpc' = "map" => test_page' # 0
  PROVE  KernelInv'
<1>1. /\ vpc = "idle" /\ VP!Tables = {} /\ reused = {} /\ ~VP!Walk(TestPage).present
      /\ ppc = "boot" /\ wrote = 0 /\ new_pt = 0 /\ kpc \notin Late
  BY DEF KernelInv, KernelParts, Beginning, Running, Written, Early, Late
<1>2. /\ UNCHANGED mem /\ vpc' = vpc /\ reused' = reused /\ new_pt' = new_pt /\ ppc' = ppc
      /\ wrote' = wrote
  BY DEF vmmvars, procvars
<1>3. /\ VP!Tables' = {} /\ \A v : VP!Walk(v)' = VP!Walk(v)
  BY <1>1, <1>2, WalksStay
<1>4. RP!ProcessInv' /\ RP!Owned' = {}
  <2>1. RP!Owned = {}
    BY <1>1, NoThreadYet DEF KernelInv
  <2>2. QED BY <2>1, ThreadsStay DEF KernelInv
<1>5. Beginning'
  BY <1>1, <1>2, <1>3, <1>4 DEF Beginning, Early
<1>6. Ownership'
  <2>1. TablesAt' = {}
    BY <1>1, <1>2, <1>3 DEF TablesAt
  <2>2. QED BY <1>4, <2>1 DEF Ownership
<1>7. Running'
  BY <1>1, <1>2 DEF Running, Early
<1>8. Written'
  BY <1>1, <1>2 DEF Written
<1>9. Memory'
  <2>1. IdentityWalks
    BY <1>1 DEF KernelInv, KernelParts, Memory, InOrder
  <2>2. IdentityWalks'
    BY <1>3, <2>1 DEF IdentityWalks
  <2>3. InOrder'
    BY <2>2, <1>2 DEF InOrder, Early
  <2>4. QED BY <1>1, <1>2, <2>3 DEF Memory
<1>10. QED
  BY <1>4, <1>5, <1>6, <1>7, <1>8, <1>9 DEF KernelInv, KernelParts

LEMMA EarlyFacts ==
  ASSUME KernelInv, kpc \in Early
  PROVE  /\ RP!PP!OwnerInv /\ VP!VmmInv /\ Main /\ TestedPages
         /\ vpc = "idle" /\ VP!Tables = {} /\ new_pt = 0
BY DEF KernelInv, KernelParts, Beginning, Running, Memory, InOrder, RP!ProcessInv, Early, Late

LEMMA MagicStep == ASSUME KernelInv, check_magic \/ gdt_init \/ pmm_init PROVE KernelInv'
<1>1. /\ kpc \in Early /\ kpc' \in Early /\ kpc' # "map"
      /\ UNCHANGED <<vmmvars, procvars, wrote>>
  BY DEF check_magic, gdt_init, pmm_init, Goto, Early, mainvars
<1>2. RP!PP!OwnerInv /\ VP!VmmInv /\ Main /\ TestedPages /\ vpc = "idle"
  BY <1>1, EarlyFacts
<1>3. RP!PP!OwnerInv' /\ VP!VmmInv' /\ held' = held
  <2>1. CASE check_magic \/ gdt_init
    BY <1>1, <1>2, <2>1, OwnerQuiet, VmmQuiet DEF check_magic, gdt_init, pmmvars
  <2>2. CASE pmm_init
    <3>1. PM!pmm_init /\ RP!PP!pmm_init
      BY <2>2, SameAllocInit, ProcessDischarged, RP!SameInit DEF pmm_init
    <3>2. RP!PP!OwnerInv'
      BY <1>2, <3>1, ProcessDischarged, RP!Discharged, RP!PP!InitStep, RP!PP!OwnerInit DEF RP!PP!OwnerInv
    <3>3. VP!VmmInv'
      BY <1>1, <1>2, <3>1, AllocationOrder
    <3>4. QED BY <3>1, <3>2, <3>3 DEF PM!pmm_init
  <2>3. QED BY <2>1, <2>2
<1>4. UNCHANGED <<p1, p2, test_page>>
  BY DEF check_magic, gdt_init, pmm_init, mainvars
<1>5. Main'
  <2>1. /\ IsPage(p1)' /\ IsPage(p2)' /\ IsPage(test_page)'
    BY <1>2, <1>4 DEF Main, IsPage
  <2>2. \/ gdt' = gdt /\ segments' = segments
        \/ gdt' = Descriptors /\ segments' = Reloaded
    BY DEF check_magic, gdt_init, pmm_init, mainvars
  <2>3. QED BY <1>1, <1>2, <2>1, <2>2 DEF Main
<1>6. TestedPages'
  <2>1. InTest = {} /\ InTest' = {} /\ kpc \notin {"free1", "free2", "vmm"}
    BY DEF check_magic, gdt_init, pmm_init, Goto, InTest
  <2>2. QED BY <1>2, <1>3, <1>4, <2>1 DEF TestedPages
<1>7. QED BY <1>1, <1>3, <1>5, <1>6, EarlyStep

LEMMA TestStep ==
  ASSUME KernelInv, alloc_p1 \/ alloc_p2 \/ free_p1 \/ free_p2 PROVE KernelInv'
<1>1. /\ kpc \in Early /\ kpc' \in Early /\ kpc' # "map"
      /\ UNCHANGED <<vmmvars, procvars, wrote>>
      /\ UNCHANGED <<gdt, segments, test_page>>
  BY DEF alloc_p1, alloc_p2, free_p1, free_p2, Goto, Early, mainvars
<1>2. /\ RP!PP!OwnerInv /\ VP!VmmInv /\ Main /\ TestedPages
      /\ vpc = "idle" /\ VP!Tables = {} /\ new_pt = 0
  BY <1>1, EarlyFacts
<1>3. IsPage(p1) /\ IsPage(p2) /\ IsPage(test_page) /\ test_page = 0
  BY <1>2 DEF Main, TestedPages
<1>4. ASSUME alloc_p1 PROVE KernelInv'
  <2>1. kpc = "p1" /\ kpc' = "p2" /\ PM!pmm_alloc_page /\ p1' = last'.page /\ p2' = p2
    BY <1>4 DEF alloc_p1, Goto
  <2>2. InTest = {} /\ InTest' = {p1'} /\ p2 = 0
    BY <1>2, <2>1 DEF InTest, TestedPages
  <2>3. /\ RP!PP!OwnerInv' /\ IsPage(p1') /\ held' = held \cup PagesOf({p1'})
    BY <1>2, <2>1, Allocation
  <2>4. VP!VmmInv'
    BY <1>1, <1>2, <2>1, AllocationOrder
  <2>5. TestedPages'
    BY <1>1, <1>2, <1>3, <2>1, <2>2, <2>3, PageSets DEF TestedPages, PagesOf
  <2>6. Main'
    BY <1>1, <1>2, <1>3, <2>1, <2>3 DEF Main, IsPage
  <2>7. QED BY <1>1, <2>3, <2>4, <2>5, <2>6, EarlyStep
<1>5. ASSUME alloc_p2 PROVE KernelInv'
  <2>1. kpc = "p2" /\ kpc' = "free1" /\ PM!pmm_alloc_page /\ p2' = last'.page /\ p1' = p1
    BY <1>5 DEF alloc_p2, Goto
  <2>2. InTest = {p1} /\ InTest' = {p1} \cup {p2'}
    BY <1>2, <2>1 DEF InTest
  <2>3. /\ RP!PP!OwnerInv' /\ IsPage(p2') /\ held' = held \cup PagesOf({p2'})
        /\ held \cap PagesOf({p2'}) = {}
    BY <1>2, <2>1, Allocation
  <2>4. VP!VmmInv'
    BY <1>1, <1>2, <2>1, AllocationOrder
  <2>5. p1' = p2' => p1' = 0
    BY <1>2, <1>3, <2>1, <2>2, <2>3, PageSets DEF TestedPages, IsPage
  <2>6. TestedPages'
    BY <1>1, <1>2, <1>3, <2>1, <2>2, <2>3, <2>5, PageSets DEF TestedPages, PagesOf
  <2>7. Main'
    BY <1>1, <1>2, <1>3, <2>1, <2>3 DEF Main, IsPage
  <2>8. QED BY <1>1, <2>3, <2>4, <2>6, <2>7, EarlyStep
<1>6. ASSUME free_p1 PROVE KernelInv'
  <2>1. kpc = "free1" /\ kpc' = "free2" /\ PM!pmm_free_page(p1) /\ p1' = p1 /\ p2' = p2
    BY <1>6 DEF free_p1, Goto, mainvars
  <2>2. InTest = {p1} \cup {p2} /\ InTest' = {p2}
    BY <2>1 DEF InTest
  <2>3. held = PagesOf({p1}) \cup PagesOf({p2}) /\ PagesOf({p1}) \cap PagesOf({p2}) = {}
    <3>1. held = PagesOf({p1} \cup {p2}) /\ (p1 = p2 => p1 = 0)
      BY <1>2, <2>2 DEF TestedPages
    <3>2. PagesOf({p1}) \cap PagesOf({p2}) = {}
      BY <1>3, <3>1, PageSets DEF IsPage
    <3>3. QED BY <3>1, <3>2, PageSets
  <2>4. RP!PP!OwnerInv' /\ VP!VmmInv' /\ held' = held \ PagesOf({p1})
    BY <1>1, <1>2, <1>3, <2>1, <2>3, Release
  <2>5. TestedPages'
    BY <1>1, <1>2, <1>3, <2>1, <2>2, <2>3, <2>4 DEF TestedPages, PagesOf
  <2>6. Main'
    BY <1>1, <1>2, <1>3, <2>1 DEF Main, IsPage
  <2>7. QED BY <1>1, <2>4, <2>5, <2>6, EarlyStep
<1>7. ASSUME free_p2 PROVE KernelInv'
  <2>1. kpc = "free2" /\ kpc' = "vmm" /\ PM!pmm_free_page(p2) /\ p1' = p1 /\ p2' = p2
    BY <1>7 DEF free_p2, Goto, mainvars
  <2>2. InTest = {p2} /\ InTest' = {}
    BY <2>1 DEF InTest
  <2>3. held = PagesOf({p2})
    BY <1>2, <2>2 DEF TestedPages
  <2>4. RP!PP!OwnerInv' /\ VP!VmmInv' /\ held' = held \ PagesOf({p2})
    BY <1>1, <1>2, <1>3, <2>1, <2>3, Release
  <2>5. TestedPages'
    BY <1>1, <1>2, <1>3, <2>1, <2>2, <2>3, <2>4, PageSets DEF TestedPages, PagesOf
  <2>6. Main'
    BY <1>1, <1>2, <1>3, <2>1 DEF Main, IsPage
  <2>7. QED BY <1>1, <2>4, <2>5, <2>6, EarlyStep
<1>8. QED BY <1>4, <1>5, <1>6, <1>7

LEMMA VmmInitStep == ASSUME KernelInv, vmm_init PROVE KernelInv'
<1>1. /\ kpc = "vmm" /\ kpc \in Early /\ kpc' = (IF last'.page = 0 THEN "process" ELSE "map")
      /\ PM!pmm_alloc_page /\ test_page' = last'.page
      /\ UNCHANGED <<vmmvars, procvars, wrote, gdt, segments, p1, p2>>
  BY DEF vmm_init, Early, PM!NULL
<1>2. /\ RP!PP!OwnerInv /\ VP!VmmInv /\ Main /\ TestedPages /\ vpc = "idle"
  BY <1>1, EarlyFacts
<1>3. /\ RP!PP!OwnerInv' /\ IsPage(test_page') /\ held' = held \cup PagesOf({test_page'})
  BY <1>1, <1>2, Allocation
<1>4. held = {}
  BY <1>1, <1>2, PageSets DEF TestedPages, InTest
<1>5. VP!VmmInv'
  BY <1>1, <1>2, AllocationOrder
<1>6. Main'
  BY <1>1, <1>2, <1>3 DEF Main, IsPage, Late
<1>7. kpc' \in {"map", "process"} /\ kpc' \notin Early /\ (kpc' = "map" => test_page' # 0)
  BY <1>1 DEF Early
<1>8. QED BY <1>1, <1>3, <1>4, <1>5, <1>6, <1>7, EarlyStep

-----------------------------------------------------------------------------
(* The mapping of the test page, and the write to it.                      *)

LEMMA TestPageFacts ==
  /\ TestPage = test_vaddr /\ TestPage \in VP!Page
  /\ TestPage[1] \notin {0, KernelSlot, VP!Recursive}
  /\ \A f : /\ TestRequest(f).virt = TestPage /\ TestRequest(f).phys = f
            /\ TestRequest(f).flags.present = TRUE
  /\ \A v \in VP!Page : VP!Cell(v) = VP!Cell(TestPage) <=> v = TestPage
  /\ \A i \in VP!Index : /\ <<0, i>> \in VP!Page /\ <<KernelSlot, i>> \in VP!Page
                         /\ {0, KernelSlot} \cap {TestPage[1], VP!Recursive} = {}
<1>1. /\ TestPage = test_vaddr /\ TestPage \in VP!Page
      /\ TestPage[1] \notin {0, KernelSlot, VP!Recursive}
  BY Sizes DEF TestPage
<1>2. \A f : /\ TestRequest(f).virt = TestPage /\ TestRequest(f).phys = f
             /\ TestRequest(f).flags.present = TRUE
  BY DEF TestRequest
<1>3. /\ {0, KernelSlot} \subseteq VP!Index /\ 0 # VP!Recursive /\ KernelSlot # VP!Recursive
  BY VmmDischarged, VP!Indices
<1>4. \A v \in VP!Page : VP!Cell(v) = VP!Cell(TestPage) <=> v = TestPage
  <2>1. SUFFICES ASSUME NEW v \in VP!Page, VP!Cell(v) = VP!Cell(TestPage) PROVE v = TestPage
    OBVIOUS
  <2>2. VP!Cell(TestPage) = TestPage
    BY <1>1 DEF VP!Cell
  <2>3. v[1] # 0
    BY <1>1, <2>1, <2>2 DEF VP!Cell
  <2>4. QED BY <2>1, <2>2, <2>3 DEF VP!Cell
<1>5. \A i \in VP!Index : <<0, i>> \in VP!Page /\ <<KernelSlot, i>> \in VP!Page
  BY <1>3 DEF VP!Page
<1>6. QED BY <1>1, <1>2, <1>3, <1>4, <1>5

LEMMA TestFrameFacts ==
  ASSUME IsPage(test_page), test_page # 0
  PROVE  /\ TestFrame \in RP!Frame \ {0} /\ PagesOf({test_page}) = {TestFrame}
         /\ TestRequest(TestFrame) \in {TestRequest(f) : f \in 0 .. MaxFrames - 1}
<1>1. PICK f \in RP!Frame \ {0} : test_page = PM!PageOf(f)
  BY DEF IsPage
<1>2. TestFrame = f /\ PagesOf({test_page}) = {f}
  BY <1>1, PageSets DEF TestFrame
<1>3. QED BY <1>2, Sizes

LEMMA SameRest ==
  ASSUME KernelInv, UNCHANGED mainvars, kpc' \in {"map", "mapped"} \cup Late
  PROVE  Main' /\ TestFrame' = TestFrame /\ PagesOf({test_page}) = PagesOf({test_page})'
BY DEF KernelInv, KernelParts, Main, IsPage, mainvars, TestFrame, PagesOf

LEMMA MapTestStep == ASSUME KernelInv, map_test_page PROVE KernelInv'
<1> DEFINE r == TestRequest(TestFrame)
<1>1. /\ kpc = "map" /\ kpc' = "mapped" /\ VP!vmm_map_page(r)
      /\ UNCHANGED <<procvars, mainvars>>
  BY SameMap DEF map_test_page, Goto
<1>2. /\ vpc = "idle" /\ VP!Tables = {} /\ reused = {} /\ ~VP!Walk(TestPage).present
      /\ ppc = "boot" /\ wrote = 0 /\ new_pt = 0 /\ test_page # 0
      /\ held = PagesOf({test_page}) \cup TablesAt \cup RP!Owned
      /\ InOrder /\ RP!ProcessInv /\ IsPage(test_page)
  BY <1>1 DEF KernelInv, KernelParts, Main, Beginning, Ownership, Running, Written, Memory,
              Early, Late
<1>3. TablesAt = {} /\ RP!Owned = {} /\ held = PagesOf({test_page})
  BY <1>2, NoThreadYet DEF TablesAt
<1>4. r \in {TestRequest(f) : f \in 0 .. MaxFrames - 1}
  BY <1>2, TestFrameFacts
<1>5. VP!VmmInv' /\ VP!Tables' = {} /\ \A v \in VP!Page : VP!Walk(v)' = VP!Walk(v)
  BY <1>1, <1>2, <1>4, VmmDischarged, VP!MapStep DEF InOrder
<1>6. /\ RP!PP!OwnerInv' /\ reused' = reused
      /\ \/ vpc' = "set" /\ new_pt' = 0 /\ call' = r /\ held' = held
         \/ vpc' = "idle" /\ new_pt' = 0 /\ held' = held
         \/ /\ vpc' = "link" /\ call' = r /\ new_pt' # 0
            /\ held' = held \cup {new_pt'} /\ new_pt' \notin held
  <2>1. reused' = reused
    BY <1>1 DEF VP!vmm_map_page
  <2>2. CASE vpc' = "set" /\ call' = r /\ UNCHANGED <<VP!pmmvars, mem, new_pt>>
    <3>1. UNCHANGED pmmvars
      BY <2>2 DEF VP!pmmvars, pmmvars
    <3>2. RP!PP!OwnerInv'
      BY <1>2, <3>1, OwnerQuiet DEF RP!ProcessInv
    <3>3. QED BY <1>2, <2>1, <2>2, <3>1, <3>2 DEF pmmvars
  <2>3. CASE /\ PM!pmm_alloc_page
             /\ \/ last'.page = 0 /\ UNCHANGED <<mem, VP!mapvars>>
                \/ /\ last'.page # 0 /\ vpc' = "link" /\ call' = r
                   /\ new_pt' = PM!FrameDown(last'.page)
    <3>1. /\ RP!PP!OwnerInv' /\ IsPage(last'.page)
          /\ held' = held \cup PagesOf({last'.page}) /\ held \cap PagesOf({last'.page}) = {}
      BY <1>2, <2>3, Allocation DEF RP!ProcessInv
    <3>2. CASE last'.page = 0 /\ UNCHANGED <<mem, VP!mapvars>>
      BY <1>2, <2>1, <3>1, <3>2, PageSets DEF VP!mapvars
    <3>3. CASE /\ last'.page # 0 /\ vpc' = "link" /\ call' = r
               /\ new_pt' = PM!FrameDown(last'.page)
      <4>1. PICK f \in RP!Frame \ {0} : last'.page = PM!PageOf(f)
        BY <3>1, <3>3 DEF IsPage
      <4>2. new_pt' = f /\ PagesOf({last'.page}) = {f}
        BY <3>3, <4>1, PageSets
      <4>3. QED BY <2>1, <3>1, <3>3, <4>2
    <3>4. QED BY <2>3, <3>2, <3>3
  <2>4. QED
    BY <1>1, <2>2, <2>3, SameAlloc
    DEF VP!vmm_map_page, VP!NewTable, VP!PM!NULL, VP!PM!FrameDown, PM!FrameDown
<1>7. Main' /\ TestFrame' = TestFrame /\ PagesOf({test_page'}) = PagesOf({test_page})
  BY <1>1, SameRest
<1>8. RP!ProcessInv' /\ RP!Owned' = {} /\ ppc' = "boot" /\ wrote' = 0 /\ test_page' # 0
  BY <1>1, <1>2, <1>3, <1>6, ThreadsStay DEF procvars, mainvars
<1>9. Beginning'
  BY <1>1, <1>8 DEF Beginning, Early
<1>10. Ownership'
  <2>1. TablesAt' = {new_pt'} \ {0}
    BY <1>5 DEF TablesAt
  <2>2. QED BY <1>3, <1>6, <1>7, <1>8, <2>1 DEF Ownership
<1>11. Running'
  BY <1>1, <1>6, <1>7, <1>8 DEF Running
<1>12. Written'
  BY <1>8 DEF Written
<1>13. Memory'
  <2>1. IdentityWalks'
    BY <1>2, <1>5, TestPageFacts DEF InOrder, IdentityWalks
  <2>2. ~VP!Walk(TestPage)'.present
    BY <1>2, <1>5, TestPageFacts
  <2>3. InOrder'
    BY <1>5, <2>1, <2>2 DEF InOrder, TestPage
  <2>4. QED BY <1>2, <1>6, <2>3 DEF Memory
<1>14. QED
  BY <1>7, <1>8, <1>9, <1>10, <1>11, <1>12, <1>13 DEF KernelInv, KernelParts

\* Between the steps of vmm_map_page.
LEMMA MappedFacts ==
  ASSUME KernelInv, kpc = "mapped"
  PROVE  /\ RP!ProcessInv /\ InOrder /\ Main /\ ppc = "boot" /\ wrote = 0 /\ test_page # 0
         /\ held = PagesOf({test_page}) \cup TablesAt \cup RP!Owned
         /\ PagesOf({test_page}) \cap TablesAt = {}
         /\ (PagesOf({test_page}) \cup TablesAt) \cap RP!Owned = {}
         /\ reused \subseteq {v \in VP!Page : v[1] = TestPage[1]}
         /\ TestFrame \in RP!Frame \ {0} /\ PagesOf({test_page}) = {TestFrame}
         /\ held \subseteq RP!Frame \ {0}
         /\ vpc # "idle" => /\ call.virt = TestPage /\ call.phys = TestFrame
                            /\ call.flags.present = TRUE /\ call = TestRequest(TestFrame)
         /\ vpc = "idle" => new_pt = 0
         /\ vpc \in {"zero", "set"} => new_pt \in VP!Tables \cup {0}
<1>1. held \subseteq RP!Frame \ {0}
  BY ProcessDischarged, RP!HeldFrames DEF KernelInv, RP!ProcessInv, RP!NULL
<1>2. QED
  BY <1>1, TestPageFacts, TestFrameFacts
  DEF KernelInv, KernelParts, Main, Beginning, Ownership, Running, Written, Memory, Early, Late

LEMMA MappedStep ==
  ASSUME KernelInv, vmm_map_page_goes_on PROVE KernelInv'
<1>1. /\ kpc = "mapped" /\ kpc' = "mapped" /\ UNCHANGED <<procvars, mainvars>>
      /\ VP!LinkTable \/ VP!ZeroTable \/ VP!SetPte
  BY SameSteps DEF vmm_map_page_goes_on
<1>2. /\ RP!ProcessInv /\ InOrder /\ ppc = "boot" /\ wrote = 0 /\ test_page # 0
      /\ VP!VmmInv /\ IdentityWalks
  BY <1>1, MappedFacts DEF InOrder
<1>3. vpc # "idle" /\ UNCHANGED pmmvars /\ held' = held
  BY <1>1 DEF VP!LinkTable, VP!ZeroTable, VP!SetPte, VP!pmmvars, pmmvars
<1>4. /\ call.virt = TestPage /\ call.phys = TestFrame /\ call.flags.present = TRUE
      /\ call = TestRequest(TestFrame)
  BY <1>1, <1>3, MappedFacts
<1>5. /\ VP!VmmInv' /\ TablesAt' = TablesAt
      /\ reused' \subseteq {v \in VP!Page : v[1] = TestPage[1]}
      /\ \A v \in VP!Page : v[1] \notin {TestPage[1], VP!Recursive} => VP!Walk(v)' = VP!Walk(v)
      /\ \/ vpc' \in {"zero", "set"} /\ call' = call /\ new_pt' \in VP!Tables' \cup {0}
         \/ vpc' = "idle" /\ new_pt' = 0 /\ VP!Walk(TestPage)'.frame = TestFrame
  <2>1. CASE VP!LinkTable
    <3>1. /\ vpc = "link" /\ vpc' = "zero" /\ call' = call /\ new_pt' = new_pt
          /\ reused' \subseteq reused \cup {v \in VP!Page : v[1] = TestPage[1]}
      BY <1>4, <2>1 DEF VP!LinkTable
    <3>2. /\ VP!VmmInv' /\ VP!Tables' = VP!Tables \cup {new_pt}
          /\ \A v \in VP!Page : v[1] \notin {TestPage[1], VP!Recursive} => VP!Walk(v)' = VP!Walk(v)
      BY <1>2, <1>4, <2>1, VmmDischarged, VP!LinkStep
    <3>3. new_pt # 0
      BY <1>1, <1>2, <3>1, MappedFacts DEF VP!VmmInv, VP!TablesOwned
    <3>4. TablesAt' = TablesAt
      BY <3>1, <3>2, <3>3 DEF TablesAt
    <3>5. QED BY <1>1, <3>1, <3>2, <3>4, MappedFacts
  <2>2. CASE VP!ZeroTable
    <3>1. /\ vpc = "zero" /\ vpc' = "set" /\ call' = call /\ new_pt' = new_pt /\ reused' = reused
      BY <2>2 DEF VP!ZeroTable
    <3>2. /\ VP!VmmInv' /\ VP!Tables' = VP!Tables
          /\ \A v \in VP!Page : v[1] \notin {TestPage[1], VP!Recursive} => VP!Walk(v)' = VP!Walk(v)
      BY <1>2, <1>4, <2>2, VmmDischarged, VP!ZeroStep
    <3>3. QED BY <1>1, <3>1, <3>2, MappedFacts DEF TablesAt
  <2>3. CASE VP!SetPte
    <3>1. /\ vpc = "set" /\ vpc' = "idle" /\ new_pt' = 0
          /\ reused' \subseteq reused \cup {v \in VP!Page : VP!Cell(v) = VP!Cell(TestPage)}
      BY <1>4, <2>3 DEF VP!SetPte
    <3>2. /\ VP!VmmInv' /\ VP!Tables' = VP!Tables
          /\ \A v \in VP!Page : v[1] # VP!Recursive =>
               IF VP!Cell(v) # VP!Cell(TestPage) THEN VP!Walk(v)' = VP!Walk(v)
               ELSE VP!Walk(v)'.frame = TestFrame
      BY <1>2, <1>4, <2>3, VmmDischarged, VP!SetStep
    <3>3. new_pt \in VP!Tables \cup {0}
      BY <1>1, <3>1, MappedFacts
    <3>4. TablesAt' = TablesAt
      BY <3>1, <3>2, <3>3 DEF TablesAt
    <3>5. reused' \subseteq {v \in VP!Page : v[1] = TestPage[1]}
      BY <1>1, <3>1, MappedFacts, TestPageFacts
    <3>6. \A v \in VP!Page : v[1] \notin {TestPage[1], VP!Recursive} => VP!Walk(v)' = VP!Walk(v)
      BY <3>2, TestPageFacts
    <3>7. VP!Walk(TestPage)'.frame = TestFrame
      BY <3>2, TestPageFacts
    <3>8. QED BY <3>1, <3>2, <3>4, <3>5, <3>6, <3>7
  <2>4. QED BY <1>1, <2>1, <2>2, <2>3
<1>6. Main' /\ TestFrame' = TestFrame /\ PagesOf({test_page'}) = PagesOf({test_page})
  BY <1>1, SameRest
<1>7. /\ RP!ProcessInv' /\ RP!Owned' = RP!Owned /\ ppc' = "boot" /\ wrote' = 0
      /\ test_page' # 0
  <2>1. RP!PP!OwnerInv' /\ RP!Owned \subseteq held'
    BY <1>1, <1>2, <1>3, OwnerQuiet, MappedFacts DEF RP!ProcessInv
  <2>2. QED BY <1>1, <1>2, <2>1, ThreadsStay DEF procvars, mainvars
<1>8. Beginning'
  BY <1>1, <1>7 DEF Beginning, Early
<1>9. Ownership'
  BY <1>1, <1>3, <1>5, <1>6, <1>7, MappedFacts DEF Ownership
<1>10. Running'
  BY <1>1, <1>4, <1>5, <1>6, <1>7 DEF Running
<1>11. Written'
  BY <1>7 DEF Written
<1>12. Memory'
  <2>1. IdentityWalks'
    <3>1. ASSUME NEW i \in VP!Index
          PROVE  /\ VP!Walk(<<0, i>>)' = VP!Walk(<<0, i>>)
                 /\ VP!Walk(<<KernelSlot, i>>)' = VP!Walk(<<KernelSlot, i>>)
      BY <1>5, TestPageFacts
    <3>2. QED BY <1>2, <3>1 DEF IdentityWalks
  <2>2. InOrder'
    BY <1>5, <1>6, <2>1 DEF InOrder, TestPage
  <2>3. QED BY <1>5, <2>2, TestPageFacts DEF Memory
<1>13. QED
  BY <1>6, <1>7, <1>8, <1>9, <1>10, <1>11, <1>12 DEF KernelInv, KernelParts

LEMMA WriteStep ==
  ASSUME KernelInv, write_test_page PROVE KernelInv'
<1>1. /\ kpc = "mapped" /\ vpc = "idle" /\ kpc' \in {"process", "fault"}
      /\ UNCHANGED <<pmmvars, tlb, vpc, call, new_pt, reused, procvars,
                     gdt, segments, p1, p2, test_page>>
  BY DEF write_test_page
<1>2. /\ RP!ProcessInv /\ InOrder /\ VP!VmmInv /\ IdentityWalks /\ ppc = "boot" /\ wrote = 0
      /\ new_pt = 0
  BY <1>1, MappedFacts DEF InOrder
<1>3. /\ held = PagesOf({test_page}) \cup TablesAt \cup RP!Owned
      /\ PagesOf({test_page}) \cap TablesAt = {}
      /\ (PagesOf({test_page}) \cup TablesAt) \cap RP!Owned = {}
      /\ reused \subseteq {v \in VP!Page : v[1] = TestPage[1]}
      /\ TestFrame \in RP!Frame \ {0} /\ PagesOf({test_page}) = {TestFrame}
  BY <1>1, MappedFacts
<1>4. RP!ProcessInv' /\ RP!Owned' = RP!Owned /\ ppc' = "boot"
  <2>1. RP!PP!OwnerInv'
    BY <1>1, <1>2, OwnerQuiet DEF RP!ProcessInv
  <2>2. RP!Owned \subseteq held'
    BY <1>1, <1>3 DEF pmmvars
  <2>3. QED BY <1>1, <1>2, <2>1, <2>2, ThreadsStay DEF procvars
<1>5. Main' /\ TestFrame' = TestFrame /\ PagesOf({test_page'}) = PagesOf({test_page})
  <2>1. Main
    BY DEF KernelInv, KernelParts
  <2>2. Main'
    BY <1>1, <2>1 DEF Main, IsPage, Late
  <2>3. QED BY <1>1, <2>2 DEF TestFrame, PagesOf
<1>6. Beginning'
  BY <1>1, <1>4 DEF Beginning, Early
<1>7. Running'
  BY <1>1, <1>2 DEF Running
<1>8. VP!Access(TestPage) \in VP!Entry /\ (VP!Access(TestPage)).frame \in VP!Frame
  BY <1>2, VmmDischarged, VP!WalkType, TestPageFacts DEF VP!Access, VP!VmmInv, VP!Typed, VP!Entry
<1>9. CASE ~Target.present /\ kpc' = "fault" /\ UNCHANGED <<mem, wrote>>
  <2>1. UNCHANGED vmmvars /\ UNCHANGED mem
    BY <1>1, <1>9 DEF vmmvars
  <2>2. VP!VmmInv' /\ VP!Tables' = VP!Tables /\ \A v : VP!Walk(v)' = VP!Walk(v)
    BY <1>1, <1>2, <2>1, VmmQuiet, WalksStay
  <2>3. Ownership'
    <3>1. TablesAt' = TablesAt
      BY <1>1, <2>2 DEF TablesAt
    <3>2. QED BY <1>3, <1>4, <1>5, <1>9, <3>1 DEF Ownership
  <2>4. Written'
    BY <1>2, <1>9 DEF Written
  <2>5. Memory'
    <3>1. IdentityWalks'
      BY <1>2, <2>2 DEF IdentityWalks
    <3>2. InOrder'
      BY <1>9, <2>2, <3>1 DEF InOrder
    <3>3. QED BY <1>1, <1>3, <3>2, TestPageFacts DEF Memory
  <2>6. QED
    BY <1>4, <1>5, <1>6, <1>7, <2>3, <2>4, <2>5 DEF KernelInv, KernelParts
<1>10. CASE /\ Target.present /\ mem' = [mem EXCEPT ![Target.frame][0] = Pattern]
            /\ wrote' = Target.frame /\ kpc' = "process"
  <2>1. PICK F \in VP!Frame :
          /\ F = Target.frame /\ mem' = [mem EXCEPT ![F][0] = Pattern] /\ wrote' = F
    BY <1>8, <1>10, SameWalk DEF Target
  <2>2. VP!Tables' = VP!Tables
    <3>1. mem[BootPde] \in VP!Table /\ mem \in [VP!Frame -> VP!Table]
      BY <1>2, VmmDischarged, VP!BootFrames DEF VP!VmmInv, VP!Typed
    <3>2. \A i \in VP!Index \ {0} : mem'[BootPde][i] = mem[BootPde][i]
      BY <2>1, <3>1, VmmDischarged, VP!BootFrames DEF VP!Table
    <3>3. VP!Slots' = VP!Slots /\ \A i \in VP!Slots : VP!Linked(i)' = VP!Linked(i)
      BY <3>2 DEF VP!Slots, VP!Linked
    <3>4. QED BY <3>3 DEF VP!Tables
  <2>3. Ownership'
    <3>1. TablesAt' = TablesAt
      BY <1>1, <2>2 DEF TablesAt
    <3>2. held' = held
      BY <1>1 DEF pmmvars
    <3>3. QED BY <1>3, <1>4, <1>5, <3>1, <3>2 DEF Ownership
  <2>4. CASE test_vaddr \in reused
    <3>1. Written'
      BY <1>1, <1>10, <2>4 DEF Written, Late
    <3>2. Memory'
      BY <1>1, <1>3, <1>10, <2>4, TestPageFacts DEF Memory, Late
    <3>3. QED
      BY <1>4, <1>5, <1>6, <1>7, <2>3, <3>1, <3>2 DEF KernelInv, KernelParts
  <2>5. CASE test_vaddr \notin reused
    <3>1. Target = VP!Walk(TestPage)
      <4>1. Target = IF tlb[TestPage].present THEN tlb[TestPage] ELSE VP!Walk(TestPage)
        BY SameWalk DEF Target, VP!Access
      <4>2. tlb[TestPage].present => tlb[TestPage] = VP!Walk(TestPage)
        BY <1>2, <2>5, TestPageFacts DEF VP!VmmInv, VP!StaleOnlyIfReused, VP!Cached
      <4>3. QED BY <4>1, <4>2
    <3>2. F = TestFrame
      BY <1>1, <1>2, <1>10, <2>1, <3>1 DEF InOrder
    <3>3. F \notin VP!Tables \cup {BootPde, BootPt}
      <4>1. F \in held /\ F \notin VP!Tables
        BY <1>3, <3>2 DEF TablesAt
      <4>2. F \notin {BootPde, BootPt}
        <5>1. VP!PM!FrameUp(KernelEnd) <= F
          BY <1>2, <4>1 DEF VP!VmmInv, VP!AllocatorInv
        <5>2. BootPde < VP!PM!FrameUp(KernelEnd) /\ BootPt < VP!PM!FrameUp(KernelEnd)
              /\ {BootPde, BootPt} \subseteq VP!Frame /\ VP!PM!FrameUp(KernelEnd) \in 1 .. MaxFrames
          BY VmmDischarged, VP!BootFrames, VP!Rounding
        <5>3. QED BY <5>1, <5>2, Sizes
      <4>3. QED BY <4>1, <4>2
    <3>4. Pattern \in VP!Entry
      <4>1. MaxFrames - 1 \in VP!Frame
        BY Sizes
      <4>2. QED BY <4>1, SameWalk, VmmDischarged, VP!EntryTypes DEF Pattern
    <3>5. VP!VmmInv' /\ \A v \in VP!Page : VP!Walk(v)' = VP!Walk(v)
      BY <1>1, <1>2, <2>1, <3>3, <3>4, VmmDischarged, VP!DataWrite
      DEF VP!pmmvars, pmmvars, VP!mapvars
    <3>6. Written'
      BY <1>10, <2>1, <3>2, <1>5 DEF Written, Late
    <3>7. Memory'
      <4>1. IdentityWalks'
        BY <1>2, <3>5, TestPageFacts DEF IdentityWalks
      <4>2. InOrder'
        BY <1>10, <3>5, <4>1 DEF InOrder
      <4>3. QED BY <1>1, <1>3, <4>2, TestPageFacts DEF Memory
    <3>8. QED
      BY <1>4, <1>5, <1>6, <1>7, <2>3, <3>6, <3>7 DEF KernelInv, KernelParts
  <2>6. QED BY <2>4, <2>5
<1>11. QED BY <1>9, <1>10 DEF write_test_page

-----------------------------------------------------------------------------
(* The threads, and the processor.                                         *)

\* From process_init on the tables are left alone, and a thread owns what it takes.
LEMMA LateStep ==
  ASSUME KernelInv, kpc \in {"process", "create_a", "create_b"},
         kpc' \in {"create_a", "create_b", "ready", "fault"},
         UNCHANGED <<vmmvars, mainvars>>,
         RP!ProcessInv', VP!VmmInv => VP!VmmInv', held \subseteq held',
         RP!Owned' = IF kpc' = "fault" THEN RP!Owned ELSE RP!Owned \cup (held' \ held),
         kpc' \in {"create_a", "create_b"} => ppc' \in {"idle", "stack"},
         kpc' = "ready" => ppc' = "idle"
  PROVE  KernelInv'
<1>1. /\ UNCHANGED mem /\ vpc' = "idle" /\ vpc = "idle" /\ new_pt' = 0 /\ reused' = reused
      /\ wrote' = wrote /\ new_pt = 0
  BY DEF vmmvars, mainvars, KernelInv, KernelParts, Running
<1>2. VP!Tables' = VP!Tables /\ \A v : VP!Walk(v)' = VP!Walk(v)
  BY <1>1, WalksStay
<1>3. Main' /\ TestFrame' = TestFrame /\ PagesOf({test_page'}) = PagesOf({test_page})
  BY SameRest DEF Late
<1>4. Beginning'
  BY DEF Beginning, Early
<1>5. Ownership'
  <2>1. TablesAt' = TablesAt
    BY <1>1, <1>2 DEF TablesAt
  <2>2. /\ held = PagesOf({test_page}) \cup TablesAt \cup RP!Owned
        /\ PagesOf({test_page}) \cap TablesAt = {}
        /\ (PagesOf({test_page}) \cup TablesAt) \cap RP!Owned = {}
    BY DEF KernelInv, KernelParts, Ownership, Early
  <2>3. CASE kpc' = "fault"
    BY <1>3, <2>1, <2>2, <2>3 DEF Ownership
  <2>4. CASE kpc' # "fault"
    <3>1. RP!Owned' = RP!Owned \cup (held' \ held)
      BY <2>4
    <3>2. QED BY <1>3, <2>1, <2>2, <3>1 DEF Ownership
  <2>5. QED BY <2>3, <2>4
<1>6. Running'
  BY <1>1 DEF Running
<1>7. Written'
  BY <1>1, <1>3 DEF KernelInv, KernelParts, Written, Late
<1>8. Memory'
  <2>1. InOrder => InOrder'
    BY <1>2 DEF InOrder, IdentityWalks
  <2>2. QED BY <1>1, <2>1 DEF KernelInv, KernelParts, Memory, Late
<1>9. QED BY <1>3, <1>4, <1>5, <1>6, <1>7, <1>8 DEF KernelInv, KernelParts

LEMMA ProcessInitStep ==
  ASSUME KernelInv, process_init PROVE KernelInv'
<1>1. /\ kpc = "process" /\ kpc' = "create_a" /\ RP!process_init
      /\ UNCHANGED <<vmmvars, mainvars>> /\ RP!ProcessInv
  BY SameProcess DEF process_init, Goto, KernelInv
<1>2. UNCHANGED pmmvars /\ ppc' = "idle"
  BY <1>1 DEF RP!process_init, RP!pmmvars, pmmvars
<1>3. PICK s \in Seq(RP!Frame \ {RP!NULL}) : RP!Threads(s)
  BY <1>1 DEF RP!ProcessInv
<1>4. RP!PP!OwnerInv' /\ RP!Typed' /\ RP!Extended(s) /\ RP!Owned' = RP!Owned
  BY <1>1, <1>3, ProcessDischarged, RP!InitProcessStep DEF RP!ProcessInv
<1>5. RP!ProcessInv'
  BY <1>4 DEF RP!ProcessInv, RP!Extended
<1>6. VP!VmmInv => VP!VmmInv'
  BY <1>1, <1>2, VmmQuiet
<1>7. held' = held
  BY <1>2 DEF pmmvars
<1>8. QED BY <1>1, <1>2, <1>4, <1>5, <1>6, <1>7, LateStep

LEMMA ProcessCreateStep ==
  ASSUME KernelInv, process_create PROVE KernelInv'
<1>1. /\ kpc \in {"create_a", "create_b"}
      /\ RP!allocate_pcb \/ RP!allocate_stack
      /\ UNCHANGED <<vmmvars, mainvars>> /\ RP!ProcessInv
      /\ kpc' = CASE ppc' = "idle" -> AfterCreate(kpc) [] ppc' = "stack" -> kpc
                  [] ppc' = "fault" -> "fault"
  BY SameProcess DEF process_create, KernelInv
<1>2. ppc' \in {"idle", "stack", "fault"} /\ PM!pmm_alloc_page
  BY <1>1, SameAlloc DEF RP!allocate_pcb, RP!allocate_stack
<1>3. /\ kpc' \in {"create_a", "create_b", "ready", "fault"}
      /\ kpc' = "fault" <=> ppc' = "fault"
      /\ kpc' \in {"create_a", "create_b"} => ppc' \in {"idle", "stack"}
      /\ kpc' = "ready" => ppc' = "idle"
  BY <1>1, <1>2 DEF AfterCreate
<1>4. VP!VmmInv => VP!VmmInv'
  BY <1>1, <1>2, AllocationOrder DEF KernelInv, KernelParts, Running
<1>5. held \subseteq held'
  BY <1>1, <1>2, Allocation DEF RP!ProcessInv
<1>6. RP!ProcessInv'
  <2>1. PICK s \in Seq(RP!Frame \ {RP!NULL}) : RP!Threads(s)
    BY <1>1 DEF RP!ProcessInv
  <2>2. RP!PP!OwnerInv' /\ RP!Typed' /\ RP!Extended(s)
    BY <1>1, <2>1, ProcessDischarged, RP!PcbStep, RP!StackStep DEF RP!ProcessInv
  <2>3. QED BY <2>2 DEF RP!ProcessInv, RP!Extended
<1>7. RP!Owned' = IF kpc' = "fault" THEN RP!Owned ELSE RP!Owned \cup (held' \ held)
  <2>1. CASE ppc' = "fault"
    <3>1. UNCHANGED <<RP!queuevars, proc, lost>>
      BY <1>1, <2>1 DEF RP!allocate_pcb, RP!allocate_stack, RP!ProcessInv
    <3>2. RP!Owned' = RP!Owned
      BY <3>1 DEF RP!Owned, RP!Queued, RP!Walk, RP!StackFrame, RP!queuevars
    <3>3. QED BY <1>3, <2>1, <3>2
  <2>2. CASE ppc' # "fault"
    BY <1>1, <1>3, <2>2, ProcessDischarged, RP!PagesTaken
  <2>3. QED BY <2>1, <2>2
<1>8. QED BY <1>1, <1>3, <1>4, <1>5, <1>6, <1>7, LateStep

\* What the TLB holds changes nothing else.
LEMMA ProcessorStep ==
  ASSUME KernelInv, processor \/ UNCHANGED vars PROVE KernelInv'
<1>1. /\ UNCHANGED <<pmmvars, procvars, mainvars, kpc>>
      /\ UNCHANGED <<mem, vpc, call, new_pt, reused>>
  BY SameProcessor
  DEF processor, vars, vmmvars, VP!Fill, VP!Evict, VP!pmmvars, pmmvars, VP!mapvars
<1>2. /\ held' = held /\ kpc' = kpc /\ ppc' = ppc /\ vpc' = vpc /\ call' = call
      /\ new_pt' = new_pt /\ reused' = reused /\ UNCHANGED mem
      /\ gdt' = gdt /\ segments' = segments /\ p1' = p1 /\ p2' = p2
      /\ test_page' = test_page /\ wrote' = wrote
  BY <1>1 DEF pmmvars, procvars, mainvars
<1>3. VP!Tables' = VP!Tables /\ \A v : VP!Walk(v)' = VP!Walk(v)
  BY <1>2, WalksStay
<1>4. VP!VmmInv => VP!VmmInv'
  <2>1. CASE processor
    <3>1. \E v \in VP!Page : VP!Fill(v) \/ VP!Evict(v)
      BY <2>1, SameProcessor, SameWalk DEF processor
    <3>2. QED BY <3>1, VmmDischarged, VP!TlbStep
  <2>2. CASE UNCHANGED vars
    BY <2>2, VmmQuiet DEF vars
  <2>3. QED BY <2>1, <2>2
<1>5. RP!ProcessInv' /\ RP!Owned' = RP!Owned
  <2>1. RP!PP!OwnerInv /\ RP!ProcessInv
    BY DEF KernelInv, RP!ProcessInv
  <2>2. PICK s \in Seq(RP!Frame \ {RP!NULL}) : RP!Threads(s)
    BY <2>1 DEF RP!ProcessInv
  <2>3. RP!Owned \subseteq held
    BY <2>2, ProcessDischarged, RP!OwnedFrames
    DEF RP!OwnedIsListed, RP!OwnedBy, RP!Threads, RP!Linked, RP!Apart
  <2>4. QED BY <1>1, <1>2, <2>1, <2>3, OwnerQuiet, ThreadsStay
<1>6. /\ TestFrame' = TestFrame /\ InTest' = InTest /\ TablesAt' = TablesAt
      /\ PagesOf({test_page'}) = PagesOf({test_page})
      /\ PagesOf(InTest') = PagesOf(InTest)
  BY <1>2, <1>3 DEF TestFrame, InTest, TablesAt, PagesOf
<1>7. Main' /\ Beginning'
  BY <1>2, <1>3, <1>6 DEF KernelInv, KernelParts, Main, IsPage, Beginning, TestedPages
<1>8. Ownership' /\ Running' /\ Written'
  BY <1>2, <1>3, <1>5, <1>6 DEF KernelInv, KernelParts, Ownership, Running, Written
<1>9. Memory'
  <2>1. InOrder => InOrder'
    BY <1>2, <1>3, <1>4, <1>6 DEF InOrder, IdentityWalks
  <2>2. QED BY <1>2, <2>1 DEF KernelInv, KernelParts, Memory
<1>10. QED BY <1>5, <1>7, <1>8, <1>9 DEF KernelInv, KernelParts

-----------------------------------------------------------------------------
(* What the invariant says in every reachable state of the boot.           *)

\* The parts of KernelInv hold in every reachable state of kernel_main.
THEOREM KernelInvariance == Spec => []KernelInv
<1>1. KernelInv /\ [Next]_vars => KernelInv'
  BY MagicStep, TestStep, VmmInitStep, MapTestStep, MappedStep, WriteStep,
     ProcessInitStep, ProcessCreateStep, ProcessorStep
  DEF Next, kernel_main
<1>2. QED BY KernelStart, <1>1, PTL DEF Spec

\* The descriptors gdt_init writes, read as the processor reads them.
LEMMA DescriptorFields ==
  ASSUME NEW n \in 1 .. 4, NEW access \in {154, 146, 250, 242},
         access = CASE n = 1 -> 154 [] n = 2 -> 146 [] n = 3 -> 250 [] n = 4 -> 242
  PROVE  /\ Present(Descriptors[n]) /\ Flat(Descriptors[n])
         /\ Privilege(Descriptors[n]) = IF n \in {1, 2} THEN 0 ELSE 3
         /\ n \in {1, 3} => IsCode(Descriptors[n])
         /\ n \in {2, 4} => IsData(Descriptors[n])
<1>1. Descriptors[n] = gdt_set_gate(Zero, Whole, access, 207)
  BY DEF Descriptors
<1>2. 2^1 = 2 /\ 2^3 = 8 /\ 2^4 = 16 /\ 2^6 = 64 /\ 2^7 = 128
  OBVIOUS
<1>3. ASSUME NEW d, d = gdt_set_gate(Zero, Whole, access, 207)
      PROVE  /\ d.access = access /\ d.limit_low = 65535 /\ d.granularity = 207
             /\ d.base_low = 0 /\ d.base_middle = 0 /\ d.base_high = 0
  BY <1>3 DEF gdt_set_gate, Zero, Whole, Word32
<1>4. /\ Descriptors[n].access = access /\ Descriptors[n].limit_low = 65535
      /\ Descriptors[n].granularity = 207 /\ Descriptors[n].base_low = 0
      /\ Descriptors[n].base_middle = 0 /\ Descriptors[n].base_high = 0
  BY <1>1, <1>3
<1>5. Flat(Descriptors[n])
  BY <1>2, <1>4 DEF Flat, BitOf
<1>6. Present(Descriptors[n])
  BY <1>2, <1>4 DEF Present, BitOf
<1>7. Privilege(Descriptors[n]) = IF n \in {1, 2} THEN 0 ELSE 3
  BY <1>4 DEF Privilege
<1>8. n \in {1, 3} => IsCode(Descriptors[n])
  BY <1>2, <1>4 DEF IsCode, BitOf
<1>9. n \in {2, 4} => IsData(Descriptors[n])
  BY <1>2, <1>4 DEF IsData, BitOf
<1>10. QED BY <1>5, <1>6, <1>7, <1>8, <1>9

\* From gdt_init on every selector in use, and each one the gates and user code
\* are to use, names a present flat segment of its kind and ring
\* (gdt.c:24-30, boot/gdt_flush.S).
THEOREM SegmentsAreUsable == Spec => []SegmentsUsable
<1>1. KernelInv => SegmentsUsable
  <2>1. SUFFICES ASSUME KernelInv, gdt # <<>> PROVE SegmentsUsable
    BY DEF SegmentsUsable
  <2>2. gdt = Descriptors /\ segments.cs = 8 /\ segments.data = 16
    BY <2>1 DEF KernelInv, KernelParts, Main, Reloaded
  <2>3. /\ Descriptor(8) = Descriptors[1] /\ Descriptor(16) = Descriptors[2]
        /\ Descriptor(27) = Descriptors[3] /\ Descriptor(35) = Descriptors[4]
    <3>1. 8 \div 8 = 1 /\ 16 \div 8 = 2 /\ 27 \div 8 = 3 /\ 35 \div 8 = 4
      OBVIOUS
    <3>2. QED BY <2>2, <3>1 DEF Descriptor
  <2>4. \A n \in 1 .. 4 :
          /\ Present(Descriptors[n]) /\ Flat(Descriptors[n])
          /\ Privilege(Descriptors[n]) = IF n \in {1, 2} THEN 0 ELSE 3
          /\ n \in {1, 3} => IsCode(Descriptors[n])
          /\ n \in {2, 4} => IsData(Descriptors[n])
    BY DescriptorFields
  <2>5. 8 % 4 = 0 /\ 16 % 4 = 0 /\ 27 % 4 = 3 /\ 35 % 4 = 3
    OBVIOUS
  <2>6. \A selector \in {8, 16, 27, 35} :
          /\ Present(Descriptor(selector)) /\ Flat(Descriptor(selector))
          /\ Privilege(Descriptor(selector)) = selector % 4
    BY <2>3, <2>4, <2>5
  <2>7. IsCode(Descriptor(8)) /\ IsCode(Descriptor(27)) /\ IsData(Descriptor(16)) /\ IsData(Descriptor(35))
    BY <2>3, <2>4
  <2>8. QED BY <2>2, <2>6, <2>7 DEF SegmentsUsable
<1>2. QED BY <1>1, KernelInvariance, PTL

\* Whatever the TLB holds, the first 4 MiB stay accessible at their own address
\* and in the kernel's slot for the whole boot: the mapping of the test page and
\* the write to it disturb neither (boot.S:148, mmu.c:237-245), unless the test
\* page's table was linked with an old entry for it.
THEOREM IdentityIsKept == Spec => []IdentityKept
<1>1. KernelInv => IdentityKept
  <2>1. SUFFICES ASSUME KernelInv, test_vaddr \notin reused,
                        NEW i \in VP!Index, NEW j \in {0, KernelSlot}
                 PROVE  VP!Access(<<j, i>>) = VP!Maps(i, FALSE)
    BY SameWalk DEF IdentityKept
  <2>2. VP!VmmInv /\ IdentityWalks /\ reused \subseteq {v \in VP!Page : v[1] = test_vaddr[1]}
    BY <2>1 DEF KernelInv, KernelParts, Memory, InOrder
  <2>3. VP!Walk(<<j, i>>) = VP!Maps(i, FALSE)
    BY <2>2 DEF IdentityWalks
  <2>4. <<j, i>> \in VP!Page /\ <<j, i>>[1] = j /\ j # VP!Recursive /\ j # test_vaddr[1]
    BY TestPageFacts
  <2>5. tlb[<<j, i>>].present => tlb[<<j, i>>] = VP!Walk(<<j, i>>)
    BY <2>2, <2>4 DEF VP!VmmInv, VP!StaleOnlyIfReused, VP!Cached
  <2>6. QED BY <2>3, <2>5 DEF VP!Access
<1>2. QED BY <1>1, KernelInvariance, PTL

\* The test pattern of vmm_init goes to the page it allocated and to no other,
\* whatever the TLB holds, unless the page's table was linked with an old entry
\* for it (mmu.c:233-245).
THEOREM TestWriteIsRight == Spec => []TestWriteLands
<1>1. KernelInv => TestWriteLands
  BY DEF KernelInv, KernelParts, Written, TestWriteLands, TestFrame
<1>2. QED BY <1>1, KernelInvariance, PTL

LEMMA ThreeParts ==
  ASSUME NEW A, NEW B, NEW C, IsFiniteSet(A), IsFiniteSet(B), IsFiniteSet(C),
         A \cap B = {}, (A \cup B) \cap C = {}
  PROVE  Cardinality(A \cup B \cup C) = Cardinality(A) + Cardinality(B) + Cardinality(C)
<1>1. /\ IsFiniteSet(A \cup B)
      /\ Cardinality(A \cup B) = Cardinality(A) + Cardinality(B) - Cardinality(A \cap B)
  BY FS_Union
<1>2. Cardinality(A \cup B \cup C) =
        Cardinality(A \cup B) + Cardinality(C) - Cardinality((A \cup B) \cap C)
  BY <1>1, FS_Union
<1>3. Cardinality(A \cap B) = 0 /\ Cardinality((A \cup B) \cap C) = 0
  BY FS_EmptySet
<1>4. Cardinality(A) \in Nat /\ Cardinality(B) \in Nat /\ Cardinality(C) \in Nat
  BY FS_CardinalityType
<1>5. QED BY <1>1, <1>2, <1>3, <1>4

\* While the allocator, the page tables and the threads share the memory every
\* page in use has exactly one owner, and the boot leaks none but those a failed
\* process_create forgets (kernel.c:48-70, mmu.c:230-247, process.c:57-90).
THEOREM EveryPageOwned == Spec => []AllOwned
<1>1. KernelInv => AllOwned
  <2>1. SUFFICES ASSUME KernelInv, kpc \notin {"free2", "fault"}
                 PROVE  /\ held = PagesOf(Testing \cup {test_page}) \cup TablesAt \cup RP!Owned
                        /\ Cardinality(held) = Cardinality(PagesOf(Testing \cup {test_page}))
                             + Cardinality(TablesAt) + Cardinality(RP!Owned)
    BY SameWalk, SameProcess DEF AllOwned, TablesNow, TablesAt
  <2>2. /\ held = PagesOf(Testing \cup {test_page}) \cup TablesAt \cup RP!Owned
        /\ PagesOf(Testing \cup {test_page}) \cap TablesAt = {}
        /\ (PagesOf(Testing \cup {test_page}) \cup TablesAt) \cap RP!Owned = {}
    <3>1. CASE kpc \in Early
      <4>1. TestedPages /\ VP!Tables = {} /\ vpc = "idle" /\ new_pt = 0 /\ ppc = "boot"
        BY <2>1, <3>1 DEF KernelInv, KernelParts, Beginning, Running, Early
      <4>2. TablesAt = {} /\ RP!Owned = {}
        BY <2>1, <4>1, NoThreadYet DEF KernelInv, TablesAt
      <4>3. PagesOf(Testing \cup {test_page}) = PagesOf(InTest)
        BY <2>1, <4>1 DEF TestedPages, Testing, InTest, PagesOf, PM!NULL
      <4>4. QED BY <4>1, <4>2, <4>3 DEF TestedPages
    <3>2. CASE kpc \notin Early
      <4>1. Testing = {}
        BY <3>2 DEF Testing, Early
      <4>2. QED BY <2>1, <3>2, <4>1 DEF KernelInv, KernelParts, Ownership
    <3>3. QED BY <3>1, <3>2
  <2>3. IsFiniteSet(held)
    <3>1. held \subseteq 0 .. MaxFrames - 1 /\ 0 \in Int /\ MaxFrames - 1 \in Int
      BY <2>1, ProcessDischarged, RP!HeldFrames, Sizes DEF KernelInv, RP!ProcessInv
    <3>2. QED BY <3>1, FS_Interval, FS_Subset
  <2>4. /\ IsFiniteSet(PagesOf(Testing \cup {test_page})) /\ IsFiniteSet(TablesAt)
        /\ IsFiniteSet(RP!Owned)
    <3>1. /\ PagesOf(Testing \cup {test_page}) \subseteq held
          /\ TablesAt \subseteq held /\ RP!Owned \subseteq held
      BY <2>2
    <3>2. QED BY <2>3, <3>1, FS_Subset
  <2>5. QED BY <2>2, <2>4, ThreeParts
<1>2. QED BY <1>1, KernelInvariance, PTL
-----------------------------------------------------------------------------
(* How the boot ends.                                                      *)

\* How many pages vmm_init and the two calls of process_create have asked for.
\* A call that fails at its first page does not ask for the second, which it
\* would not have got.
Asked ==
  CASE kpc = "map" -> 1
    [] kpc \in {"mapped", "process"} -> 2
    [] kpc = "create_a" -> IF ppc = "stack" THEN 3 ELSE 2
    [] kpc = "create_b" -> IF ppc = "stack" THEN 5 ELSE 4
    [] kpc = "ready" -> 6
    [] OTHER -> 0

\* The pages in use are the first n there are.
TookPages(n) ==
  /\ RP!PP!LowestHeld
  /\ Cardinality(held) = IF pmm_total < n THEN pmm_total ELSE n

\* The threads made, and the PCBs lost, with the first n pages.
Made(n)   == IF pmm_total < 4 \/ n < 4 THEN 0 ELSE IF pmm_total < 6 \/ n < 6 THEN 1 ELSE 2
Missed(n) == IF (pmm_total = 3 /\ n >= 4) \/ (pmm_total = 5 /\ n >= 6) THEN 1 ELSE 0
Created(n) ==
  /\ \A i \in 3 .. n : i <= pmm_total => BootPage(i) \in 0 .. Entries - 1
  /\ RP!Queue = [i \in 1 .. Made(n) |-> i]
  /\ Cardinality(lost) = Missed(n)
  /\ n \in {3, 5} => pmm_total >= n

\* With one page the test page never gets its table, and nothing the TLB might
\* still hold hides that; with two it is mapped when vmm_map_page is done.
TestMapped ==
  /\ pmm_total >= 1
  /\ pmm_total = 1 => vpc = "idle" /\ reused = {} /\ ~VP!Walk(TestPage).present
  /\ pmm_total # 1 /\ vpc = "idle" => VP!Walk(TestPage).present

Creating == {"create_a", "create_b", "ready"}
Outcome ==
  /\ kpc \in {"map", "mapped", "process"} \cup Creating => TookPages(Asked)
  /\ kpc = "map" => pmm_total >= 1
  /\ kpc = "mapped" => TestMapped
  /\ kpc \in {"process"} \cup Creating => pmm_total # 1
  /\ kpc \in Creating => Created(Asked)
  /\ kpc = "fault" => Doomed

LEMMA SameSizes ==
  /\ \A S : /\ RP!PP!Cardinality(S) = Cardinality(S) /\ RP!Cardinality(S) = Cardinality(S)
            /\ PR!Cardinality(S) = Cardinality(S)
  /\ RP!PP!Released(mmap) = PM!Released(mmap)
  /\ PR!Queue = RP!Queue
<1>1. \A S : /\ RP!PP!Cardinality(S) = Cardinality(S) /\ RP!Cardinality(S) = Cardinality(S)
             /\ PR!Cardinality(S) = Cardinality(S)
  BY DEF RP!PP!Cardinality, RP!Cardinality, PR!Cardinality, Cardinality
<1>2. RP!PP!Released(mmap) = PM!Released(mmap)
  BY DEF RP!PP!Released, PM!Released, RP!PP!RegionFrames, PM!RegionFrames,
         RP!PP!RegionStart, PM!RegionStart, RP!PP!RegionEnd, PM!RegionEnd,
         RP!PP!FrameUp, PM!FrameUp, RP!PP!FrameDown, PM!FrameDown, RP!PP!Frame, PM!Frame
<1>3. PR!Queue = RP!Queue
  <2>1. PR!Queued = RP!Queued /\ PR!Walk = RP!Walk
    BY DEF PR!Queued, RP!Queued, PR!Walk, RP!Walk, PR!NULL, RP!NULL
  <2>2. QED BY <1>1, <2>1 DEF PR!Queue, RP!Queue
<1>4. QED BY <1>1, <1>2, <1>3

\* The map and the number of pages decide; neither changes after pmm_init.
LEMMA MapDecides ==
  ASSUME UNCHANGED <<mmap, pmm_total>>
  PROVE  /\ Doomed' = Doomed
         /\ \A n : /\ BootPage(n)' = BootPage(n)
                   /\ Made(n)' = Made(n) /\ Missed(n)' = Missed(n)
<1>1. PM!Released(mmap)' = PM!Released(mmap)
  BY DEF PM!Released, PM!RegionFrames, PM!RegionStart, PM!RegionEnd,
         PM!FrameUp, PM!FrameDown, PM!Frame
<1>2. \A n : BootPage(n)' = BootPage(n)
  BY <1>1 DEF BootPage
<1>3. QED BY <1>2 DEF Doomed, Threads, Made, Missed

\* No two released pages have the same number of pages below them.
LEMMA BootPageIs ==
  ASSUME NEW R \in SUBSET (0 .. MaxFrames - 1), R = PM!Released(mmap),
         NEW f \in R, NEW n, Cardinality({g \in R : g < f}) = n - 1
  PROVE  BootPage(n) = f
<1> DEFINE Below(h) == {g \in R : g < h}
<1>1. IsFiniteSet(R) /\ R \subseteq Int
  <2>1. MaxFrames - 1 \in Int
    BY Sizes
  <2>2. IsFiniteSet(0 .. MaxFrames - 1)
    BY <2>1, FS_Interval
  <2>3. IsFiniteSet(R)
    BY <2>2, FS_Subset
  <2>4. QED BY <2>1, <2>3
<1>2. ASSUME NEW a \in R, NEW b \in R, a < b PROVE Cardinality(Below(a)) # Cardinality(Below(b))
  <2>1. /\ Below(a) \subseteq Below(b) /\ a \in Below(b) /\ a \notin Below(a)
        /\ IsFiniteSet(Below(b))
    BY <1>1, <1>2, FS_Subset
  <2>2. ASSUME NEW S, NEW T, T \subseteq S, T # S, IsFiniteSet(S)
        PROVE  Cardinality(T) # Cardinality(S)
    BY <2>2, FS_Subset
  <2> HIDE DEF Below
  <2>3. QED BY <2>1, <2>2
<1>3. \A h \in R : Cardinality(Below(h)) = n - 1 => h = f
  BY <1>1, <1>2
<1>4. QED BY <1>3 DEF BootPage

\* An allocation takes the next page, or finds that there is none.
LEMMA NextPage ==
  ASSUME RP!PP!OwnerInv, NEW n \in Nat, TookPages(n), PM!pmm_alloc_page
  PROVE  /\ UNCHANGED <<mmap, pmm_total>> /\ pmm_total \in Nat
         /\ \/ /\ pmm_total <= n /\ last'.page = 0 /\ held' = held
               /\ \A m \in Nat : m >= n => TookPages(m)'
            \/ /\ pmm_total > n /\ last'.page # 0
               /\ PM!FrameDown(last'.page) = BootPage(n + 1) /\ BootPage(n + 1) \in Nat
               /\ TookPages(n + 1)'
<1>1. RP!PP!PmmAssumption /\ RP!PP!pmm_alloc_page /\ RP!PP!LowestHeld /\ pmm_total \in Nat
  BY SameAlloc, ProcessDischarged, RP!Discharged, RP!SameAlloc
  DEF TookPages, RP!PP!OwnerInv, RP!PP!PmmInv, RP!PP!TypeOK
<1>2. /\ UNCHANGED <<mmap, pmm_total>> /\ RP!PP!LowestHeld'
      /\ \/ Cardinality(held) = pmm_total /\ held' = held /\ last'.page = 0
         \/ /\ Cardinality(held) < pmm_total
            /\ \E f \in RP!PP!Frame : RP!PP!TakesNext(f)
  BY <1>1, ProcessDischarged, RP!PP!AllocNext, SameSizes DEF RP!PP!NULL
<1>3. CASE Cardinality(held) = pmm_total /\ held' = held /\ last'.page = 0
  <2>1. pmm_total <= n
    BY <1>1, <1>3 DEF TookPages
  <2>2. ASSUME NEW m \in Nat, m >= n PROVE TookPages(m)'
    BY <1>1, <1>2, <1>3, <2>1, <2>2 DEF TookPages
  <2>3. QED BY <1>1, <1>2, <1>3, <2>1, <2>2
<1>4. CASE Cardinality(held) < pmm_total /\ \E f \in RP!PP!Frame : RP!PP!TakesNext(f)
  <2>1. PICK f \in RP!PP!Frame : RP!PP!TakesNext(f)
    BY <1>4
  <2>2. pmm_total > n /\ Cardinality(held) = n
    BY <1>1, <1>4 DEF TookPages
  <2>3. /\ f \in PM!Released(mmap) /\ Cardinality({g \in PM!Released(mmap) : g < f}) = n
        /\ Cardinality(held') = n + 1 /\ last'.page = RP!PP!PageOf(f)
    BY <2>1, <2>2, SameSizes DEF RP!PP!TakesNext
  <2>4. /\ PM!Released(mmap) \subseteq 0 .. MaxFrames - 1
        /\ \A g \in PM!Released(mmap) : g >= 1
    <3>1. mmap \in MemoryMaps
      BY DEF RP!PP!OwnerInv, RP!PP!PmmInv, RP!PP!TypeOK
    <3>2. /\ RP!PP!Released(mmap) \subseteq RP!PP!Frame
          /\ \A g \in RP!PP!Released(mmap) : g >= RP!PP!FrameUp(KernelEnd)
          /\ RP!PP!FrameUp(KernelEnd) \in 1 .. MaxFrames
      BY <1>1, <3>1, ProcessDischarged, RP!PP!ReleasedFrames, RP!PP!KernelEndFrame
    <3>3. QED BY <3>2, SameSizes, Sizes DEF RP!PP!Frame
  <2>5. BootPage(n + 1) = f
    <3>1. n + 1 - 1 = n
      OBVIOUS
    <3>2. QED BY <2>3, <2>4, <3>1, BootPageIs
  <2>6. last'.page # 0 /\ PM!FrameDown(last'.page) = f
    <3>1. f \in RP!Frame \ {0}
      BY <2>3, <2>4, Sizes
    <3>2. last'.page = PM!PageOf(f)
      BY <2>3 DEF RP!PP!PageOf, PM!PageOf
    <3>3. QED BY <3>1, <3>2, PageSets
  <2>7. TookPages(n + 1)'
    BY <1>1, <1>2, <2>2, <2>3 DEF TookPages
  <2>8. f \in Nat
    BY <2>3, <2>4, Sizes
  <2>9. QED BY <1>1, <1>2, <2>2, <2>5, <2>6, <2>7, <2>8
<1>5. QED BY <1>2, <1>3, <1>4

\* What Outcome says changes only with the allocator, the threads and the tables.
LEMMA OutcomeKept ==
  ASSUME UNCHANGED <<mmap, pmm_total, held, lost, pcb, ready_queue_head>>
  PROVE  /\ Doomed' = Doomed
         /\ \A n : (TookPages(n)' <=> TookPages(n)) /\ (Created(n)' <=> Created(n))
<1>1. /\ Doomed' = Doomed
      /\ \A n : /\ BootPage(n)' = BootPage(n)
                /\ Made(n)' = Made(n) /\ Missed(n)' = Missed(n)
  BY MapDecides
<1>2. RP!PP!LowestHeld' <=> RP!PP!LowestHeld
  <2>1. RP!PP!Released(mmap)' = RP!PP!Released(mmap)
    BY DEF RP!PP!Released, RP!PP!RegionFrames, RP!PP!RegionStart, RP!PP!RegionEnd,
           RP!PP!FrameUp, RP!PP!FrameDown, RP!PP!Frame
  <2>2. QED BY <2>1 DEF RP!PP!LowestHeld
<1>3. RP!Queue' = RP!Queue
  BY DEF RP!Queue, RP!Queued, RP!Walk
<1>4. QED BY <1>1, <1>2, <1>3 DEF TookPages, Created

LEMMA OutcomeStart == Init => Outcome
BY DEF Init, Outcome, Creating

LEMMA OutcomeEarly ==
  ASSUME check_magic \/ gdt_init \/ pmm_init \/ alloc_p1 \/ alloc_p2 \/ free_p1 \/ free_p2
  PROVE  Outcome'
<1>1. kpc' \in Early
  BY DEF check_magic, gdt_init, pmm_init, alloc_p1, alloc_p2, free_p1, free_p2, Goto, Early
<1>2. QED BY <1>1 DEF Outcome, Early, Creating

LEMMA OutcomeVmm == ASSUME KernelInv, vmm_init PROVE Outcome'
<1>1. /\ kpc = "vmm" /\ kpc \in Early /\ kpc' = (IF last'.page = 0 THEN "process" ELSE "map")
      /\ PM!pmm_alloc_page
  BY DEF vmm_init, Early, PM!NULL
<1>2. RP!PP!OwnerInv /\ held = {} /\ pmm_total \in Nat
  <2>1. RP!PP!OwnerInv /\ TestedPages
    BY <1>1, EarlyFacts
  <2>2. QED
    BY <1>1, <2>1, PageSets
    DEF TestedPages, InTest, RP!PP!OwnerInv, RP!PP!PmmInv, RP!PP!TypeOK
<1>3. TookPages(0)
  BY <1>2, FS_EmptySet DEF TookPages, RP!PP!LowestHeld
<1>4. /\ UNCHANGED <<mmap, pmm_total>>
      /\ \/ pmm_total <= 0 /\ last'.page = 0 /\ TookPages(2)'
         \/ pmm_total > 0 /\ last'.page # 0 /\ TookPages(1)'
  <2>1. 0 + 1 = 1 /\ 2 \in Nat /\ 0 \in Nat /\ 2 >= 0
    OBVIOUS
  <2>2. QED BY <1>1, <1>2, <1>3, <2>1, NextPage
<1>5. CASE pmm_total <= 0 /\ last'.page = 0 /\ TookPages(2)'
  <2>1. kpc' = "process" /\ Asked' = 2 /\ pmm_total' # 1
    BY <1>1, <1>2, <1>4, <1>5 DEF Asked
  <2>2. QED BY <1>5, <2>1 DEF Outcome, Creating
<1>6. CASE pmm_total > 0 /\ last'.page # 0 /\ TookPages(1)'
  <2>1. kpc' = "map" /\ Asked' = 1 /\ pmm_total' >= 1
    BY <1>1, <1>2, <1>4, <1>6 DEF Asked
  <2>2. QED BY <1>6, <2>1 DEF Outcome, Creating
<1>7. QED BY <1>4, <1>5, <1>6

\* The test page has no table yet, so vmm_map_page asks for the second page.
LEMMA OutcomeMap == ASSUME KernelInv, Outcome, map_test_page PROVE Outcome'
<1> DEFINE r == TestRequest(TestFrame)
<1>1. kpc = "map" /\ kpc' = "mapped" /\ VP!vmm_map_page(r)
  BY SameMap DEF map_test_page, Goto
<1>2. /\ VP!Tables = {} /\ reused = {} /\ ~VP!Walk(TestPage).present /\ VP!VmmInv
      /\ RP!PP!OwnerInv /\ test_page # 0 /\ IsPage(test_page) /\ vpc = "idle"
  BY <1>1 DEF KernelInv, KernelParts, Main, Beginning, Running, Memory, InOrder, RP!ProcessInv,
              Early, Late
<1>3. TookPages(1) /\ pmm_total >= 1
  BY <1>1 DEF Outcome, Asked
<1>4. r \in {TestRequest(f) : f \in 0 .. MaxFrames - 1} /\ r.virt = TestPage
  BY <1>2, TestFrameFacts, TestPageFacts
<1>5. VP!TableMissing(r.virt)
  <2>1. ~mem[BootPde][TestPage[1]].present
    <3>1. TestPage[1] \in VP!Index \ {0, KernelSlot, VP!Recursive}
      BY TestPageFacts DEF VP!Page
    <3>2. QED BY <1>2, <3>1 DEF VP!Tables, VP!Slots
  <2>2. QED BY <1>2, <1>4, <2>1, VmmDischarged, VP!TableMissingExact
<1>6. /\ PM!pmm_alloc_page /\ reused' = reused
      /\ \/ last'.page = 0 /\ vpc' = "idle" /\ UNCHANGED mem
         \/ last'.page # 0 /\ vpc' = "link"
  BY <1>1, <1>2, <1>5, SameAlloc DEF VP!vmm_map_page, VP!mapvars, VP!PM!NULL
<1>7. /\ UNCHANGED <<mmap, pmm_total>> /\ pmm_total \in Nat
      /\ \/ pmm_total <= 1 /\ last'.page = 0 /\ TookPages(2)'
         \/ pmm_total > 1 /\ last'.page # 0 /\ TookPages(2)'
  <2>1. 1 + 1 = 2 /\ 1 \in Nat /\ 2 \in Nat /\ 2 >= 1
    OBVIOUS
  <2>2. QED BY <1>2, <1>3, <1>6, <2>1, NextPage
<1>8. TestMapped'
  <2>1. CASE pmm_total <= 1 /\ last'.page = 0
    <3>1. vpc' = "idle" /\ UNCHANGED mem /\ pmm_total' = 1 /\ reused' = {}
      BY <1>2, <1>3, <1>6, <1>7, <2>1
    <3>2. ~VP!Walk(TestPage)'.present
      BY <1>2, <3>1, WalksStay
    <3>3. QED BY <3>1, <3>2 DEF TestMapped, TestPage
  <2>2. CASE pmm_total > 1 /\ last'.page # 0
    BY <1>3, <1>6, <1>7, <2>2 DEF TestMapped
  <2>3. QED BY <1>7, <2>1, <2>2
<1>9. Asked' = 2 /\ TookPages(2)'
  BY <1>1, <1>7 DEF Asked
<1>10. QED BY <1>1, <1>8, <1>9 DEF Outcome, Creating

LEMMA OutcomeMapped ==
  ASSUME KernelInv, Outcome, vmm_map_page_goes_on PROVE Outcome'
<1>1. /\ kpc = "mapped" /\ kpc' = "mapped"
      /\ UNCHANGED <<mmap, pmm_total, held, lost, pcb, ready_queue_head>>
      /\ vpc # "idle"
      /\ VP!LinkTable \/ VP!ZeroTable \/ VP!SetPte
  BY SameSteps
  DEF vmm_map_page_goes_on, procvars, VP!LinkTable, VP!ZeroTable, VP!SetPte, VP!pmmvars
<1>2. TookPages(2) /\ TestMapped /\ VP!VmmInv
  BY <1>1, MappedFacts DEF Outcome, Asked, InOrder
<1>3. pmm_total >= 1 /\ pmm_total # 1
  BY <1>1, <1>2 DEF TestMapped
<1>4. vpc' = "idle" => VP!Walk(TestPage)'.present
  <2>1. SUFFICES ASSUME vpc' = "idle" PROVE VP!Walk(TestPage)'.present
    OBVIOUS
  <2>2. VP!SetPte /\ call.virt = TestPage /\ call.flags.present = TRUE
    BY <1>1, <2>1, MappedFacts DEF VP!LinkTable, VP!ZeroTable
  <2>3. QED BY <1>2, <2>2, VmmDischarged, VP!SetStep, TestPageFacts
<1>5. TestMapped'
  BY <1>1, <1>3, <1>4 DEF TestMapped, TestPage
<1>6. TookPages(2)' /\ Asked' = 2
  BY <1>1, <1>2, OutcomeKept DEF Asked
<1>7. QED BY <1>1, <1>5, <1>6 DEF Outcome, Creating

\* The write reaches a page unless there was only one.
LEMMA OutcomeWrite ==
  ASSUME KernelInv, Outcome, write_test_page PROVE Outcome'
<1>1. /\ kpc = "mapped" /\ vpc = "idle"
      /\ UNCHANGED <<mmap, pmm_total, held, lost, pcb, ready_queue_head>>
      /\ \/ VP!Access(TestPage).present /\ kpc' = "process"
         \/ ~VP!Access(TestPage).present /\ kpc' = "fault"
  BY SameWalk DEF write_test_page, Target, pmmvars, procvars
<1>2. TookPages(2) /\ TestMapped /\ VP!VmmInv
  BY <1>1, MappedFacts DEF Outcome, Asked, InOrder
<1>3. CASE pmm_total = 1
  <2>1. reused = {} /\ ~VP!Walk(TestPage).present
    BY <1>1, <1>2, <1>3 DEF TestMapped
  <2>2. tlb[TestPage].present => tlb[TestPage] = VP!Walk(TestPage)
    BY <1>2, <2>1, TestPageFacts DEF VP!VmmInv, VP!StaleOnlyIfReused, VP!Cached
  <2>3. kpc' = "fault"
    BY <1>1, <2>1, <2>2 DEF VP!Access
  <2>4. Doomed'
    BY <1>1, <1>3 DEF Doomed
  <2>5. QED BY <2>3, <2>4 DEF Outcome, Creating
<1>4. CASE pmm_total # 1
  <2>1. VP!Walk(TestPage).present
    BY <1>1, <1>2, <1>4 DEF TestMapped
  <2>2. kpc' = "process"
    BY <1>1, <2>1 DEF VP!Access
  <2>3. TookPages(2)' /\ Asked' = 2
    BY <1>1, <1>2, <2>2, OutcomeKept DEF Asked
  <2>4. QED BY <1>1, <1>4, <2>2, <2>3 DEF Outcome, Creating
<1>5. QED BY <1>3, <1>4

LEMMA OutcomeThreads ==
  ASSUME KernelInv, Outcome, process_init PROVE Outcome'
<1>1. /\ kpc = "process" /\ kpc' = "create_a" /\ RP!process_init /\ RP!ProcessInv
      /\ ppc' = "idle" /\ UNCHANGED <<mmap, pmm_total, held, pcb>>
  BY SameProcess DEF process_init, Goto, KernelInv, RP!process_init, RP!pmmvars
<1>2. TookPages(2) /\ pmm_total # 1
  BY <1>1 DEF Outcome, Asked
<1>3. RP!Queue' = <<>> /\ lost' = {}
  BY <1>1, ProcessDischarged, RP!StartEmpty
<1>4. TookPages(2)'
  <2>1. RP!PP!LowestHeld'
    <3>1. RP!PP!Released(mmap)' = RP!PP!Released(mmap)
      BY <1>1 DEF RP!PP!Released, RP!PP!RegionFrames, RP!PP!RegionStart, RP!PP!RegionEnd,
             RP!PP!FrameUp, RP!PP!FrameDown, RP!PP!Frame
    <3>2. QED BY <1>1, <1>2, <3>1 DEF TookPages, RP!PP!LowestHeld
  <2>2. QED BY <1>1, <1>2, <2>1 DEF TookPages
<1>5. Made(2)' = 0 /\ Missed(2)' = 0
  BY DEF Made, Missed
<1>6. Created(2)'
  <2>1. RP!Queue' = [i \in 1 .. 0 |-> i]
    BY <1>3
  <2>2. Cardinality(lost') = 0
    BY <1>3, FS_EmptySet
  <2>3. QED BY <1>5, <2>1, <2>2 DEF Created
<1>7. Asked' = 2
  BY <1>1 DEF Asked
<1>8. QED BY <1>1, <1>2, <1>4, <1>6, <1>7 DEF Outcome, Creating

\* What one more page, or none, does to the threads.
LEMMA CreatedNext ==
  ASSUME KernelInv, NEW n \in {2, 3, 4, 5}, TookPages(n), Created(n), pmm_total # 1,
         (n \in {2, 4} /\ RP!allocate_pcb) \/ (n \in {3, 5} /\ RP!allocate_stack)
  PROVE  /\ UNCHANGED <<mmap, pmm_total>>
         /\ \/ ppc' = "fault" /\ Doomed'
            \/ n \in {2, 4} /\ ppc' = "idle"  /\ TookPages(n + 2)' /\ Created(n + 2)'
            \/ n \in {2, 4} /\ ppc' = "stack" /\ TookPages(n + 1)' /\ Created(n + 1)'
            \/ n \in {3, 5} /\ ppc' = "idle"  /\ TookPages(n + 1)' /\ Created(n + 1)'
<1>1. RP!ProcessInv /\ RP!PP!OwnerInv /\ PM!pmm_alloc_page
  BY SameAlloc DEF KernelInv, RP!ProcessInv, RP!allocate_pcb, RP!allocate_stack
<1>2. /\ UNCHANGED <<mmap, pmm_total>> /\ pmm_total \in Nat
      /\ \/ /\ pmm_total <= n /\ last'.page = 0
            /\ TookPages(n + 1)' /\ TookPages(n + 2)'
         \/ /\ pmm_total > n /\ last'.page # 0
            /\ PM!FrameDown(last'.page) = BootPage(n + 1) /\ BootPage(n + 1) \in Nat
            /\ TookPages(n + 1)'
  <2>1. n \in Nat /\ n + 1 \in Nat /\ n + 2 \in Nat /\ n + 1 >= n /\ n + 2 >= n
    OBVIOUS
  <2>2. QED BY <1>1, <2>1, NextPage
<1>3. /\ Doomed' = Doomed
      /\ \A i : BootPage(i)' = BootPage(i) /\ Made(i)' = Made(i) /\ Missed(i)' = Missed(i)
  BY <1>2, MapDecides
<1>4. /\ \A i \in 3 .. n : i <= pmm_total => BootPage(i) \in 0 .. Entries - 1
      /\ RP!Queue = [i \in 1 .. Made(n) |-> i] /\ Cardinality(lost) = Missed(n)
      /\ (n \in {3, 5} => pmm_total >= n) /\ Made(n) \in Nat
  BY DEF Created, Made
<1>5. /\ RP!allocate_pcb \/ ppc' = "fault" => RP!Queue' = RP!Queue /\ lost' = lost
      /\ RP!allocate_stack /\ last'.page = 0 =>
           RP!Queue' = RP!Queue /\ Cardinality(lost') = Cardinality(lost) + 1
      /\ RP!allocate_stack /\ last'.page # 0 /\ ppc' # "fault" /\ Cardinality(lost) = 0 =>
           lost' = lost /\ RP!Queue' = [i \in 1 .. Made(n) + 1 |-> i]
  <2>1. RP!NULL = 0
    BY DEF RP!NULL
  <2>2. QED BY <1>1, <1>4, <2>1, ProcessDischarged, RP!CreationGrows, SameSizes
\* A page the identity map does not reach.
<1>6. CASE pmm_total > n /\ ppc' = "fault" /\ BootPage(n + 1) >= Entries
  <2>1. n + 1 \in Threads
    BY <1>2, <1>6 DEF Threads
  <2>2. QED BY <1>2, <1>3, <1>6, <2>1 DEF Doomed
\* What is kept of Created(n) as long as the new page can be reached.
<1>7. ASSUME NEW m \in {n + 1, n + 2}, pmm_total <= n \/ (m = n + 1 /\ BootPage(n + 1) \in 0 .. Entries - 1)
      PROVE  \A i \in 3 .. m : i <= pmm_total' => BootPage(i)' \in 0 .. Entries - 1
  <2>1. SUFFICES ASSUME NEW i \in 3 .. m, i <= pmm_total PROVE BootPage(i) \in 0 .. Entries - 1
    BY <1>2, <1>3
  <2>2. i \in 3 .. n \/ (i = n + 1 /\ m = n + 1 /\ BootPage(n + 1) \in 0 .. Entries - 1)
    BY <1>2, <1>7, <2>1
  <2>3. QED BY <1>4, <2>1, <2>2
<1>8. CASE n \in {2, 4} /\ RP!allocate_pcb
  <2>1. \/ last'.page = 0 /\ ppc' = "idle"
        \/ last'.page # 0 /\ BootPage(n + 1) >= Entries /\ ppc' = "fault"
        \/ last'.page # 0 /\ BootPage(n + 1) \in 0 .. Entries - 1 /\ ppc' = "stack"
    <3>1. Entries \in Nat
      BY VmmDischarged DEF VP!VmmAssumption
    <3>2. \/ last'.page = 0 /\ ppc' = "idle"
          \/ last'.page # 0 /\ ~(PM!FrameDown(last'.page) < Entries) /\ ppc' = "fault"
          \/ last'.page # 0 /\ PM!FrameDown(last'.page) < Entries /\ ppc' = "stack"
      BY <1>8 DEF RP!allocate_pcb, RP!Reachable, RP!PM!FrameDown, PM!FrameDown, RP!PM!NULL
    <3>3. QED BY <1>2, <3>1, <3>2
  <2>2. CASE last'.page = 0 /\ ppc' = "idle"
    <3>1. pmm_total <= n /\ TookPages(n + 2)'
      BY <1>2, <2>2
    <3>2. Made(n + 2) = Made(n) /\ Missed(n + 2) = Missed(n)
      BY <1>2, <1>8, <3>1 DEF Made, Missed
    <3>3. Created(n + 2)'
      <4>1. n + 2 \notin {3, 5}
        BY <1>8
      <4>2. QED BY <1>3, <1>4, <1>5, <1>7, <1>8, <3>1, <3>2, <4>1 DEF Created
    <3>4. QED BY <1>2, <1>8, <2>2, <3>1, <3>3
  <2>3. CASE last'.page # 0 /\ BootPage(n + 1) >= Entries /\ ppc' = "fault"
    BY <1>2, <1>6, <2>3
  <2>4. CASE last'.page # 0 /\ BootPage(n + 1) \in 0 .. Entries - 1 /\ ppc' = "stack"
    <3>1. pmm_total > n /\ BootPage(n + 1) \in 0 .. Entries - 1 /\ TookPages(n + 1)' /\ pmm_total' >= n + 1
      BY <1>2, <2>4
    <3>2. Made(n + 1) = Made(n) /\ Missed(n + 1) = Missed(n)
      BY <1>2, <1>8, <3>1 DEF Made, Missed
    <3>3. Created(n + 1)'
      BY <1>3, <1>4, <1>5, <1>7, <1>8, <3>1, <3>2 DEF Created
    <3>4. QED BY <1>2, <1>8, <2>4, <3>1, <3>3
  <2>5. QED BY <2>1, <2>2, <2>3, <2>4
<1>9. CASE n \in {3, 5} /\ RP!allocate_stack
  <2>1. \/ last'.page = 0 /\ ppc' = "idle"
        \/ last'.page # 0 /\ BootPage(n + 1) >= Entries /\ ppc' = "fault"
        \/ last'.page # 0 /\ BootPage(n + 1) \in 0 .. Entries - 1 /\ ppc' = "idle"
    <3>1. Entries \in Nat
      BY VmmDischarged DEF VP!VmmAssumption
    <3>2. \/ last'.page = 0 /\ ppc' = "idle"
          \/ last'.page # 0 /\ ~(PM!FrameDown(last'.page) < Entries) /\ ppc' = "fault"
          \/ last'.page # 0 /\ PM!FrameDown(last'.page) < Entries /\ ppc' = "idle"
      BY <1>9 DEF RP!allocate_stack, RP!Reachable, RP!PM!FrameDown, PM!FrameDown, RP!PM!NULL
    <3>3. QED BY <1>2, <3>1, <3>2
  <2>2. n + 1 \notin {3, 5}
    BY <1>9
  <2>3. CASE last'.page = 0 /\ ppc' = "idle"
    <3>1. pmm_total = n /\ TookPages(n + 1)'
      BY <1>2, <1>4, <1>9, <2>3
    <3>2. Made(n + 1) = Made(n) /\ Missed(n + 1) = Missed(n) + 1
      BY <1>2, <1>9, <3>1 DEF Made, Missed
    <3>3. Created(n + 1)'
      BY <1>2, <1>3, <1>4, <1>5, <1>7, <1>9, <2>2, <2>3, <3>1, <3>2 DEF Created
    <3>4. QED BY <1>2, <1>9, <2>3, <3>1, <3>3
  <2>4. CASE last'.page # 0 /\ BootPage(n + 1) >= Entries /\ ppc' = "fault"
    BY <1>2, <1>6, <2>4
  <2>5. CASE last'.page # 0 /\ BootPage(n + 1) \in 0 .. Entries - 1 /\ ppc' = "idle"
    <3>1. pmm_total > n /\ BootPage(n + 1) \in 0 .. Entries - 1 /\ TookPages(n + 1)'
      BY <1>2, <2>5
    <3>2. Made(n + 1) = Made(n) + 1 /\ Missed(n + 1) = 0 /\ Missed(n) = 0
      BY <1>2, <1>9, <3>1 DEF Made, Missed
    <3>3. Created(n + 1)'
      <4>1. lost' = lost /\ RP!Queue' = [i \in 1 .. Made(n) + 1 |-> i]
        BY <1>4, <1>5, <1>9, <2>5, <3>2
      <4>2. QED BY <1>3, <1>4, <1>7, <2>2, <3>1, <3>2, <4>1 DEF Created
    <3>4. QED BY <1>2, <1>9, <2>5, <3>1, <3>3
  <2>6. QED BY <2>1, <2>3, <2>4, <2>5
<1>10. QED BY <1>8, <1>9

LEMMA OutcomeCreate ==
  ASSUME KernelInv, Outcome, process_create PROVE Outcome'
<1>1. /\ kpc \in {"create_a", "create_b"} /\ ppc \in {"idle", "stack"}
      /\ RP!allocate_pcb \/ RP!allocate_stack
      /\ kpc' = CASE ppc' = "idle" -> AfterCreate(kpc) [] ppc' = "stack" -> kpc
                  [] ppc' = "fault" -> "fault"
  BY SameProcess DEF process_create, KernelInv, KernelParts, Running
<1>2. TookPages(Asked) /\ Created(Asked) /\ pmm_total # 1
  BY <1>1 DEF Outcome, Creating
<1>3. PICK n \in {2, 3, 4, 5} :
        /\ n = Asked
        /\ n = IF kpc = "create_a" THEN (IF ppc = "stack" THEN 3 ELSE 2)
               ELSE IF ppc = "stack" THEN 5 ELSE 4
  BY <1>1 DEF Asked
<1>4. (n \in {2, 4} /\ RP!allocate_pcb) \/ (n \in {3, 5} /\ RP!allocate_stack)
  BY <1>1, <1>3 DEF RP!allocate_pcb, RP!allocate_stack
<1>5. /\ UNCHANGED <<mmap, pmm_total>>
      /\ \/ ppc' = "fault" /\ Doomed'
         \/ n \in {2, 4} /\ ppc' = "idle"  /\ TookPages(n + 2)' /\ Created(n + 2)'
         \/ n \in {2, 4} /\ ppc' = "stack" /\ TookPages(n + 1)' /\ Created(n + 1)'
         \/ n \in {3, 5} /\ ppc' = "idle"  /\ TookPages(n + 1)' /\ Created(n + 1)'
  BY <1>2, <1>3, <1>4, CreatedNext
<1>6. CASE ppc' = "fault" /\ Doomed'
  <2>1. kpc' = "fault"
    BY <1>1, <1>6
  <2>2. QED BY <1>6, <2>1 DEF Outcome, Creating
<1>7. ASSUME NEW m \in {3, 4, 5, 6}, TookPages(m)', Created(m)', m = Asked', kpc' \in Creating
      PROVE  Outcome'
  BY <1>2, <1>5, <1>7 DEF Outcome, Creating
<1>8. CASE n \in {2, 4} /\ ppc' = "idle" /\ TookPages(n + 2)' /\ Created(n + 2)'
  <2>1. Asked' = n + 2 /\ kpc' \in Creating
    BY <1>1, <1>3, <1>8 DEF Asked, AfterCreate, Creating
  <2>2. QED BY <1>7, <1>8, <2>1
<1>9. CASE n \in {2, 4} /\ ppc' = "stack" /\ TookPages(n + 1)' /\ Created(n + 1)'
  <2>1. Asked' = n + 1 /\ kpc' \in Creating
    BY <1>1, <1>3, <1>9 DEF Asked, Creating
  <2>2. QED BY <1>7, <1>9, <2>1
<1>10. CASE n \in {3, 5} /\ ppc' = "idle" /\ TookPages(n + 1)' /\ Created(n + 1)'
  <2>1. Asked' = n + 1 /\ kpc' \in Creating
    BY <1>1, <1>3, <1>10 DEF Asked, AfterCreate, Creating
  <2>2. QED BY <1>7, <1>10, <2>1
<1>11. QED BY <1>5, <1>6, <1>8, <1>9, <1>10

LEMMA OutcomeProcessor ==
  ASSUME Outcome, processor \/ UNCHANGED vars PROVE Outcome'
<1>1. /\ UNCHANGED <<mmap, pmm_total, held, lost, pcb, ready_queue_head>>
      /\ UNCHANGED <<kpc, ppc, vpc, reused, mem>>
  BY SameProcessor
  DEF processor, vars, pmmvars, vmmvars, procvars, VP!Fill, VP!Evict, VP!pmmvars, VP!mapvars
<1>2. /\ Doomed' = Doomed /\ Asked' = Asked
      /\ \A n : (TookPages(n)' <=> TookPages(n)) /\ (Created(n)' <=> Created(n))
  BY <1>1, OutcomeKept DEF Asked
<1>3. (kpc = "mapped" => TestMapped) => (kpc' = "mapped" => TestMapped')
  BY <1>1, WalksStay DEF TestMapped, TestPage
<1>4. QED BY <1>1, <1>2, <1>3 DEF Outcome

\* How the boot ends depends on nothing but the number of pages and where they
\* lie: with none or two pages no thread, with one a fault in vmm_init, with
\* three a lost PCB, with four one thread, with five one and a lost PCB, with
\* six two; and a page fault whenever a thread's page lies beyond the identity
\* map (kernel.c:73-100, process.c:57-90, mmu.c:230-245).
THEOREM BootEndsAsItMust == Spec => []BootOutcome
<1>1. Init => Outcome
  BY OutcomeStart
<1>2. KernelInv /\ Outcome /\ [Next]_vars => Outcome'
  BY OutcomeEarly, OutcomeVmm, OutcomeMap, OutcomeMapped, OutcomeWrite, OutcomeThreads,
     OutcomeCreate, OutcomeProcessor
  DEF Next, kernel_main
<1>3. KernelInv /\ Outcome => BootOutcome
  <2>1. SUFFICES ASSUME KernelInv, Outcome, kpc = "ready"
                 PROVE  /\ ~Doomed
                        /\ Len(RP!Queue) = IF pmm_total < 4 THEN 0 ELSE IF pmm_total < 6 THEN 1 ELSE 2
                        /\ Cardinality(lost) = IF pmm_total \in {3, 5} THEN 1 ELSE 0
                        /\ pmm_free = IF pmm_total < 6 THEN 0 ELSE pmm_total - 6
                        /\ \A i \in DOMAIN RP!Queue : RP!Queue[i] = i
    BY SameSizes DEF BootOutcome, Outcome
  <2>2. Asked = 6 /\ TookPages(6) /\ Created(6) /\ pmm_total # 1
    BY <2>1 DEF Asked, Outcome, Creating
  <2>3. /\ pmm_total \in Nat /\ pmm_free \in Nat
        /\ pmm_free + Cardinality(held) = pmm_total
    <3>1. /\ pmm_total \in Nat /\ pmm_free \in Nat
          /\ RP!PP!Ready => pmm_free + Cardinality(held) = pmm_total
          /\ ~RP!PP!Ready => pmm_total = 0 /\ pmm_free = 0 /\ held = {}
      BY <2>1, SameSizes
      DEF KernelInv, RP!ProcessInv, RP!PP!OwnerInv, RP!PP!PmmInv, RP!PP!TypeOK,
          RP!PP!Conservation, RP!PP!ClosedBeforeInit
    <3>2. QED BY <3>1, FS_EmptySet
  <2>4. ~Doomed
    <3>1. \A i \in 3 .. 6 : i <= pmm_total => BootPage(i) \in 0 .. Entries - 1
      BY <2>2 DEF Created
    <3>2. ASSUME NEW i \in Threads, BootPage(i) >= Entries PROVE FALSE
      <4>1. BootPage(i) \in 0 .. Entries - 1 /\ Entries \in Nat
        BY <3>1, VmmDischarged DEF Threads, VP!VmmAssumption
      <4>2. QED BY <3>2, <4>1
    <3>3. QED BY <2>2, <3>2 DEF Doomed
  <2>5. /\ Made(6) = (IF pmm_total < 4 THEN 0 ELSE IF pmm_total < 6 THEN 1 ELSE 2)
        /\ Missed(6) = (IF pmm_total \in {3, 5} THEN 1 ELSE 0)
    BY <2>3 DEF Made, Missed
  <2>6. pmm_free = IF pmm_total < 6 THEN 0 ELSE pmm_total - 6
    BY <2>2, <2>3 DEF TookPages
  <2>7. RP!Queue = [i \in 1 .. Made(6) |-> i] /\ Cardinality(lost) = Missed(6) /\ Made(6) \in Nat
    BY <2>2 DEF Created, Made
  <2>8. Len(RP!Queue) = Made(6) /\ \A i \in DOMAIN RP!Queue : RP!Queue[i] = i
    BY <2>7
  <2>9. QED BY <2>4, <2>5, <2>6, <2>7, <2>8
<1>4. QED BY <1>1, <1>2, <1>3, KernelInvariance, PTL DEF Spec
=============================================================================
