------------------------------ MODULE VmmProofs ------------------------------
(***************************************************************************)
(* Proofs about Vmm for every size of the tables, every memory map, every  *)
(* set of requests, every content of fresh frames and every TLB: the       *)
(* kernel never faults on its own tables, what the TLB holds of the        *)
(* recursive window is never stale, every table is a frame of its own, and *)
(* a stale translation of an ordinary page has only one origin, the        *)
(* replacement of a present entry.                                         *)
(***************************************************************************)
EXTENDS Vmm, FiniteSetTheorems, TLAPS

\* Its facts about numbers are about every operator.
Numbers == INSTANCE Folding WITH Op <- +

-----------------------------------------------------------------------------
(* The allocator below: of Pmm only this much is needed.                   *)

\* What is handed out is not free, and neither holds a byte of the kernel;
\* before pmm_init nothing is handed out at all.
AllocatorInv ==
  /\ PM!TypeOK
  /\ kernel_end_frame \in {0, PM!FrameUp(KernelEnd)}
  /\ ~PM!Ready => pmm_free = 0 /\ held = {}
  /\ PM!Ready =>
       /\ PM!FreeFrames \cap held = {}
       /\ \A f \in PM!FreeFrames \cup held : PM!FrameUp(KernelEnd) <= f

LEMMA Rounding ==
  /\ PM!FrameUp(KernelEnd) \in 1 .. MaxFrames
  /\ PM!FrameDown(KernelEnd - 1) < PM!FrameUp(KernelEnd)
  /\ \A a \in Nat : PM!FrameUp(a) \in Nat
  /\ \A a, b \in Nat : a <= b => PM!FrameUp(a) <= PM!FrameUp(b)
<1>1. KernelEnd \in Nat \ {0} /\ KernelEnd <= MaxFrames * PageSize
      /\ PageSize \in Nat \ {0} /\ MaxFrames \in Nat \ {0}
  BY VmmAssumption
<1>2. PM!FrameUp(KernelEnd) \in 1 .. MaxFrames
  BY <1>1 DEF PM!FrameUp
<1>3. PM!FrameDown(KernelEnd - 1) < PM!FrameUp(KernelEnd)
  BY <1>1 DEF PM!FrameUp, PM!FrameDown
<1>4. ASSUME NEW a \in Nat, NEW b \in Nat, a <= b
      PROVE  a \div PageSize <= b \div PageSize
  BY <1>1, <1>4
<1>5. ASSUME NEW a \in Nat, NEW b \in Nat, a <= b
      PROVE  PM!FrameUp(a) <= PM!FrameUp(b)
  <2>1. /\ a + PageSize - 1 \in Nat /\ b + PageSize - 1 \in Nat
        /\ a + PageSize - 1 <= b + PageSize - 1
    BY <1>1, <1>5
  <2>2. QED BY <2>1, <1>4 DEF PM!FrameUp
<1>6. ASSUME NEW a \in Nat PROVE PM!FrameUp(a) \in Nat
  BY <1>1 DEF PM!FrameUp
<1>7. QED BY <1>2, <1>3, <1>5, <1>6

\* The boot tables lie inside the kernel, hence below every frame in circulation.
LEMMA BootFrames ==
  /\ {BootPde, BootPt} \subseteq Frame \ {0}
  /\ BootPde < PM!FrameUp(KernelEnd) /\ BootPt < PM!FrameUp(KernelEnd)
  /\ BootPde # BootPt
<1>1. MaxFrames \in Nat /\ PM!FrameDown(KernelEnd - 1) \in Int
  BY VmmAssumption DEF PM!FrameDown
<1>2. /\ PM!FrameUp(KernelEnd) \in 1 .. MaxFrames
      /\ PM!FrameDown(KernelEnd - 1) < PM!FrameUp(KernelEnd)
  BY Rounding
<1>3. /\ BootPde \in 1 .. PM!FrameDown(KernelEnd - 1)
      /\ BootPt \in 1 .. PM!FrameDown(KernelEnd - 1)
      /\ BootPde # BootPt
  BY VmmAssumption
<1>4. QED BY <1>1, <1>2, <1>3 DEF Frame, PM!Frame

LEMMA FrameOfPage ==
  ASSUME NEW f \in Frame
  PROVE  /\ PM!FrameDown(PM!PageOf(f)) = f
         /\ PM!PageOf(f) \in PM!Address
         /\ PM!PageOf(f) = 0 => f = 0
BY VmmAssumption DEF Frame, PM!Frame, PM!FrameDown, PM!PageOf, PM!Address

LEMMA InitAllocator == PM!Init => AllocatorInv
<1> SUFFICES ASSUME PM!Init PROVE AllocatorInv
  OBVIOUS
<1>1. PM!TypeOK
  BY VmmAssumption DEF PM!Init, PM!TypeOK, PM!Call, PM!Address, PM!NULL
<1>2. QED BY <1>1 DEF PM!Init, AllocatorInv, PM!Ready

LEMMA ReleasedFrames ==
  ASSUME NEW map \in MemoryMaps
  PROVE  /\ PM!Released(map) \subseteq Frame
         /\ \A f \in PM!Released(map) : PM!FrameUp(KernelEnd) <= f
         /\ PM!Counted(map) \in Nat
<1>1. ASSUME NEW i \in DOMAIN map, NEW f \in PM!RegionFrames(map[i])
      PROVE  f \in Frame /\ PM!FrameUp(KernelEnd) <= f
  <2>1. map[i] \in PM!Region
    BY VmmAssumption
  <2>2. KernelEnd \in Nat /\ PM!RegionStart(map[i]) \in Nat
        /\ KernelEnd <= PM!RegionStart(map[i])
    BY <2>1, VmmAssumption DEF PM!RegionStart, PM!Region
  <2>3. PM!FrameUp(KernelEnd) <= PM!FrameUp(PM!RegionStart(map[i]))
    BY <2>2, Rounding
  <2>4. f \in Frame /\ PM!FrameUp(PM!RegionStart(map[i])) <= f
    BY DEF PM!RegionFrames, Frame
  <2>5. /\ PM!FrameUp(PM!RegionStart(map[i])) \in Int /\ f \in Int
        /\ PM!FrameUp(KernelEnd) \in Int
    <3>1. PM!FrameUp(PM!RegionStart(map[i])) \in Nat
      BY <2>2, Rounding
    <3>2. QED BY <2>4, <3>1, Rounding, VmmAssumption DEF Frame, PM!Frame
  <2>6. QED BY <2>3, <2>4, <2>5
<1>2. PM!Released(map) \subseteq Frame
  BY <1>1 DEF PM!Released
<1>3. IsFiniteSet(Frame)
  <2>1. 0 \in Int /\ MaxFrames - 1 \in Int
    BY VmmAssumption
  <2>2. IsFiniteSet(0 .. MaxFrames - 1)
    BY <2>1, FS_Interval
  <2>3. QED BY <2>2 DEF Frame, PM!Frame
<1>4. PM!Counted(map) \in Nat
  <2>1. IsFiniteSet(PM!Released(map))
    BY <1>2, <1>3, FS_Subset
  <2>2. QED BY <2>1, FS_CardinalityType DEF PM!Counted, PM!Cardinality, Cardinality
<1>5. \A f \in PM!Released(map) : PM!FrameUp(KernelEnd) <= f
  BY <1>1 DEF PM!Released
<1>6. QED BY <1>2, <1>4, <1>5

LEMMA InitStep == AllocatorInv /\ PM!pmm_init => AllocatorInv' /\ held = {} /\ held' = {}
<1> SUFFICES ASSUME AllocatorInv, PM!pmm_init
             PROVE  AllocatorInv' /\ held = {} /\ held' = {}
  OBVIOUS
<1>1. /\ PM!Released(mmap) \subseteq Frame /\ PM!Counted(mmap) \in Nat
      /\ \A f \in PM!Released(mmap) : PM!FrameUp(KernelEnd) <= f
  BY ReleasedFrames DEF AllocatorInv, PM!TypeOK
<1>2. ~PM!Ready /\ held = {} /\ held' = {}
  BY DEF AllocatorInv, PM!pmm_init, PM!Ready
<1>3. PM!FreeFrames' = PM!Released(mmap)
  BY <1>1 DEF PM!pmm_init, PM!FreeFrames, Frame
<1>4. PM!TypeOK'
  <2>1. pmm_bitmap' \in [Frame -> {0, 1}] /\ mmap' \in MemoryMaps
    BY DEF AllocatorInv, PM!TypeOK, PM!pmm_init, Frame
  <2>2. pmm_total' \in Nat /\ pmm_free' \in Nat
    BY <1>1 DEF AllocatorInv, PM!TypeOK, PM!pmm_init
  <2>3. kernel_end_frame' \in 0 .. MaxFrames /\ pmm_next_free' \in 0 .. MaxFrames
    BY Rounding, VmmAssumption DEF PM!pmm_init
  <2>4. last' \in [op : {"boot", "init", "alloc", "free"}, page : PM!Address]
    BY VmmAssumption DEF PM!pmm_init, PM!Call, PM!NULL, PM!Address
  <2>5. QED BY <1>2, <2>1, <2>2, <2>3, <2>4 DEF PM!TypeOK, Frame
<1>5. kernel_end_frame' = PM!FrameUp(KernelEnd) /\ PM!Ready'
  BY Rounding DEF PM!pmm_init, PM!Ready
<1>6. QED BY <1>1, <1>2, <1>3, <1>4, <1>5 DEF AllocatorInv

\* An allocation fails and changes nothing that matters, or hands out one frame
\* that was free, that nobody held, and that lies beyond the kernel.
Fails == last'.page = PM!NULL /\ UNCHANGED <<pmm_bitmap, held, kernel_end_frame>>
HandsOut(f) ==
  /\ PM!Ready /\ PM!FrameUp(KernelEnd) <= f
  /\ f \in PM!FreeFrames \ held
  /\ last'.page # PM!NULL /\ PM!FrameDown(last'.page) = f
  /\ held' = held \cup {f} /\ PM!FreeFrames' = PM!FreeFrames \ {f}

LEMMA AllocStep ==
  ASSUME AllocatorInv, PM!pmm_alloc_page
  PROVE  AllocatorInv' /\ (Fails \/ \E f \in Frame : HandsOut(f))
<1>1. CASE PM!Candidates = {}
  <2>1. /\ last' = PM!Call("alloc", PM!NULL)
        /\ UNCHANGED <<mmap, pmm_bitmap, pmm_total, pmm_free, kernel_end_frame,
                       pmm_next_free, held>>
    BY <1>1 DEF PM!pmm_alloc_page
  <2>2. last' \in [op : {"boot", "init", "alloc", "free"}, page : PM!Address]
    BY <2>1, VmmAssumption DEF PM!Call, PM!NULL, PM!Address
  <2>3. Fails
    BY <2>1 DEF Fails, PM!Call
  <2>4. QED
    BY <2>1, <2>2, <2>3 DEF AllocatorInv, PM!TypeOK, PM!Ready, PM!FreeFrames
<1>2. CASE PM!Candidates # {}
  <2> DEFINE f == PM!Lowest(PM!Candidates)
  <2>1. PM!Candidates \subseteq PM!FreeFrames /\ pmm_free # 0
    BY <1>2, VmmAssumption
    DEF AllocatorInv, PM!TypeOK, PM!Candidates, PM!Clear, PM!FreeFrames, PM!Frame
  <2>2. PM!Ready
    BY <2>1 DEF AllocatorInv
  <2>3. f \in PM!Candidates
    <3>1. PM!Candidates \in SUBSET Nat
      BY <2>1 DEF PM!FreeFrames, PM!Frame
    <3>2. QED BY <1>2, <3>1, Numbers!LeastExists DEF PM!Lowest
  <2>4. PM!Take(f) /\ last' = PM!Call("alloc", PM!PageOf(f))
        /\ UNCHANGED <<mmap, pmm_total, kernel_end_frame>>
    BY <1>2 DEF PM!pmm_alloc_page
  <2> HIDE DEF f
  <2>5. f \in PM!FreeFrames \ held /\ f \in Frame /\ PM!FrameUp(KernelEnd) <= f
    BY <2>1, <2>2, <2>3 DEF AllocatorInv, PM!FreeFrames, Frame
  <2>6. held' = held \cup {f} /\ PM!FreeFrames' = PM!FreeFrames \ {f}
    BY <2>4, <2>5 DEF AllocatorInv, PM!TypeOK, PM!Take, PM!FreeFrames, Frame
  <2>7. last'.page = PM!PageOf(f) /\ PM!PageOf(f) # 0
    BY <2>4, <2>5, Rounding, FrameOfPage DEF PM!Call, Frame, PM!Frame
  <2>8. HandsOut(f)
    BY <2>2, <2>5, <2>6, <2>7, FrameOfPage DEF HandsOut, PM!NULL
  <2>9. PM!TypeOK'
    <3>1. pmm_bitmap' \in [Frame -> {0, 1}] /\ held' \in SUBSET Frame
      BY <2>4, <2>5 DEF AllocatorInv, PM!TypeOK, PM!Take, Frame
    <3>2. pmm_free' \in Nat /\ pmm_next_free' \in 0 .. MaxFrames
      BY <2>1, <2>4, <2>5, VmmAssumption
      DEF AllocatorInv, PM!TypeOK, PM!Take, Frame, PM!Frame
    <3>3. last' \in [op : {"boot", "init", "alloc", "free"}, page : PM!Address]
      BY <2>4, <2>5, FrameOfPage DEF PM!Call
    <3>4. QED BY <2>4, <3>1, <3>2, <3>3 DEF AllocatorInv, PM!TypeOK, Frame
  <2>10. QED
    BY <2>2, <2>4, <2>5, <2>6, <2>8, <2>9 DEF AllocatorInv, PM!Ready
<1>3. QED BY <1>1, <1>2

\* A release of a held frame makes that frame free, or is ignored.
LEMMA FreeStep ==
  ASSUME AllocatorInv, NEW f \in held, PM!pmm_free_page(PM!PageOf(f))
  PROVE  /\ AllocatorInv'
         /\ \/ held' = held /\ PM!FreeFrames' = PM!FreeFrames
            \/ held' = held \ {f} /\ PM!FreeFrames' = PM!FreeFrames \cup {f}
<1> DEFINE page == PM!PageOf(f)
<1>1. f \in Frame /\ PM!Ready /\ PM!FrameUp(KernelEnd) <= f
  BY DEF AllocatorInv, PM!TypeOK, Frame
<1>2. page \in PM!Address /\ PM!FrameDown(page) = f
  BY <1>1, FrameOfPage
<1>3. last' \in [op : {"boot", "init", "alloc", "free"}, page : PM!Address]
  BY <1>2 DEF PM!pmm_free_page, PM!Call
<1>4. CASE ~PM!Accepts(page)
  BY <1>3, <1>4 DEF PM!pmm_free_page, AllocatorInv, PM!TypeOK, PM!Ready, PM!FreeFrames
<1>5. CASE PM!Accepts(page)
  <2>1. PM!Give(f) /\ UNCHANGED <<mmap, pmm_total, kernel_end_frame>>
    BY <1>2, <1>5 DEF PM!pmm_free_page
  <2>2. held' = held \ {f} /\ PM!FreeFrames' = PM!FreeFrames \cup {f}
    BY <1>1, <2>1 DEF AllocatorInv, PM!TypeOK, PM!Give, PM!FreeFrames, Frame
  <2>3. PM!TypeOK'
    BY <1>1, <1>3, <2>1, VmmAssumption DEF AllocatorInv, PM!TypeOK, PM!Give, Frame, PM!Frame
  <2>4. QED BY <1>1, <2>1, <2>2, <2>3 DEF AllocatorInv, PM!Ready
<1>6. QED BY <1>4, <1>5

-----------------------------------------------------------------------------
(* The tables.                                                             *)

\* The three slots setup_paging_c fills stay as it left them.
BootSlots ==
  /\ mem[BootPde][Recursive] = Maps(BootPde, FALSE)
  /\ mem[BootPde][0] = Maps(BootPt, FALSE)
  /\ mem[BootPde][KernelSlot] = Maps(BootPt, FALSE)

\* What vmm_map_page has established when it is interrupted between two steps.
\* A table that is linked and not yet cleared shows no page that is not in reused.
Progress ==
  /\ pc # "idle" => call \in Requests
  /\ pc = "link" => ~mem[BootPde][call.virt[1]].present
  /\ pc = "zero" =>
       /\ call.virt[1] \in Slots /\ Linked(call.virt[1]) = new_pt
       /\ \A v \in Page : v[1] = call.virt[1] /\ mem[new_pt][v[2]].present => v \in reused
  /\ pc = "set" => mem[BootPde][call.virt[1]].present

Typed ==
  /\ mem \in [Frame -> Table]
  /\ tlb \in [Page -> Entry]
  /\ pc \in {"idle", "link", "zero", "set"}
  /\ call \in Requests \cup {Idle}
  /\ new_pt \in Frame
  /\ reused \subseteq Page

\* The inductive invariant: ownership of the tables keeps the walks of all
\* pages apart, hence the cached translations of the window right, hence every
\* write of mmu.c in the table it is meant for, hence ownership.
VmmInv ==
  /\ AllocatorInv
  /\ Typed
  /\ BootSlots
  /\ WindowFresh
  /\ TablesOwned
  /\ Progress
  /\ StaleOnlyIfReused

LEMMA Indices ==
  /\ Entries \in Nat /\ Index \subseteq Frame /\ Index = 0 .. Entries - 1
  /\ {0, KernelSlot, Recursive} \subseteq Index
  /\ 0 # Recursive /\ KernelSlot # Recursive /\ KernelSlot # 0
<1>1. /\ MaxFrames \in Nat /\ Entries \in Nat /\ Entries >= 3 /\ Entries <= MaxFrames
      /\ KernelSlot \in 1 .. Entries - 2
  BY VmmAssumption
<1>2. QED BY <1>1 DEF Index, Recursive, Frame, PM!Frame

LEMMA EntryTypes ==
  /\ Absent \in Entry /\ ~Absent.present
  /\ \A f \in Frame, u \in BOOLEAN :
       Maps(f, u) \in Entry /\ Maps(f, u).present /\ Maps(f, u).frame = f
<1>1. 0 \in Frame
  BY VmmAssumption DEF Frame, PM!Frame
<1>2. QED BY <1>1 DEF Absent, Maps, Entry

LEMMA RequestType ==
  ASSUME NEW r \in Requests
  PROVE  /\ r.virt \in Page /\ r.virt[1] \in Index \ {Recursive} /\ r.virt[2] \in Index
         /\ r.phys \in Frame
         /\ r.flags \in Flags
BY VmmAssumption DEF Call, Page

LEMMA IdleType == Idle.virt \in Page
BY Indices DEF Idle, Page

LEMMA WindowPage ==
  ASSUME NEW i \in Index
  PROVE  Window(i) \in Page /\ Window(i)[1] = Recursive /\ Window(i)[2] = i
BY Indices DEF Window, Page

LEMMA CellOfPage ==
  ASSUME NEW v \in Page, v[1] # Recursive
  PROVE  /\ Cell(v) \in Cells /\ Cell(v)[2] = v[2]
         /\ Cell(v)[1] = IF v[1] = 0 THEN KernelSlot ELSE v[1]
BY Indices DEF Cell, Cells, Page

LEMMA InitVmmInv == Init => VmmInv
<1> SUFFICES ASSUME Init PROVE VmmInv
  OBVIOUS
<1>1. AllocatorInv
  BY InitAllocator DEF Init
<1>2. /\ mem[BootPt] = [i \in Index |-> Maps(i, FALSE)]
      /\ mem[BootPde] = [i \in Index |-> IF i \in {0, KernelSlot} THEN Maps(BootPt, FALSE)
                                          ELSE IF i = Recursive THEN Maps(BootPde, FALSE)
                                          ELSE Absent]
      /\ \A f \in Frame \ {BootPde, BootPt} : mem[f] = [i \in Index |-> Absent]
  BY BootFrames DEF Init, setup_paging_c
<1>3. Typed
  <2>1. Maps(BootPde, FALSE) \in Entry /\ Maps(BootPt, FALSE) \in Entry
        /\ \A i \in Index : Maps(i, FALSE) \in Entry
    BY EntryTypes, BootFrames, Indices
  <2>2. mem[BootPt] \in Table
    BY <1>2, <2>1 DEF Table
  <2>3. mem[BootPde] \in Table
    <3>1. Absent \in Entry
      BY EntryTypes
    <3>2. \A i \in Index : (IF i \in {0, KernelSlot} THEN Maps(BootPt, FALSE)
                            ELSE IF i = Recursive THEN Maps(BootPde, FALSE)
                            ELSE Absent) \in Entry
      BY <2>1, <3>1
    <3>3. QED BY <1>2, <3>2 DEF Table
  <2>4. \A f \in Frame \ {BootPde, BootPt} : mem[f] \in Table
    BY <1>2, EntryTypes DEF Table
  <2>5. mem \in [Frame -> Table]
    BY <2>2, <2>3, <2>4 DEF Init, setup_paging_c
  <2>6. tlb \in [Page -> Entry]
    BY EntryTypes DEF Init
  <2>7. 0 \in Frame
    BY VmmAssumption DEF Frame, PM!Frame
  <2>8. QED BY <2>5, <2>6, <2>7 DEF Init, Typed
<1>4. BootSlots
  BY <1>2, Indices DEF BootSlots
<1>5. Cached = {}
  BY EntryTypes DEF Init, Cached
<1>6. Slots = {}
  <2>1. \A i \in Index \ {0, KernelSlot, Recursive} : mem[BootPde][i] = Absent
    BY <1>2
  <2>2. QED BY <2>1, EntryTypes DEF Slots
<1>7. QED
  BY <1>1, <1>3, <1>4, <1>5, <1>6
  DEF Init, VmmInv, WindowFresh, TablesOwned, Tables, Progress, StaleOnlyIfReused

\* What the kernel reads and writes through the window is the table itself.
LEMMA WindowAccess ==
  ASSUME VmmInv, NEW i \in Index
  PROVE  Access(Window(i)) = IF mem[BootPde][i].present
                             THEN Maps(Linked(i), FALSE) ELSE Absent
<1>1. Walk(Window(i)) = IF mem[BootPde][i].present THEN Maps(Linked(i), FALSE) ELSE Absent
  <2> DEFINE v == Window(i)
             pde == mem[BootPde][v[1]]
             pte == mem[pde.frame][v[2]]
  <2>1. v[1] = Recursive /\ v[2] = i
    BY WindowPage
  <2>2. pde.present /\ pde.frame = BootPde /\ pde.user = FALSE
    BY <2>1 DEF VmmInv, BootSlots, Maps
  <2>3. pte = mem[BootPde][i] /\ (pde.user /\ pte.user) = FALSE
    BY <2>1, <2>2
  <2>4. Walk(v) = IF pde.present /\ pte.present
                  THEN Maps(pte.frame, pde.user /\ pte.user) ELSE Absent
    BY DEF Walk
  <2> HIDE DEF v, pde, pte
  <2>5. QED BY <2>2, <2>3, <2>4 DEF Linked, v
<1>2. tlb[Window(i)].present => tlb[Window(i)] = Walk(Window(i))
  BY WindowPage DEF VmmInv, WindowFresh, Cached
<1>3. QED BY <1>1, <1>2 DEF Access

\* The directory points at itself, the boot table and owned tables only.
LEMMA Directory ==
  ASSUME VmmInv, NEW i \in Index, mem[BootPde][i].present
  PROVE  /\ i = Recursive => Linked(i) = BootPde
         /\ i \in {0, KernelSlot} => Linked(i) = BootPt
         /\ i \notin {0, KernelSlot, Recursive} =>
              i \in Slots /\ Linked(i) \in Tables \ {BootPde, BootPt}
         /\ Linked(i) \in Frame
         /\ mem[BootPde] \in Table
<1>1. mem[BootPde] \in Table
  BY BootFrames DEF VmmInv, Typed
<1>2. Linked(i) \in Frame
  BY <1>1 DEF Table, Entry, Linked
<1>3. QED
  BY <1>1, <1>2 DEF VmmInv, BootSlots, TablesOwned, Slots, Tables, Linked, Maps

LEMMA WalkType ==
  ASSUME VmmInv, NEW v \in Page
  PROVE  Walk(v) \in Entry
<1>1. v[1] \in Index /\ v[2] \in Index
  BY DEF Page
<1>2. CASE mem[BootPde][v[1]].present
  <2>1. Linked(v[1]) \in Frame /\ mem[BootPde] \in Table
    BY <1>1, <1>2, Directory
  <2>2. mem[Linked(v[1])][v[2]] \in Entry /\ mem[BootPde][v[1]] \in Entry
    BY <1>1, <2>1 DEF VmmInv, Typed, Table
  <2>3. QED BY <2>2, EntryTypes DEF Walk, Linked, Entry, Maps
<1>3. CASE ~mem[BootPde][v[1]].present
  BY <1>3, EntryTypes DEF Walk
<1>4. QED BY <1>2, <1>3

\* The walk of a page looks at the directory and at one table; where neither
\* changes, its outcome does not.
LEMMA WalkKept ==
  ASSUME NEW v \in Page,
         mem'[BootPde][v[1]] = mem[BootPde][v[1]],
         \/ ~mem[BootPde][v[1]].present
         \/ mem'[Linked(v[1])][v[2]] = mem[Linked(v[1])][v[2]]
  PROVE  Walk(v)' = Walk(v)
BY DEF Walk, Linked

-----------------------------------------------------------------------------
(* The steps.                                                              *)

LEMMA SameAllocator ==
  AllocatorInv /\ UNCHANGED pmmvars => AllocatorInv' /\ PM!FreeFrames' = PM!FreeFrames
BY DEF pmmvars, AllocatorInv, PM!TypeOK, PM!Ready, PM!FreeFrames

LEMMA SameTables ==
  UNCHANGED <<mem, tlb, reused>> =>
    /\ Slots' = Slots /\ Tables' = Tables /\ \A i \in Index : Linked(i)' = Linked(i)
    /\ BootSlots' = BootSlots
    /\ WindowFresh' = WindowFresh /\ StaleOnlyIfReused' = StaleOnlyIfReused
BY DEF Slots, Tables, Linked, BootSlots, WindowFresh, StaleOnlyIfReused, Cached, Walk

\* A write outside the directory moves no table, and only the pages of the
\* frame it writes to can see it.
LEMMA OneTable ==
  ASSUME VmmInv, NEW F \in Frame \ {BootPde},
         \A g \in Frame \ {F} : mem'[g] = mem[g]
  PROVE  /\ BootSlots'
         /\ Slots' = Slots /\ Tables' = Tables /\ \A i \in Index : Linked(i)' = Linked(i)
         /\ \A i \in Index : mem'[BootPde][i] = mem[BootPde][i]
         /\ \A v \in Page : Walk(v)' = Walk(v) \/
              /\ mem[BootPde][v[1]].present /\ Linked(v[1]) = F
              /\ mem'[F][v[2]] # mem[F][v[2]]
         /\ \A i \in Index : Walk(Window(i))' = Walk(Window(i))
<1>1. mem'[BootPde] = mem[BootPde]
  BY BootFrames
<1>2. ASSUME NEW v \in Page
      PROVE  \/ Walk(v)' = Walk(v)
             \/ /\ mem[BootPde][v[1]].present /\ Linked(v[1]) = F
                /\ mem'[F][v[2]] # mem[F][v[2]]
  <2>1. CASE ~mem[BootPde][v[1]].present
    BY <1>1, <2>1, WalkKept
  <2>2. CASE mem[BootPde][v[1]].present /\ Linked(v[1]) # F
    <3>1. Linked(v[1]) \in Frame
      BY <2>2, Directory DEF Page
    <3>2. mem'[Linked(v[1])] = mem[Linked(v[1])]
      BY <2>2, <3>1
    <3>3. QED BY <1>1, <3>2, WalkKept
  <2>3. CASE mem[BootPde][v[1]].present /\ Linked(v[1]) = F
    BY <1>1, <2>3, WalkKept
  <2>4. QED BY <2>1, <2>2, <2>3
<1>3. ASSUME NEW i \in Index
      PROVE  Walk(Window(i))' = Walk(Window(i))
  <2>1. Linked(Recursive) = BootPde
    BY DEF VmmInv, BootSlots, Linked, Maps
  <2>2. Window(i) \in Page /\ Window(i)[1] = Recursive
    BY WindowPage
  <2>3. QED BY <1>2, <2>1, <2>2
<1>4. BootSlots'
  BY <1>1 DEF VmmInv, BootSlots
<1>5. /\ Slots' = Slots /\ \A i \in Index : Linked(i)' = Linked(i)
      /\ Tables' = Tables
  BY <1>1 DEF Slots, Tables, Linked
<1>6. QED BY <1>1, <1>2, <1>3, <1>4, <1>5

LEMMA ClientStep == VmmInv /\ ClientPmm => VmmInv'
<1> SUFFICES ASSUME VmmInv, ClientPmm PROVE VmmInv'
  OBVIOUS
<1>1. pc = "idle" /\ UNCHANGED <<mem, tlb, mapvars, reused>>
  BY DEF ClientPmm
<1>2. /\ Slots' = Slots /\ Tables' = Tables /\ \A i \in Index : Linked(i)' = Linked(i)
      /\ BootSlots' /\ WindowFresh' /\ StaleOnlyIfReused'
  BY <1>1, SameTables DEF VmmInv
<1>3. AllocatorInv' /\ (Tables \subseteq held \ PM!FreeFrames)'
  <2>1. CASE PM!pmm_init
    <3>1. AllocatorInv' /\ held = {}
      BY <2>1, InitStep DEF VmmInv
    <3>2. Tables = {}
      BY <3>1 DEF VmmInv, TablesOwned
    <3>3. QED BY <1>2, <3>1, <3>2
  <2>2. CASE PM!pmm_alloc_page
    <3>1. AllocatorInv' /\ (Fails \/ \E f \in Frame : HandsOut(f))
      BY <2>2, AllocStep DEF VmmInv
    <3>2. held \subseteq held' /\ PM!FreeFrames' \subseteq PM!FreeFrames
      BY <3>1 DEF Fails, HandsOut, PM!FreeFrames
    <3>3. QED BY <1>2, <3>1, <3>2 DEF VmmInv, TablesOwned
  <2>3. CASE \E frame \in Clients : PM!pmm_free_page(PM!PageOf(frame))
    <3>1. PICK frame \in Clients : PM!pmm_free_page(PM!PageOf(frame))
      BY <2>3
    <3>2. frame \in held /\ frame \notin Tables
      BY DEF Clients
    <3>3. /\ AllocatorInv'
          /\ \/ held' = held /\ PM!FreeFrames' = PM!FreeFrames
             \/ held' = held \ {frame} /\ PM!FreeFrames' = PM!FreeFrames \cup {frame}
      BY <3>1, <3>2, FreeStep DEF VmmInv
    <3>4. QED BY <1>2, <3>2, <3>3 DEF VmmInv, TablesOwned
  <2>4. QED BY <2>1, <2>2, <2>3 DEF ClientPmm
<1>4. Typed' /\ Progress'
  BY <1>1 DEF VmmInv, Typed, Progress, mapvars
<1>5. TablesOwned'
  <2>1. (\A i, j \in Slots : Linked(i) = Linked(j) => i = j)'
    BY <1>2 DEF VmmInv, TablesOwned, Slots
  <2>2. pc' # "link"
    BY <1>1 DEF mapvars
  <2>3. QED BY <1>2, <1>3, <2>1, <2>2 DEF VmmInv, TablesOwned
<1>6. QED BY <1>2, <1>3, <1>4, <1>5 DEF VmmInv

LEMMA TlbStep == VmmInv /\ (\E v \in Page : Fill(v) \/ Evict(v)) => VmmInv'
<1> SUFFICES ASSUME VmmInv, NEW v \in Page, Fill(v) \/ Evict(v) PROVE VmmInv'
  OBVIOUS
<1>1. UNCHANGED <<pmmvars, mem, mapvars, reused>>
  BY DEF Fill, Evict
<1>2. AllocatorInv' /\ PM!FreeFrames' = PM!FreeFrames /\ held' = held
  BY <1>1, SameAllocator DEF VmmInv, pmmvars
<1>3. /\ tlb' \in [Page -> Entry]
      /\ \A w \in Page : \/ tlb'[w] = tlb[w]
                         \/ tlb'[w] = Absent
                         \/ tlb'[w] = Walk(w)
  BY WalkType, EntryTypes DEF VmmInv, Typed, Fill, Evict
<1>4. \A w \in Page : Walk(w)' = Walk(w)
  BY <1>1 DEF Walk
<1>5. WindowFresh'
  BY <1>3, <1>4, EntryTypes, WindowPage DEF VmmInv, WindowFresh, Cached
<1>6. StaleOnlyIfReused'
  BY <1>1, <1>3, <1>4, EntryTypes DEF VmmInv, StaleOnlyIfReused, Cached
<1>7. BootSlots' /\ TablesOwned' /\ Progress' /\ Typed'
  <2>1. mem' = mem /\ reused' = reused /\ pc' = pc /\ call' = call /\ new_pt' = new_pt
    BY <1>1 DEF mapvars
  <2>2. BootSlots'
    BY <2>1 DEF VmmInv, BootSlots
  <2>3. TablesOwned'
    BY <2>1, <1>2 DEF VmmInv, TablesOwned, Slots, Tables, Linked
  <2>4. Progress'
    BY <2>1 DEF VmmInv, Progress, Slots, Linked
  <2>5. Typed'
    BY <2>1, <1>3 DEF VmmInv, Typed
  <2>6. QED BY <2>2, <2>3, <2>4, <2>5
<1>8. QED BY <1>2, <1>5, <1>6, <1>7 DEF VmmInv

\* vmm_map_page sees through the window whether the page has a table.
LEMMA TableMissingExact ==
  ASSUME VmmInv, NEW r \in Requests
  PROVE  TableMissing(r.virt) = ~mem[BootPde][r.virt[1]].present
<1>1. Access(Window(Recursive)) = Maps(BootPde, FALSE)
  BY WindowAccess, Indices, BootFrames DEF VmmInv, BootSlots, Linked, Maps
<1>2. QED BY <1>1, EntryTypes, BootFrames DEF TableMissing, ReadWord, PD, Maps

\* A fresh table is a frame no table and no boot table shares, so whatever it
\* holds is out of every walk until it is linked.
LEMMA MapStep ==
  ASSUME VmmInv, NEW r \in Requests, vmm_map_page(r)
  PROVE  VmmInv' /\ Tables' = Tables /\ \A v \in Page : Walk(v)' = Walk(v)
<1>1. pc = "idle" /\ tlb' = tlb /\ reused' = reused
  BY DEF vmm_map_page
<1>2. r.virt[1] \in Index \ {Recursive} /\ r.virt[2] \in Index
  BY RequestType
<1>3. TableMissing(r.virt) = ~mem[BootPde][r.virt[1]].present
  BY TableMissingExact
<1>4. CASE /\ ~TableMissing(r.virt)
           /\ pc' = "set" /\ call' = r
           /\ UNCHANGED <<pmmvars, mem, new_pt>>
  <2>1. AllocatorInv' /\ PM!FreeFrames' = PM!FreeFrames /\ held' = held
    BY <1>4, SameAllocator DEF VmmInv, pmmvars
  <2>2. BootSlots' /\ WindowFresh' /\ StaleOnlyIfReused'
    BY <1>1, <1>4, SameTables DEF VmmInv
  <2>3. Typed'
    BY <1>1, <1>4 DEF VmmInv, Typed
  <2>4. TablesOwned'
    BY <1>4, <2>1 DEF VmmInv, TablesOwned, Slots, Tables, Linked
  <2>5. Progress'
    BY <1>3, <1>4 DEF Progress
  <2>6. QED
    BY <1>4, <2>1, <2>2, <2>3, <2>4, <2>5 DEF VmmInv, Walk, Tables, Slots, Linked
<1>5. CASE TableMissing(r.virt) /\ PM!pmm_alloc_page /\ last'.page = PM!NULL
           /\ UNCHANGED <<mem, mapvars>>
  <2>1. AllocatorInv' /\ PM!FreeFrames' = PM!FreeFrames /\ held' = held
    <3>1. AllocatorInv' /\ (Fails \/ \E f \in Frame : HandsOut(f))
      BY <1>5, AllocStep DEF VmmInv
    <3>2. ~ \E f \in Frame : HandsOut(f)
      BY <1>5 DEF HandsOut
    <3>3. QED BY <3>1, <3>2 DEF Fails, PM!FreeFrames
  <2>2. BootSlots' /\ WindowFresh' /\ StaleOnlyIfReused'
    BY <1>1, <1>5, SameTables DEF VmmInv
  <2>3. mem' = mem /\ pc' = pc /\ call' = call /\ new_pt' = new_pt
    BY <1>5 DEF mapvars
  <2>4. Typed'
    BY <1>1, <2>3 DEF VmmInv, Typed
  <2>5. TablesOwned'
    BY <2>1, <2>3 DEF VmmInv, TablesOwned, Slots, Tables, Linked
  <2>6. Progress'
    BY <1>1, <2>3 DEF Progress
  <2>7. QED
    BY <2>1, <2>2, <2>3, <2>4, <2>5, <2>6 DEF VmmInv, Walk, Tables, Slots, Linked
<1>6. CASE /\ TableMissing(r.virt) /\ PM!pmm_alloc_page /\ last'.page # PM!NULL
           /\ pc' = "link" /\ call' = r
           /\ new_pt' = NewTable(last'.page)
           /\ \E old \in Garbage : mem' = [mem EXCEPT ![new_pt'] = old]
  <2>1. AllocatorInv' /\ (Fails \/ \E f \in Frame : HandsOut(f))
    BY <1>6, AllocStep DEF VmmInv
  <2>2. PICK f \in Frame : HandsOut(f)
    BY <1>6, <2>1 DEF Fails
  <2>3. new_pt' = f /\ f \in PM!FreeFrames \ held
        /\ held' = held \cup {f} /\ PM!FreeFrames' = PM!FreeFrames \ {f}
    BY <1>6, <2>2 DEF HandsOut, NewTable
  <2>4. f \notin {BootPde, BootPt}
    <3>1. PM!FrameUp(KernelEnd) <= f
      BY <2>2 DEF HandsOut
    <3>2. f \in Int /\ BootPde \in Int /\ BootPt \in Int /\ PM!FrameUp(KernelEnd) \in Int
      BY BootFrames, Rounding, VmmAssumption DEF Frame, PM!Frame
    <3>3. QED BY <3>1, <3>2, BootFrames
  <2>5. f \notin Tables
    BY <2>3 DEF VmmInv, TablesOwned
  <2>6. mem' \in [Frame -> Table] /\ \A g \in Frame \ {f} : mem'[g] = mem[g]
    <3>1. PICK old \in Garbage : mem' = [mem EXCEPT ![f] = old]
      BY <1>6, <2>3
    <3>2. old \in Table /\ mem \in [Frame -> Table]
      BY VmmAssumption DEF VmmInv, Typed
    <3>3. QED BY <3>1, <3>2
  <2>7. /\ BootSlots'
        /\ Slots' = Slots /\ Tables' = Tables /\ \A i \in Index : Linked(i)' = Linked(i)
        /\ \A i \in Index : mem'[BootPde][i] = mem[BootPde][i]
        /\ \A i \in Index : Walk(Window(i))' = Walk(Window(i))
        /\ \A v \in Page : Walk(v)' = Walk(v) \/
              (mem[BootPde][v[1]].present /\ Linked(v[1]) = f)
    BY <2>4, <2>6, OneTable
  <2>8. \A v \in Page : Walk(v)' = Walk(v)
    <3>1. SUFFICES ASSUME NEW v \in Page, mem[BootPde][v[1]].present, Linked(v[1]) = f
                   PROVE  FALSE
      BY <2>7
    <3>2. v[1] \in Index
      BY DEF Page
    <3>3. QED BY <2>4, <2>5, <3>1, <3>2, Directory
  <2>9. WindowFresh' /\ StaleOnlyIfReused'
    BY <1>1, <2>7, <2>8 DEF VmmInv, WindowFresh, StaleOnlyIfReused, Cached
  <2>10. Typed'
    BY <1>1, <1>6, <2>3, <2>6 DEF VmmInv, Typed
  <2>11. TablesOwned'
    <3>1. (\A i, j \in Slots : Linked(i) = Linked(j) => i = j)'
      BY <2>7 DEF VmmInv, TablesOwned, Slots
    <3>2. QED BY <2>3, <2>5, <2>7, <3>1 DEF VmmInv, TablesOwned
  <2>12. Progress'
    BY <1>2, <1>3, <1>6, <2>7 DEF Progress
  <2>13. QED BY <2>1, <2>7, <2>8, <2>9, <2>10, <2>11, <2>12 DEF VmmInv
<1>7. QED BY <1>4, <1>5, <1>6 DEF vmm_map_page

LEMMA CallInProgress ==
  ASSUME VmmInv, pc # "idle"
  PROVE  /\ call \in Requests /\ call.virt \in Page
         /\ call.virt[1] \in Index \ {Recursive} /\ call.virt[2] \in Index
BY RequestType DEF VmmInv, Progress

\* The slot was empty, so nothing of it is cached, and the new table is nobody
\* else's; the pages its old contents show from now on are in reused.
LEMMA LinkStep ==
  ASSUME VmmInv, LinkTable
  PROVE  /\ VmmInv' /\ Tables' = Tables \cup {new_pt}
         /\ \A v \in Page : IF v[1] = call.virt[1] THEN Walk(v) = Absent
                           ELSE v[1] # Recursive => Walk(v)' = Walk(v)
<1>1. /\ pc = "link" /\ pc' = "zero" /\ call' = call /\ new_pt' = new_pt /\ tlb' = tlb
      /\ UNCHANGED pmmvars
      /\ reused' = reused \cup {v \in Page : v[1] = call.virt[1] /\ mem[new_pt][v[2]].present}
  BY DEF LinkTable
<1>2. PICK i \in Index \ {Recursive} : i = call.virt[1] /\ call \in Requests
  BY <1>1, CallInProgress
<1>3. ~mem[BootPde][i].present /\ i \notin {0, KernelSlot}
  BY <1>1, <1>2, EntryTypes, BootFrames DEF VmmInv, Progress, BootSlots, Maps
<1>4. /\ new_pt \in Frame /\ new_pt \in held /\ new_pt \notin PM!FreeFrames
      /\ new_pt \notin Tables
  BY <1>1 DEF VmmInv, Typed, TablesOwned
<1>5. new_pt \notin {BootPde, BootPt}
  <2>1. PM!FrameUp(KernelEnd) <= new_pt
    BY <1>4 DEF VmmInv, AllocatorInv
  <2>2. new_pt \in Int /\ BootPde \in Int /\ BootPt \in Int /\ PM!FrameUp(KernelEnd) \in Int
    BY <1>4, BootFrames, Rounding, VmmAssumption DEF Frame, PM!Frame
  <2>3. QED BY <2>1, <2>2, BootFrames
<1>6. /\ LinkEntry \in Entry /\ LinkEntry.present /\ LinkEntry.frame = new_pt
  <2>1. call.flags.user \in BOOLEAN
    BY <1>2, RequestType DEF Flags
  <2>2. QED BY <1>4, <2>1, EntryTypes DEF LinkEntry
<1>7. mem' = [mem EXCEPT ![BootPde][i] = LinkEntry]
  <2>1. Access(Window(PD)).frame = BootPde
    BY WindowAccess, Indices, BootFrames, EntryTypes DEF VmmInv, BootSlots, Linked, Maps, PD
  <2>2. QED BY <1>2, <2>1 DEF LinkTable, WriteWord
<1>8. mem \in [Frame -> Table] /\ BootPde \in Frame /\ mem[BootPde] \in Table
  BY BootFrames DEF VmmInv, Typed
<1>9. /\ mem' \in [Frame -> Table]
      /\ \A g \in Frame \ {BootPde} : mem'[g] = mem[g]
      /\ mem'[BootPde][i] = LinkEntry
      /\ \A j \in Index \ {i} : mem'[BootPde][j] = mem[BootPde][j]
  BY <1>2, <1>6, <1>7, <1>8 DEF Table
<1>10. AllocatorInv' /\ PM!FreeFrames' = PM!FreeFrames /\ held' = held
  BY <1>1, SameAllocator DEF VmmInv, pmmvars
<1>11. BootSlots'
  BY <1>2, <1>3, <1>9, Indices DEF VmmInv, BootSlots
<1>12. Typed'
  BY <1>1, <1>9 DEF VmmInv, Typed
<1>13. /\ Slots' = Slots \cup {i} /\ i \notin Slots
       /\ Linked(i)' = new_pt /\ \A j \in Index \ {i} : Linked(j)' = Linked(j)
  BY <1>2, <1>3, <1>6, <1>9 DEF Slots, Linked
<1>14. Tables' = Tables \cup {new_pt}
  BY <1>13 DEF Tables, Slots
<1>15. TablesOwned'
  <2>1. ASSUME NEW j \in Slots', NEW k \in Slots', Linked(j)' = Linked(k)'
        PROVE  j = k
    <3>1. \A l \in Slots : Linked(l)' = Linked(l) /\ Linked(l) # new_pt
      BY <1>4, <1>13 DEF Slots, Tables
    <3>2. QED BY <2>1, <3>1, <1>13 DEF VmmInv, TablesOwned
  <2>2. (Tables \cap {BootPde, BootPt})' = {}
    BY <1>5, <1>14 DEF VmmInv, TablesOwned
  <2>3. (Tables \subseteq held \ PM!FreeFrames)'
    BY <1>4, <1>10, <1>14 DEF VmmInv, TablesOwned
  <2>4. QED BY <1>1, <2>1, <2>2, <2>3 DEF TablesOwned
<1>16. \A v \in Page : v[1] \notin {i, Recursive} => Walk(v)' = Walk(v)
  <2>1. SUFFICES ASSUME NEW v \in Page, v[1] \notin {i, Recursive} PROVE Walk(v)' = Walk(v)
    OBVIOUS
  <2>2. v[1] \in Index /\ mem'[BootPde][v[1]] = mem[BootPde][v[1]]
    BY <1>9, <2>1 DEF Page
  <2>3. CASE ~mem[BootPde][v[1]].present
    BY <2>2, <2>3, WalkKept
  <2>4. CASE mem[BootPde][v[1]].present
    <3>1. Linked(v[1]) \in Frame \ {BootPde}
      BY <2>1, <2>2, <2>4, Directory, BootFrames
    <3>2. QED BY <1>9, <2>2, <3>1, WalkKept
  <2>5. QED BY <2>3, <2>4
<1>17. \A v \in Page : v[1] = i => Walk(v) = Absent
  BY <1>3 DEF Walk
<1>18. WindowFresh'
  <2>1. SUFFICES ASSUME NEW j \in Index, tlb[Window(j)].present
                 PROVE  tlb[Window(j)] = Walk(Window(j))'
    BY <1>1 DEF WindowFresh, Cached
  <2>2. tlb[Window(j)] = Walk(Window(j))
    BY <2>1, WindowPage DEF VmmInv, WindowFresh, Cached
  <2>3. Walk(Window(j)) = IF mem[BootPde][j].present THEN Maps(Linked(j), FALSE) ELSE Absent
    BY WindowAccess, <2>1, <2>2 DEF Access
  <2>4. j # i
    BY <1>3, <2>1, <2>2, <2>3, EntryTypes
  <2>5. /\ mem'[BootPde][Recursive] = mem[BootPde][Recursive]
        /\ mem'[BootPde][j] = mem[BootPde][j]
    BY <1>2, <1>9, <2>4, Indices
  <2>6. Linked(Recursive) = BootPde
    BY DEF VmmInv, BootSlots, Linked, Maps
  <2>7. QED BY <2>1, <2>2, <2>5, <2>6, WindowPage, WalkKept
<1>19. StaleOnlyIfReused'
  <2>1. SUFFICES ASSUME NEW v \in Page, tlb[v].present, v[1] # Recursive, v \notin reused'
                 PROVE  tlb[v] = Walk(v)'
    BY <1>1 DEF StaleOnlyIfReused, Cached
  <2>2. tlb[v] = Walk(v)
    BY <1>1, <2>1 DEF VmmInv, StaleOnlyIfReused, Cached
  <2>3. v[1] # i
    BY <1>17, <2>1, <2>2, EntryTypes
  <2>4. QED BY <1>16, <2>1, <2>2, <2>3
<1>20. Progress'
  <2>1. i \in Slots' /\ Linked(i)' = new_pt
    BY <1>13
  <2>2. \A v \in Page : v[1] = i /\ mem'[new_pt][v[2]].present => v \in reused'
    BY <1>1, <1>2, <1>4, <1>5, <1>9
  <2>3. QED BY <1>1, <1>2, <2>1, <2>2 DEF Progress
<1>21. VmmInv'
  BY <1>10, <1>11, <1>12, <1>15, <1>18, <1>19, <1>20 DEF VmmInv
<1>22. QED BY <1>2, <1>14, <1>16, <1>17, <1>21

\* Two slots show the same table only if they are the two names of the boot table.
LEMMA SameTable ==
  ASSUME VmmInv, NEW i \in Index \ {Recursive}, NEW j \in Index,
         mem[BootPde][i].present, mem[BootPde][j].present, Linked(i) = Linked(j)
  PROVE  i = j \/ (i \in {0, KernelSlot} /\ j \in {0, KernelSlot})
<1>1. CASE i \in {0, KernelSlot}
  <2>1. Linked(j) = BootPt
    BY <1>1, Directory
  <2>2. QED BY <1>1, <2>1, Directory, BootFrames
<1>2. CASE i \notin {0, KernelSlot}
  <2>1. i \in Slots /\ Linked(i) \notin {BootPde, BootPt}
    BY <1>2, Directory
  <2>2. j \in Slots
    BY <2>1, Directory
  <2>3. QED BY <2>1, <2>2 DEF VmmInv, TablesOwned
<1>3. QED BY <1>1, <1>2

\* The loop clears the new table and nothing else; the pages that lose an
\* entry by it are in reused since the table was linked.
LEMMA ZeroStep ==
  ASSUME VmmInv, ZeroTable
  PROVE  /\ VmmInv' /\ Tables' = Tables
         /\ \A v \in Page : Walk(v)' = IF v[1] = call.virt[1] THEN Absent ELSE Walk(v)
<1>1. /\ pc = "zero" /\ pc' = "set" /\ call' = call /\ new_pt' = new_pt /\ tlb' = tlb
      /\ UNCHANGED pmmvars /\ reused' = reused
  BY DEF ZeroTable
<1>2. PICK i \in Index \ {Recursive} : i = call.virt[1] /\ call \in Requests
  BY <1>1, CallInProgress
<1>3. /\ i \in Slots /\ Linked(i) = new_pt
      /\ \A v \in Page : v[1] = i /\ mem[new_pt][v[2]].present => v \in reused
  BY <1>1, <1>2 DEF VmmInv, Progress
<1>4. /\ mem[BootPde][i].present /\ i \notin {0, KernelSlot, Recursive}
      /\ new_pt \in Frame \ {BootPde, BootPt}
  BY <1>3, Directory DEF Slots
<1>5. mem' = [mem EXCEPT ![new_pt] = [j \in Index |-> Absent]]
  <2>1. Access(Window(i)).frame = new_pt
    BY <1>3, <1>4, WindowAccess, EntryTypes
  <2>2. QED BY <1>2, <2>1 DEF ZeroTable, Cleared
<1>6. /\ mem' \in [Frame -> Table]
      /\ \A g \in Frame \ {new_pt} : mem'[g] = mem[g]
      /\ \A j \in Index : mem'[new_pt][j] = Absent
  <2>1. [j \in Index |-> Absent] \in Table /\ mem \in [Frame -> Table]
    BY EntryTypes DEF Table, VmmInv, Typed
  <2>2. QED BY <1>4, <1>5, <2>1
<1>7. /\ BootSlots'
      /\ Slots' = Slots /\ Tables' = Tables /\ \A j \in Index : Linked(j)' = Linked(j)
      /\ \A j \in Index : mem'[BootPde][j] = mem[BootPde][j]
      /\ \A j \in Index : Walk(Window(j))' = Walk(Window(j))
      /\ \A v \in Page : Walk(v)' = Walk(v) \/
            (mem[BootPde][v[1]].present /\ Linked(v[1]) = new_pt)
  BY <1>4, <1>6, OneTable
<1>8. AllocatorInv' /\ PM!FreeFrames' = PM!FreeFrames /\ held' = held
  BY <1>1, SameAllocator DEF VmmInv, pmmvars
<1>9. Typed'
  BY <1>1, <1>6 DEF VmmInv, Typed
<1>10. TablesOwned'
  <2>1. (\A j, k \in Slots : Linked(j) = Linked(k) => j = k)'
    BY <1>7 DEF VmmInv, TablesOwned, Slots
  <2>2. QED BY <1>1, <1>7, <1>8, <2>1 DEF VmmInv, TablesOwned
<1>11. WindowFresh'
  BY <1>1, <1>7 DEF VmmInv, WindowFresh, Cached
<1>12. StaleOnlyIfReused'
  <2>1. SUFFICES ASSUME NEW v \in Page, tlb[v].present, v[1] # Recursive, v \notin reused
                 PROVE  tlb[v] = Walk(v)'
    BY <1>1 DEF StaleOnlyIfReused, Cached
  <2>2. tlb[v] = Walk(v)
    BY <2>1 DEF VmmInv, StaleOnlyIfReused, Cached
  <2>3. CASE mem[BootPde][v[1]].present /\ Linked(v[1]) = new_pt
    <3>1. v[1] \in Index
      BY DEF Page
    <3>2. v[1] = i
      BY <1>3, <1>4, <2>3, <3>1, SameTable
    <3>3. ~mem[Linked(v[1])][v[2]].present
      BY <1>3, <2>1, <2>3, <3>2
    <3>4. Walk(v) = Absent
      BY <3>3 DEF Walk, Linked
    <3>5. QED BY <2>1, <2>2, <3>4, EntryTypes
  <2>4. QED BY <1>7, <2>2, <2>3
<1>13. Progress'
  BY <1>1, <1>2, <1>4, <1>7 DEF Progress
<1>14. VmmInv'
  BY <1>7, <1>8, <1>9, <1>10, <1>11, <1>12, <1>13 DEF VmmInv
<1>15. ASSUME NEW v \in Page
       PROVE  Walk(v)' = IF v[1] = i THEN Absent ELSE Walk(v)
  <2>1. v[1] \in Index /\ v[2] \in Index
    BY DEF Page
  <2>2. CASE v[1] = i
    <3>1. mem'[BootPde][i] = mem[BootPde][i] /\ mem[BootPde][i].frame = new_pt
      BY <1>3, <1>7 DEF Linked
    <3>2. mem'[new_pt][v[2]] = Absent
      BY <1>6, <2>1
    <3>3. QED BY <2>2, <3>1, <3>2, EntryTypes DEF Walk
  <2>3. CASE v[1] # i
    BY <1>3, <1>4, <1>7, <2>1, <2>3, SameTable
  <2>4. QED BY <2>2, <2>3
<1>16. QED BY <1>2, <1>7, <1>14, <1>15

\* The entry is written in the table of its own slot: the pages that see the
\* write are the names of its cell, and they are in reused when it was in use.
LEMMA SetStep ==
  ASSUME VmmInv, SetPte
  PROVE  /\ VmmInv' /\ Tables' = Tables
         /\ \A v \in Page : v[1] # Recursive =>
              IF Cell(v) # Cell(call.virt) THEN Walk(v)' = Walk(v)
              ELSE /\ Walk(v)'.present = call.flags.present
                   /\ call.flags.present => Walk(v)'.frame = call.phys
<1>1. /\ pc = "set" /\ pc' = "idle" /\ call' = Idle /\ new_pt' = 0 /\ tlb' = tlb
      /\ UNCHANGED pmmvars
  BY DEF SetPte
<1>2. PICK i \in Index \ {Recursive}, k \in Index :
        /\ i = call.virt[1] /\ k = call.virt[2]
        /\ call \in Requests /\ call.virt \in Page
  BY <1>1, CallInProgress
<1>3. mem[BootPde][i].present
  BY <1>1, <1>2 DEF VmmInv, Progress
<1>4. PICK F \in Frame \ {BootPde} : F = Linked(i)
  <2>1. Linked(i) \in Frame /\ Linked(i) # BootPde
    BY <1>3, Directory, BootFrames
  <2>2. QED BY <2>1
<1>5. Access(Window(i)).frame = F
  BY <1>3, <1>4, WindowAccess, EntryTypes
<1>6. NewEntry \in Entry
  BY <1>2, RequestType DEF NewEntry, Entry, Flags
<1>7. /\ mem' = [mem EXCEPT ![F][k] = NewEntry]
      /\ reused' = IF mem[F][k] \in {NewEntry, Absent} THEN reused
                   ELSE reused \cup {v \in Page : Cell(v) = Cell(call.virt)}
  BY <1>2, <1>5 DEF SetPte, WriteWord, ReadWord
<1>8. /\ mem' \in [Frame -> Table]
      /\ \A g \in Frame \ {F} : mem'[g] = mem[g]
      /\ \A j \in Index \ {k} : mem'[F][j] = mem[F][j]
      /\ mem'[F][k] = NewEntry
  BY <1>6, <1>7 DEF VmmInv, Typed, Table
<1>9. /\ BootSlots'
      /\ Slots' = Slots /\ Tables' = Tables /\ \A j \in Index : Linked(j)' = Linked(j)
      /\ \A j \in Index : Walk(Window(j))' = Walk(Window(j))
      /\ \A v \in Page : Walk(v)' = Walk(v) \/
            /\ mem[BootPde][v[1]].present /\ Linked(v[1]) = F
            /\ mem'[F][v[2]] # mem[F][v[2]]
  BY <1>8, OneTable
<1>10. AllocatorInv' /\ PM!FreeFrames' = PM!FreeFrames /\ held' = held
  BY <1>1, SameAllocator DEF VmmInv, pmmvars
<1>11. reused' \subseteq Page /\ reused \subseteq reused'
  BY <1>7 DEF VmmInv, Typed
<1>12. Typed'
  <2>1. 0 \in Frame
    BY VmmAssumption DEF Frame, PM!Frame
  <2>2. QED BY <1>1, <1>8, <1>11, <2>1 DEF VmmInv, Typed
<1>13. TablesOwned'
  <2>1. (\A j, l \in Slots : Linked(j) = Linked(l) => j = l)'
    BY <1>9 DEF VmmInv, TablesOwned, Slots
  <2>2. QED BY <1>1, <1>9, <1>10, <2>1 DEF VmmInv, TablesOwned
<1>14. WindowFresh'
  BY <1>1, <1>9 DEF VmmInv, WindowFresh, Cached
<1>15. ASSUME NEW v \in Page, v[1] # Recursive, Walk(v)' # Walk(v)
       PROVE  /\ mem[BootPde][v[1]].present /\ Linked(v[1]) = F
              /\ v[2] = k /\ mem[F][k] # NewEntry
              /\ Cell(v) = Cell(call.virt)
  <2>1. /\ v[1] \in Index /\ v[2] \in Index
        /\ mem[BootPde][v[1]].present /\ Linked(v[1]) = F /\ mem'[F][v[2]] # mem[F][v[2]]
    BY <1>9, <1>15 DEF Page
  <2>2. v[2] = k /\ mem[F][k] # NewEntry
    BY <1>8, <2>1
  <2>3. i = v[1] \/ (i \in {0, KernelSlot} /\ v[1] \in {0, KernelSlot})
    BY <1>3, <1>4, <2>1, SameTable
  <2>4. v = <<v[1], k>> /\ call.virt = <<i, k>>
    BY <1>2, <2>2 DEF Page
  <2>5. Cell(v) = Cell(call.virt)
    <3>1. CASE i = v[1]
      BY <2>4, <3>1
    <3>2. CASE i \in {0, KernelSlot} /\ v[1] \in {0, KernelSlot}
      BY <2>4, <3>2 DEF Cell
    <3>3. QED BY <2>3, <3>1, <3>2
  <2>6. QED BY <2>1, <2>2, <2>5
<1>16. StaleOnlyIfReused'
  <2>1. SUFFICES ASSUME NEW v \in Page, tlb[v].present, v[1] # Recursive, v \notin reused'
                 PROVE  tlb[v] = Walk(v)'
    BY <1>1 DEF StaleOnlyIfReused, Cached
  <2>2. tlb[v] = Walk(v)
    BY <1>11, <2>1 DEF VmmInv, StaleOnlyIfReused, Cached
  <2>3. CASE Walk(v)' # Walk(v)
    <3>1. mem[F][k] = Absent
      BY <1>7, <1>15, <2>1, <2>3
    <3>2. Walk(v) = Absent
      BY <1>15, <2>1, <2>3, <3>1, EntryTypes DEF Walk, Linked
    <3>3. QED BY <2>1, <2>2, <3>2, EntryTypes
  <2>4. QED BY <2>2, <2>3
<1>17. Progress'
  BY <1>1 DEF Progress
<1>18. VmmInv'
  BY <1>9, <1>10, <1>12, <1>13, <1>14, <1>16, <1>17 DEF VmmInv
<1>19. ASSUME NEW v \in Page, v[1] # Recursive, Cell(v) = Cell(call.virt)
       PROVE  /\ Walk(v)'.present = call.flags.present
              /\ call.flags.present => Walk(v)'.frame = call.phys
  <2>1. v[1] \in Index /\ v[2] = k /\ (i = v[1] \/ {i, v[1]} \subseteq {0, KernelSlot})
    <3>1. /\ v[1] \in Index \ {Recursive} /\ Cell(v)[2] = v[2]
          /\ Cell(v)[1] = IF v[1] = 0 THEN KernelSlot ELSE v[1]
      BY <1>19, CellOfPage DEF Page
    <3>2. Cell(call.virt)[2] = k /\ Cell(call.virt)[1] = IF i = 0 THEN KernelSlot ELSE i
      BY <1>2, CellOfPage
    <3>3. QED BY <1>19, <3>1, <3>2
  <2>2. mem[BootPde][v[1]].present /\ Linked(v[1]) = F
    BY <1>3, <1>4, <2>1 DEF VmmInv, BootSlots, Linked, Maps
  <2>3. mem'[BootPde][v[1]].present /\ mem'[BootPde][v[1]].frame = F
    BY <1>4, <1>8, <2>2, BootFrames DEF Linked
  <2>4. mem'[F][v[2]] = NewEntry
    BY <1>8, <2>1
  <2> DEFINE user == mem'[BootPde][v[1]].user /\ NewEntry.user
  <2>5. Walk(v)' = IF NewEntry.present THEN Maps(NewEntry.frame, user) ELSE Absent
    BY <2>3, <2>4 DEF Walk
  <2>6. NewEntry.present = call.flags.present /\ NewEntry.frame = call.phys
    BY DEF NewEntry
  <2> HIDE DEF user
  <2>7. /\ Maps(NewEntry.frame, user).present = TRUE
        /\ Maps(NewEntry.frame, user).frame = NewEntry.frame
        /\ Absent.present = FALSE
    BY DEF Maps, Absent
  <2>8. call.flags.present \in BOOLEAN
    BY <1>2, RequestType DEF Flags
  <2>9. CASE call.flags.present = TRUE
    BY <2>5, <2>6, <2>7, <2>9
  <2>10. CASE call.flags.present = FALSE
    BY <2>5, <2>6, <2>7, <2>10
  <2>11. QED BY <2>8, <2>9, <2>10
<1>20. QED BY <1>9, <1>15, <1>18, <1>19

-----------------------------------------------------------------------------
(* What the invariant says in every reachable state.                       *)

\* A step that moves neither the tables nor the pages in use.
LEMMA Untouched ==
  ASSUME VmmInv, UNCHANGED <<mem, tlb, pc, call, new_pt, reused>>,
         AllocatorInv', PM!FreeFrames' = PM!FreeFrames, held' = held
  PROVE  VmmInv'
<1>1. /\ mem' = mem /\ tlb' = tlb /\ reused' = reused
      /\ pc' = pc /\ call' = call /\ new_pt' = new_pt
  OBVIOUS
<1>2. BootSlots' /\ WindowFresh' /\ StaleOnlyIfReused'
  BY <1>1, SameTables DEF VmmInv
<1>3. Typed'
  BY <1>1 DEF VmmInv, Typed
<1>4. TablesOwned'
  BY <1>1 DEF VmmInv, TablesOwned, Slots, Tables, Linked
<1>5. Progress'
  BY <1>1 DEF VmmInv, Progress, Slots, Linked
<1>6. QED BY <1>2, <1>3, <1>4, <1>5 DEF VmmInv

\* A client that writes to a frame of its own moves no table and no page.
LEMMA DataWrite ==
  ASSUME VmmInv, pc = "idle", NEW F \in Frame, F \notin Tables \cup {BootPde, BootPt},
         NEW j, NEW e \in Entry, mem' = [mem EXCEPT ![F][j] = e],
         UNCHANGED <<pmmvars, tlb, mapvars, reused>>
  PROVE  VmmInv' /\ Tables' = Tables /\ \A v \in Page : Walk(v)' = Walk(v)
<1>1. /\ tlb' = tlb /\ reused' = reused /\ pc' = pc /\ call' = call /\ new_pt' = new_pt
      /\ AllocatorInv' /\ PM!FreeFrames' = PM!FreeFrames /\ held' = held
  BY SameAllocator DEF VmmInv, mapvars, pmmvars
<1>2. mem' \in [Frame -> Table] /\ \A g \in Frame \ {F} : mem'[g] = mem[g]
  BY DEF VmmInv, Typed, Table
<1>3. /\ BootSlots'
      /\ Slots' = Slots /\ Tables' = Tables /\ \A i \in Index : Linked(i)' = Linked(i)
      /\ \A v \in Page : \/ Walk(v)' = Walk(v)
                         \/ mem[BootPde][v[1]].present /\ Linked(v[1]) = F
  BY <1>2, OneTable
<1>4. ASSUME NEW v \in Page PROVE Walk(v)' = Walk(v)
  <2>1. mem[BootPde][v[1]].present => Linked(v[1]) # F
    BY Directory DEF Page
  <2>2. QED BY <1>3, <2>1
<1>5. WindowFresh' /\ StaleOnlyIfReused'
  BY <1>1, <1>4, WindowPage DEF VmmInv, WindowFresh, StaleOnlyIfReused, Cached
<1>6. Typed' /\ Progress'
  BY <1>1, <1>2 DEF VmmInv, Typed, Progress
<1>7. TablesOwned'
  <2>1. (\A i, k \in Slots : Linked(i) = Linked(k) => i = k)'
    BY <1>3 DEF VmmInv, TablesOwned, Slots
  <2>2. QED BY <1>1, <1>3, <2>1 DEF VmmInv, TablesOwned
<1>8. QED BY <1>1, <1>3, <1>4, <1>5, <1>6, <1>7 DEF VmmInv

LEMMA VmmInvStep == VmmInv /\ [Next]_vars => VmmInv'
<1> SUFFICES ASSUME VmmInv, [Next]_vars PROVE VmmInv'
  OBVIOUS
<1>1. CASE UNCHANGED vars
  <2>1. UNCHANGED pmmvars /\ UNCHANGED <<mem, tlb, pc, call, new_pt, reused>> /\ held' = held
    BY <1>1 DEF vars, mapvars, pmmvars
  <2>2. QED BY <2>1, SameAllocator, Untouched DEF VmmInv
<1>2. QED
  BY <1>1, ClientStep, MapStep, LinkStep, ZeroStep, SetStep, TlbStep DEF Next

\* The parts of VmmInv hold in every reachable state of mmu.c.
THEOREM VmmInvariance == Spec => []VmmInv
<1>1. Init => VmmInv
  BY InitVmmInv
<1>2. VmmInv /\ [Next]_vars => VmmInv'
  BY VmmInvStep
<1>3. QED BY <1>1, <1>2, PTL DEF Spec

\* Every variable of mmu.c keeps its range, and so do those of the allocator below.
THEOREM VmmTypeCorrect == Spec => []TypeOK
<1>1. VmmInv => TypeOK
  BY DEF VmmInv, AllocatorInv, Typed, TypeOK
<1>2. QED BY <1>1, VmmInvariance, PTL

\* The kernel never faults on its own page tables, whatever the order of calls,
\* the contents of fresh frames and the moves of the TLB (mmu.c:84-87).
THEOREM WindowNeverFaults == Spec => []NoFault
<1>1. VmmInv => NoFault
  <2> SUFFICES ASSUME VmmInv PROVE NoFault
    OBVIOUS
  <2>1. Reaches(PD)
    BY WindowAccess, Indices, BootFrames, EntryTypes DEF VmmInv, BootSlots, Linked, Maps, Reaches, PD
  <2>2. ASSUME pc \in {"zero", "set"} PROVE Reaches(call.virt[1])
    <3>1. call.virt[1] \in Index
      BY <2>2, CallInProgress
    <3>2. mem[BootPde][call.virt[1]].present
      BY <2>2 DEF VmmInv, Progress, Slots
    <3>3. QED BY <3>1, <3>2, WindowAccess DEF Reaches, Maps
  <2>3. QED BY <2>1, <2>2 DEF NoFault
<1>2. QED BY <1>1, VmmInvariance, PTL

\* No cached translation of the recursive window is ever stale, although mmu.c
\* never invalidates one (mmu.c:87).
THEOREM WindowIsFresh == Spec => []WindowFresh
<1>1. VmmInv => WindowFresh
  BY DEF VmmInv
<1>2. QED BY <1>1, VmmInvariance, PTL

\* Every page table is a frame of its own that the allocator does not hand out
\* again (mmu.c:70-84, pmm.c:218-244).
THEOREM TablesAreOwned == Spec => []TablesOwned
<1>1. VmmInv => TablesOwned
  BY DEF VmmInv
<1>2. QED BY <1>1, VmmInvariance, PTL

\* A stale translation of an ordinary page comes from the replacement of a
\* present entry and from nothing else.
THEOREM StaleOnlyByReuse == Spec => []StaleOnlyIfReused
<1>1. VmmInv => StaleOnlyIfReused
  BY DEF VmmInv
<1>2. QED BY <1>1, VmmInvariance, PTL

\* The two names of a cell are walked through one table.
LEMMA WalkOfCell ==
  ASSUME VmmInv, NEW v \in Page, v[1] # Recursive
  PROVE  Walk(Cell(v)) = Walk(v)
<1>1. CASE v[1] = 0
  <2>1. mem[BootPde][Cell(v)[1]] = mem[BootPde][v[1]] /\ Cell(v)[2] = v[2]
    BY <1>1, CellOfPage DEF VmmInv, BootSlots
  <2>2. QED BY <2>1 DEF Walk
<1>2. CASE v[1] # 0
  BY <1>2 DEF Cell
<1>3. QED BY <1>1, <1>2

\* Between calls vmm_get_phys answers for every page what the MMU would, and 0
\* where the MMU would fault (mmu.c:111-136).
THEOREM GetPhysIsExact == Spec => []GetPhysExact
<1>1. VmmInv => GetPhysExact
  <2> SUFFICES ASSUME VmmInv, pc = "idle", NEW v \in Page, v[1] # Recursive
               PROVE  vmm_get_phys(v) = IF MapsTo(Cell(v)) = Unmapped THEN 0
                                        ELSE MapsTo(Cell(v))
    BY DEF GetPhysExact
  <2>1. v[1] \in Index /\ v[2] \in Index
    BY DEF Page
  <2>2. MapsTo(Cell(v)) = IF Walk(v).present THEN Walk(v).frame ELSE Unmapped
    BY WalkOfCell DEF MapsTo
  <2>3. Walk(v).frame \in Frame /\ Unmapped \notin Frame
    BY WalkType, VmmAssumption DEF Entry, Unmapped, Frame, PM!Frame
  <2>4. ReadWord(PD, v[1]) = mem[BootPde][v[1]]
    BY WindowAccess, Indices, BootFrames, EntryTypes
    DEF VmmInv, BootSlots, Linked, Maps, ReadWord, PD
  <2>5. CASE ~mem[BootPde][v[1]].present
    BY <2>2, <2>4, <2>5, EntryTypes DEF vmm_get_phys, Walk
  <2>6. CASE mem[BootPde][v[1]].present
    <3>1. Linked(v[1]) \in Frame
      BY <2>1, <2>6, Directory
    <3>2. ReadWord(v[1], v[2]) = mem[Linked(v[1])][v[2]]
      BY <2>1, <2>6, <3>1, WindowAccess, EntryTypes DEF ReadWord
    <3>3. Walk(v).present <=> mem[Linked(v[1])][v[2]].present
      BY <2>6, EntryTypes DEF Walk, Linked, Maps
    <3>4. Walk(v).present => Walk(v).frame = mem[Linked(v[1])][v[2]].frame
      BY <3>3, <2>6 DEF Walk, Linked, Maps
    <3>5. QED BY <2>2, <2>3, <2>4, <2>6, <3>2, <3>3, <3>4 DEF vmm_get_phys
  <2>7. QED BY <2>5, <2>6
<1>2. QED BY <1>1, VmmInvariance, PTL

-----------------------------------------------------------------------------
(* The implementation of AddressSpace.                                     *)

View    == [v \in Cells |-> MapsTo(v)]
Target(flags, phys) == IF flags.present THEN phys ELSE Unmapped
Pending == IF pc = "idle" THEN {}
           ELSE {[cell |-> Cell(call.virt), target |-> Target(call.flags, call.phys)]}

LEMMA CellPage ==
  ASSUME NEW v \in Cells
  PROVE  /\ v \in Page /\ v[1] \in Index /\ v[2] \in Index
         /\ v[1] # 0 /\ v[1] # Recursive
BY DEF Cells, Page

\* A step that keeps what every cell maps to keeps the view.
LEMMA ViewKept ==
  ASSUME \A v \in Cells : MapsTo(v)' = MapsTo(v)
  PROVE  View' = View
BY DEF View, Cells

LEMMA InitMapped == Init => Space!Init
<1> SUFFICES ASSUME Init PROVE Space!Init
  OBVIOUS
<1>1. ASSUME NEW v \in Cells
      PROVE  MapsTo(v) = IF v[1] = KernelSlot THEN v[2] ELSE Unmapped
  <2>1. /\ v[1] \in Index /\ v[2] \in Index /\ v[1] # 0 /\ v[1] # Recursive
    BY CellPage
  <2>2. mem[BootPde][v[1]] = IF v[1] = KernelSlot THEN Maps(BootPt, FALSE) ELSE Absent
    BY <2>1, BootFrames DEF Init, setup_paging_c
  <2>3. mem[BootPt][v[2]] = Maps(v[2], FALSE)
    BY <2>1, BootFrames DEF Init, setup_paging_c
  <2>4. CASE v[1] = KernelSlot
    BY <2>2, <2>3, <2>4 DEF Init, MapsTo, Walk, Maps
  <2>5. CASE v[1] # KernelSlot
    BY <2>2, <2>5, EntryTypes DEF Init, MapsTo, Walk
  <2>6. QED BY <2>4, <2>5
<1>2. QED BY <1>1 DEF Init, Space!Init

\* Steps that leave the tables and the call alone.
LEMMA QuietMapped ==
  ASSUME UNCHANGED <<mem, mapvars>>
  PROVE  UNCHANGED <<View, Pending>>
<1>1. mem' = mem /\ pc' = pc /\ call' = call
  BY DEF mapvars
<1>2. \A v \in Cells : MapsTo(v)' = MapsTo(v)
  BY <1>1 DEF MapsTo, Walk
<1>3. QED BY <1>1, <1>2, ViewKept DEF Pending

LEMMA MapMapped ==
  ASSUME VmmInv, NEW r \in Requests, vmm_map_page(r)
  PROVE  \/ UNCHANGED <<View, Pending>>
         \/ /\ Pending = {} /\ View' = View
            /\ Pending' = {[cell |-> Cell(r.virt), target |-> Target(r.flags, r.phys)]}
<1>1. /\ pc = "idle"
      /\ (pc' \in {"set", "link"} /\ call' = r) \/ UNCHANGED <<mem, mapvars>>
  BY DEF vmm_map_page
<1>2. CASE UNCHANGED <<mem, mapvars>>
  BY <1>2, QuietMapped
<1>3. CASE pc' \in {"set", "link"} /\ call' = r
  <2>1. \A v \in Page : Walk(v)' = Walk(v)
    BY MapStep
  <2>2. \A v \in Cells : MapsTo(v)' = MapsTo(v)
    BY <1>1, <1>3, <2>1, CellPage DEF MapsTo
  <2>3. QED BY <1>1, <1>3, <2>2, ViewKept DEF Pending
<1>4. QED BY <1>1, <1>2, <1>3

\* Linking shows nothing yet: the slot was empty before, and its table counts
\* as empty until it is cleared.
LEMMA LinkMapped ==
  ASSUME VmmInv, LinkTable
  PROVE  UNCHANGED <<View, Pending>>
<1>1. pc = "link" /\ pc' = "zero" /\ call' = call
  BY DEF LinkTable
<1>2. ASSUME NEW v \in Cells
      PROVE  MapsTo(v)' = MapsTo(v)
  <2>1. IF v[1] = call.virt[1] THEN Walk(v) = Absent ELSE Walk(v)' = Walk(v)
    BY CellPage, LinkStep
  <2>2. MapsTo(v) = IF Walk(v).present THEN Walk(v).frame ELSE Unmapped
    BY <1>1 DEF MapsTo
  <2>3. MapsTo(v)' = IF Walk(v)'.present /\ v[1] # call.virt[1]
                     THEN Walk(v)'.frame ELSE Unmapped
    BY <1>1 DEF MapsTo
  <2>4. QED BY <2>1, <2>2, <2>3, EntryTypes
<1>3. QED BY <1>1, <1>2, ViewKept DEF Pending

LEMMA ZeroMapped ==
  ASSUME VmmInv, ZeroTable
  PROVE  UNCHANGED <<View, Pending>>
<1>1. pc = "zero" /\ pc' = "set" /\ call' = call
  BY DEF ZeroTable
<1>2. ASSUME NEW v \in Cells
      PROVE  MapsTo(v)' = MapsTo(v)
  <2>1. Walk(v)' = IF v[1] = call.virt[1] THEN Absent ELSE Walk(v)
    BY CellPage, ZeroStep
  <2>2. MapsTo(v)' = IF Walk(v)'.present THEN Walk(v)'.frame ELSE Unmapped
    BY <1>1 DEF MapsTo
  <2>3. MapsTo(v) = IF Walk(v).present /\ v[1] # call.virt[1]
                    THEN Walk(v).frame ELSE Unmapped
    BY <1>1 DEF MapsTo
  <2>4. QED BY <2>1, <2>2, <2>3, EntryTypes
<1>3. QED BY <1>1, <1>2, ViewKept DEF Pending

\* The last write is the commit.
LEMMA SetMapped ==
  ASSUME VmmInv, SetPte
  PROVE  /\ Pending = {[cell |-> Cell(call.virt), target |-> Target(call.flags, call.phys)]}
         /\ Pending' = {}
         /\ View' = [View EXCEPT ![Cell(call.virt)] = Target(call.flags, call.phys)]
<1>1. pc = "set" /\ pc' = "idle"
  BY DEF SetPte
<1>2. PICK c, t : /\ c \in Cells /\ c = Cell(call.virt)
                 /\ t = Target(call.flags, call.phys)
  BY <1>1, CallInProgress, CellOfPage
<1>3. ASSUME NEW v \in Cells
      PROVE  MapsTo(v)' = IF v = c THEN t ELSE MapsTo(v)
  <2>1. v \in Page /\ v[1] # Recursive /\ Cell(v) = v
    BY CellPage DEF Cell
  <2>2. /\ MapsTo(v)' = IF Walk(v)'.present THEN Walk(v)'.frame ELSE Unmapped
        /\ MapsTo(v) = IF Walk(v).present THEN Walk(v).frame ELSE Unmapped
    BY <1>1 DEF MapsTo
  <2>3. CASE v = c
    <3>1. /\ Walk(v)'.present = call.flags.present
          /\ call.flags.present => Walk(v)'.frame = call.phys
      BY <1>2, <2>1, <2>3, SetStep
    <3>2. QED BY <1>2, <2>2, <2>3, <3>1 DEF Target
  <2>4. CASE v # c
    <3>1. Walk(v)' = Walk(v)
      BY <1>2, <2>1, <2>4, SetStep
    <3>2. QED BY <2>2, <2>4, <3>1
  <2>5. QED BY <2>3, <2>4
<1>4. View' = [View EXCEPT ![c] = t]
  BY <1>3 DEF View, Cells
<1>5. QED BY <1>1, <1>2, <1>4 DEF Pending

\* Every behaviour of mmu.c is one that mmu.h allows: a call changes one cell
\* in one step, or leaves no trace.
THEOREM VmmRefinement == Spec => Implements
<1>1. Init => Space!Init
  BY InitMapped
<1>2. VmmInv /\ [Next]_vars => [Space!Next]_(Space!asvars)
  <2> SUFFICES ASSUME VmmInv, [Next]_vars
               PROVE  [Space!Next]_(Space!asvars)
    OBVIOUS
  <2>1. UNCHANGED <<View, Pending>> => UNCHANGED Space!asvars
    BY DEF View, Pending, Target, Space!asvars
  <2>2. CASE ClientPmm
    BY <2>1, <2>2, QuietMapped DEF ClientPmm
  <2>3. CASE \E v \in Page : Fill(v) \/ Evict(v)
    BY <2>1, <2>3, QuietMapped DEF Fill, Evict
  <2>4. CASE UNCHANGED vars
    BY <2>1, <2>4, QuietMapped DEF vars
  <2>5. CASE LinkTable
    BY <2>1, <2>5, LinkMapped
  <2>6. CASE ZeroTable
    BY <2>1, <2>6, ZeroMapped
  <2>7. CASE SetPte
    <3>1. Space!Commit
      BY <2>7, SetMapped DEF View, Pending, Target, Space!Commit
    <3>2. QED BY <3>1 DEF Space!Next
  <2>8. CASE \E r \in Requests : vmm_map_page(r)
    <3>1. PICK r \in Requests : vmm_map_page(r)
      BY <2>8
    <3>2. CASE UNCHANGED <<View, Pending>>
      BY <2>1, <3>2
    <3>3. CASE /\ Pending = {} /\ View' = View
               /\ Pending' = {[cell |-> Cell(r.virt), target |-> Target(r.flags, r.phys)]}
      <4>1. Cell(r.virt) \in Cells /\ Target(r.flags, r.phys) \in Frame \cup {Unmapped}
        BY RequestType, CellOfPage DEF Target
      <4>2. Space!Ask(Cell(r.virt), Target(r.flags, r.phys))
        BY <3>3 DEF View, Pending, Target, Space!Ask
      <4>3. QED BY <4>1, <4>2 DEF Space!Next
    <3>4. QED BY <3>1, <3>2, <3>3, MapMapped
  <2>9. QED BY <2>2, <2>3, <2>4, <2>5, <2>6, <2>7, <2>8 DEF Next
<1>3. QED BY VmmInvariance, <1>1, <1>2, PTL DEF Spec, Implements, Space!Spec
==============================================================================
