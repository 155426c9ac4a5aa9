--------------------------------- MODULE Vmm ---------------------------------
(***************************************************************************)
(* kernel/mmu.c and kernel/boot_paging.c: two-level page tables that the   *)
(* kernel edits through the recursive slot of the page directory, with the *)
(* page allocator (Pmm) below and the processor's MMU beside it.           *)
(*                                                                         *)
(* A virtual page is a pair <<directory index, table index>>; the offset   *)
(* in the page is left out.  A physical frame that serves as a directory   *)
(* or a table is a function from indices to entries.  The processor may    *)
(* walk the tables and keep the result in its TLB at any moment, also for  *)
(* pages no instruction names, and may drop it at any moment; mmu.c never  *)
(* invalidates an entry (flush_tlb has no caller).  The kernel reads and   *)
(* writes the tables only through virtual addresses, hence through the TLB.*)
(*                                                                         *)
(* Interrupts are on, but the handlers touch neither the tables nor the    *)
(* allocator, so the other actor here is the processor.                    *)
(***************************************************************************)
EXTENDS Integers, FiniteSets, Sequences

CONSTANTS
  MaxFrames, PageSize, KernelEnd, MemoryMaps,   \* see Pmm
  Entries,     \* PDE_COUNT = PTE_COUNT
  KernelSlot,  \* the directory index of KERNEL_VMA
  BootPde,     \* the frames of boot_pde and boot_pt0, inside the kernel image
  BootPt,
  Requests,    \* the calls clients make: none names a page of the recursive window
  Garbage,     \* what a frame may hold when pmm_alloc_page returns it
  TlbSize      \* how many translations the processor can keep

VARIABLES
  mmap, pmm_bitmap, pmm_total, pmm_free, kernel_end_frame, pmm_next_free,
  held, last,    \* see Pmm
  mem,           \* the frames, read as directories and tables
  tlb,           \* the cached translations; not present: not cached
  pc,            \* where vmm_map_page stands
  call,          \* its arguments: virt, phys and flags
  new_pt,        \* its local variable: the frame of the table being made
  reused         \* history: pages that had a present entry which was replaced

pmmvars == <<mmap, pmm_bitmap, pmm_total, pmm_free, kernel_end_frame,
             pmm_next_free, held, last>>
PM == INSTANCE Pmm

mapvars == <<pc, call, new_pt>>
vars == <<pmmvars, mem, tlb, mapvars, reused>>

Frame     == PM!Frame
Index     == 0 .. Entries - 1
Recursive == Entries - 1                      \* the self-mapped slot, 1023
Page      == Index \X Index

Entry == [present : BOOLEAN, user : BOOLEAN, frame : Frame]
Maps(frame, user) == [present |-> TRUE, user |-> user, frame |-> frame]
Absent == [present |-> FALSE, user |-> FALSE, frame |-> 0]
Table  == [Index -> Entry]
Flags  == [present : BOOLEAN, user : BOOLEAN]     \* RW is always set and not modelled
Call   == [virt : Page, phys : Frame, flags : Flags]

ASSUME VmmAssumption ==
  /\ MaxFrames \in Nat \ {0} /\ PageSize \in Nat \ {0}
  /\ KernelEnd \in 1 .. MaxFrames * PageSize
  /\ MemoryMaps \subseteq Seq(PM!Region)
  /\ Entries \in Nat /\ Entries >= 3 /\ Entries <= MaxFrames
  /\ KernelSlot \in 1 .. Entries - 2
  /\ BootPde \in 1 .. PM!FrameDown(KernelEnd - 1)
  /\ BootPt \in 1 .. PM!FrameDown(KernelEnd - 1)
  /\ BootPde # BootPt
  /\ Requests \subseteq {r \in Call : r.virt[1] # Recursive}
  /\ Garbage \subseteq Table
  /\ TlbSize \in Nat
------------------------------------------------------------------------------
(***************************************************************************)
(* setup_paging_c: the first Entries frames appear twice, at their own     *)
(* address and in the kernel's slot, through one and the same table; the   *)
(* last slot is the directory itself.                                      *)
(***************************************************************************)
\* Mutant: the directory is not mapped into itself.
setup_paging_c_noWindow ==
  [f \in Frame |->
     IF f = BootPt THEN [i \in Index |-> Maps(i, FALSE)]
     ELSE IF f = BootPde
     THEN [i \in Index |-> IF i \in {0, KernelSlot} THEN Maps(BootPt, FALSE) ELSE Absent]
     ELSE [i \in Index |-> Absent]]

setup_paging_c ==
  [f \in Frame |->
     IF f = BootPt THEN [i \in Index |-> Maps(i, FALSE)]
     ELSE IF f = BootPde
     THEN [i \in Index |-> IF i \in {0, KernelSlot} THEN Maps(BootPt, FALSE)
                           ELSE IF i = Recursive THEN Maps(BootPde, FALSE)
                           ELSE Absent]
     ELSE [i \in Index |-> Absent]]

(***************************************************************************)
(* The MMU: CR3 holds boot_pde for good.  A page is reachable when both    *)
(* levels are present, and for user code when both carry PAGE_USER.        *)
(***************************************************************************)
Walk(v) ==
  LET pde == mem[BootPde][v[1]]
      pte == mem[pde.frame][v[2]]
  IN  IF pde.present /\ pte.present
      THEN Maps(pte.frame, pde.user /\ pte.user)
      ELSE Absent

Cached == {v \in Page : tlb[v].present}

\* What an access to page v uses; an entry that is not present is a page fault.
Access(v) == IF tlb[v].present THEN tlb[v] ELSE Walk(v)

Fill(v) ==
  /\ Walk(v).present
  /\ v \notin Cached /\ Cardinality(Cached) < TlbSize
  /\ tlb' = [tlb EXCEPT ![v] = Walk(v)]
  /\ UNCHANGED <<pmmvars, mem, mapvars, reused>>

Evict(v) ==
  /\ v \in Cached
  /\ tlb' = [tlb EXCEPT ![v] = Absent]
  /\ UNCHANGED <<pmmvars, mem, mapvars, reused>>

\* The identity map and the kernel's slot share one table: <<0, i>> and
\* <<KernelSlot, i>> are two names of one cell.
Cell(v) == IF v[1] = 0 THEN <<KernelSlot, v[2]>> ELSE v

(***************************************************************************)
(* The recursive window: PT_VADDR(i) is page <<Recursive, i>>, and         *)
(* PD_VADDR is PT_VADDR(Recursive).                                        *)
(***************************************************************************)
Window(i) == <<Recursive, i>>
PD == Recursive

ReadWord(i, j) == mem[Access(Window(i)).frame][j]
WriteWord(i, j, entry) == mem' = [mem EXCEPT ![Access(Window(i)).frame][j] = entry]

\* An access to table i of the window completes.  Otherwise it is a page fault,
\* and page_fault_handler hangs the kernel: no later step is taken.
Reaches(i) == Access(Window(i)).present

Idle  == [virt |-> <<0, 0>>, phys |-> 0, flags |-> [present |-> FALSE, user |-> FALSE]]

\* Mutant: the directory entry is not looked at.
TableMissing_always(virt) == TRUE
TableMissing(virt) == ~ReadWord(PD, virt[1]).present

\* The directory entry of a fresh table; the mutant links the page to be mapped.
LinkEntry_phys == Maps(call.phys, call.flags.user)
LinkEntry == Maps(new_pt, call.flags.user)

NewTable_address(page) == page            \* mutant: an address taken for a frame
NewTable(page) == PM!FrameDown(page)

\* Steps 1, 2 and 3a: look at the directory entry and allocate a table when it
\* is missing.  Without a free page the call returns and tells nobody.
vmm_map_page(request) ==
  /\ pc = "idle" /\ Reaches(PD)
  /\ UNCHANGED <<tlb, reused>>
  /\ \/ /\ ~TableMissing(request.virt)
        /\ pc' = "set" /\ call' = request
        /\ UNCHANGED <<pmmvars, mem, new_pt>>
     \/ /\ TableMissing(request.virt)
        /\ PM!pmm_alloc_page
        /\ \/ /\ last'.page = PM!NULL
              /\ UNCHANGED <<mem, mapvars>>
           \/ /\ last'.page # PM!NULL
              /\ pc' = "link" /\ call' = request
              /\ new_pt' = NewTable(last'.page)
              /\ \E old \in Garbage : mem' = [mem EXCEPT ![new_pt'] = old]

\* Step 3b: the directory points at the new table, whatever the table holds.
LinkTable ==
  /\ pc = "link" /\ Reaches(PD)
  /\ WriteWord(PD, call.virt[1], LinkEntry)
  /\ pc' = "zero"
  /\ reused' = reused \cup {v \in Page : v[1] = call.virt[1] /\ mem[new_pt][v[2]].present}
  /\ UNCHANGED <<pmmvars, tlb, call, new_pt>>

\* Step 3c: the loop that clears the table through the window.  It is one step:
\* a walk that sees some of the old entries and not others is a walk before it.
\* The mutant forgets the loop.
Cleared_not(i) == mem
Cleared(i) == [mem EXCEPT ![Access(Window(i)).frame] = [j \in Index |-> Absent]]

ZeroTable ==
  /\ pc = "zero" /\ Reaches(call.virt[1])
  /\ mem' = Cleared(call.virt[1])
  /\ pc' = "set"
  /\ UNCHANGED <<pmmvars, tlb, call, new_pt, reused>>

\* Step 4: write the entry; whatever was there before is overwritten.
NewEntry == [present |-> call.flags.present, user |-> call.flags.user, frame |-> call.phys]

SetPte ==
  /\ pc = "set" /\ Reaches(call.virt[1])
  /\ WriteWord(call.virt[1], call.virt[2], NewEntry)
  /\ pc' = "idle" /\ call' = Idle /\ new_pt' = 0
  /\ reused' = IF ReadWord(call.virt[1], call.virt[2]) \in {NewEntry, Absent} THEN reused
               ELSE reused \cup {v \in Page : Cell(v) = Cell(call.virt)}
  /\ UNCHANGED <<pmmvars, tlb>>

\* Mutant: vmm_get_phys without its second test.
vmm_get_phys_pde(virt) ==
  IF ReadWord(PD, virt[1]).present THEN ReadWord(virt[1], virt[2]).frame ELSE 0

\* vmm_get_phys: the frame a page is mapped to, 0 when it is not mapped.
vmm_get_phys(virt) ==
  IF /\ ReadWord(PD, virt[1]).present
     /\ ReadWord(virt[1], virt[2]).present
  THEN ReadWord(virt[1], virt[2]).frame
  ELSE 0
------------------------------------------------------------------------------
\* The frames the directory points at, besides itself and the boot table.
Linked(i) == mem[BootPde][i].frame
Slots     == {i \in Index : mem[BootPde][i].present} \ {0, KernelSlot, Recursive}
Tables    == {Linked(i) : i \in Slots}

\* The frames clients hold: what they were given, less the page tables.
Clients == held \ (Tables \cup {new_pt})

Init ==
  /\ PM!Init
  /\ mem = setup_paging_c
  /\ tlb = [v \in Page |-> Absent]
  /\ pc = "idle" /\ call = Idle /\ new_pt = 0
  /\ reused = {}

\* A client call of the allocator: clients free only what is theirs.
ClientPmm ==
  /\ pc = "idle"
  /\ \/ PM!pmm_init
     \/ PM!pmm_alloc_page
     \/ \E frame \in Clients : PM!pmm_free_page(PM!PageOf(frame))
  /\ UNCHANGED <<mem, tlb, mapvars, reused>>

Next ==
  \/ ClientPmm
  \/ \E request \in Requests : vmm_map_page(request)
  \/ LinkTable
  \/ ZeroTable
  \/ SetPte
  \/ \E v \in Page : Fill(v) \/ Evict(v)

Spec == Init /\ [][Next]_vars
------------------------------------------------------------------------------
\* Every variable keeps its type; a call is in progress exactly off "idle".
TypeOK ==
  /\ PM!TypeOK
  /\ mem \in [Frame -> Table]
  /\ tlb \in [Page -> Entry]
  /\ pc \in {"idle", "link", "zero", "set"}
  /\ call \in Requests \cup {Idle}
  /\ new_pt \in Frame
  /\ reused \subseteq Page

\* The kernel's accesses to its page tables never fault: the window reaches the
\* directory always, and a table from the moment it is linked (mmu.c:84-87).
NoFault ==
  /\ Reaches(PD)
  /\ pc \in {"zero", "set"} => Reaches(call.virt[1])

\* No cached translation of the window is ever stale, so no write meant for one
\* table lands in another; this is why mmu.c:87 can do without invlpg there.
WindowFresh ==
  \A i \in Index : Window(i) \in Cached => tlb[Window(i)] = Walk(Window(i))

\* Every page table is a frame of its own: no two slots share one, none is a
\* boot table, none is free in the allocator or freed by a client.
TablesOwned ==
  /\ \A i, j \in Slots : Linked(i) = Linked(j) => i = j
  /\ Tables \cap {BootPde, BootPt} = {}
  /\ Tables \subseteq held \ PM!FreeFrames
  /\ pc = "link" => new_pt \in held \ (Tables \cup PM!FreeFrames)

(***************************************************************************)
(* The address space as mmu.h shows it.  A table that is linked and not    *)
(* yet cleared shows nothing.                                              *)
(***************************************************************************)
Cells    == {v \in Page : v[1] \notin {0, Recursive}}
Unmapped == MaxFrames

MapsTo(v) ==
  IF Walk(v).present /\ ~(pc = "zero" /\ v[1] = call.virt[1])
  THEN Walk(v).frame ELSE Unmapped

Space ==
  INSTANCE AddressSpace WITH
    Frames    <- Frame,
    BootSpace <- [v \in Cells |-> IF v[1] = KernelSlot THEN v[2] ELSE Unmapped],
    space     <- [v \in Cells |-> MapsTo(v)],
    pending   <- IF pc = "idle" THEN {}
                 ELSE {[cell   |-> Cell(call.virt),
                        target |-> IF call.flags.present THEN call.phys ELSE Unmapped]}

\* mmu.c implements the address space of mmu.h, whatever a fresh table holds
\* and whatever the processor caches.
Implements == Space!Spec

\* Between calls vmm_get_phys answers for every page what its cell maps to.
GetPhysExact ==
  pc = "idle" =>
    \A v \in Page : v[1] # Recursive =>
      vmm_get_phys(v) = IF MapsTo(Cell(v)) = Unmapped THEN 0 ELSE MapsTo(Cell(v))

\* A cached translation is stale only where a present entry was replaced: by a
\* second mapping of the page, or by the clearing of a table that was linked
\* with something in it.  A page mapped for the first time in a clean table
\* needs no invalidation (mmu.c:87).
StaleOnlyIfReused ==
  \A v \in Cached : v[1] # Recursive /\ v \notin reused => tlb[v] = Walk(v)

\* Between calls no cached translation of an ordinary page is stale, so that
\* every access goes where the last call sent it (mmu.h:95, mmu.c:87).
DataFresh ==
  pc = "idle" =>
    \A v \in Cached : v[1] # Recursive => tlb[v] = Walk(v)

Completes == pc = "set" /\ pc' = "idle"

\* A page mapped with PAGE_USER is accessible to user code (mmu.h:70).
UserReachable ==
  [][Completes /\ call.flags.present /\ call.flags.user
       => Walk(call.virt)'.user]_vars
==============================================================================
