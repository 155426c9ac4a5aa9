-------------------------------- MODULE Kernel --------------------------------
(***************************************************************************)
(* kernel_main of kernel/kernel.c from its call to "System ready", with    *)
(* gdt_init, vmm_init and everything they call: the page allocator (Pmm),  *)
(* the page tables and the processor's TLB (Vmm), and the thread control   *)
(* blocks (Process) on one memory.  What the modules below assume of each  *)
(* other is stated here and checked.                                       *)
(*                                                                         *)
(* interrupt_init and the tick loop are in Interrupts, the output in       *)
(* Console: they share no memory with the steps of this module.            *)
(***************************************************************************)
EXTENDS Integers, FiniteSets, Sequences, Gdt

CONSTANTS
  MaxFrames, PageSize, KernelEnd, MemoryMaps,         \* see Pmm
  Entries, KernelSlot, BootPde, BootPt, Garbage, TlbSize,    \* see Vmm
  FrameOfStack,   \* see Process
  test_vaddr      \* the page of 0xD0000000, unmapped at boot

VARIABLES
  mmap, pmm_bitmap, pmm_total, pmm_free, kernel_end_frame, pmm_next_free,
  held, last,                                         \* see Pmm
  mem, tlb, vpc, call, new_pt, reused,                \* see Vmm
  pcb, ready_queue_head, ready_queue_tail, next_pid, ppc, proc, lost,  \* see Process
  kpc,            \* where kernel_main stands
  gdt, segments,  \* the descriptor table and the selectors in use
  p1, p2, test_page,    \* locals of kernel_main and vmm_init
  wrote           \* history: the frame the test pattern went to

pmmvars  == <<mmap, pmm_bitmap, pmm_total, pmm_free, kernel_end_frame,
              pmm_next_free, held, last>>
vmmvars  == <<mem, tlb, vpc, call, new_pt, reused>>
procvars == <<pcb, ready_queue_head, ready_queue_tail, next_pid, ppc, proc, lost>>
mainvars == <<gdt, segments, p1, p2, test_page, wrote>>
vars     == <<pmmvars, vmmvars, procvars, mainvars, kpc>>

\* Mutant: a page of the kernel's slot.
TestPage_kernel == <<KernelSlot, test_vaddr[2]>>
TestPage == test_vaddr

TestRequest(frame) ==
  [virt |-> TestPage, phys |-> frame, flags |-> [present |-> TRUE, user |-> FALSE]]

PM == INSTANCE Pmm
VM == INSTANCE Vmm WITH
        pc <- vpc, Requests <- {TestRequest(f) : f \in 0 .. MaxFrames - 1}
PR == INSTANCE Process WITH pc <- ppc, Mapped <- Entries

ASSUME KernelAssumption ==
  /\ VM!VmmAssumption /\ PR!ProcessAssumption
  /\ test_vaddr \in VM!Page /\ test_vaddr[1] \notin {0, KernelSlot, VM!Recursive}
------------------------------------------------------------------------------
Goto(from, to) == kpc = from /\ kpc' = to

\* Another boot loader's magic: kernel_main returns, and boot.S hangs.
check_magic ==
  /\ kpc = "magic" /\ kpc' \in {"gdt", "hang"}
  /\ UNCHANGED <<pmmvars, vmmvars, procvars, mainvars>>

\* Mutant: the data segments keep the boot loader's selector.
Reloaded_cs == [segments EXCEPT !.cs = 8]
Reloaded == [cs |-> 8, data |-> 16]

gdt_init ==
  /\ Goto("gdt", "pmm")
  /\ gdt' = Descriptors
  /\ segments' = Reloaded
  /\ UNCHANGED <<pmmvars, vmmvars, procvars, p1, p2, test_page, wrote>>

pmm_init ==
  /\ Goto("pmm", "p1")
  /\ PM!pmm_init
  /\ UNCHANGED <<vmmvars, procvars, mainvars>>

alloc_p1 ==
  /\ Goto("p1", "p2")
  /\ PM!pmm_alloc_page /\ p1' = last'.page
  /\ UNCHANGED <<vmmvars, procvars, gdt, segments, p2, test_page, wrote>>

alloc_p2 ==
  /\ Goto("p2", "free1")
  /\ PM!pmm_alloc_page /\ p2' = last'.page
  /\ UNCHANGED <<vmmvars, procvars, gdt, segments, p1, test_page, wrote>>

free_p1 ==
  /\ Goto("free1", "free2")
  /\ PM!pmm_free_page(p1)
  /\ UNCHANGED <<vmmvars, procvars, mainvars>>

free_p2 ==
  /\ Goto("free2", "vmm")
  /\ PM!pmm_free_page(p2)
  /\ UNCHANGED <<vmmvars, procvars, mainvars>>
------------------------------------------------------------------------------
\* vmm_init: without a page for the test the test is skipped.
vmm_init ==
  /\ kpc = "vmm"
  /\ PM!pmm_alloc_page /\ test_page' = last'.page
  /\ kpc' = IF last'.page = PM!NULL THEN "process" ELSE "map"
  /\ UNCHANGED <<vmmvars, procvars, gdt, segments, p1, p2, wrote>>

\* vmm_map_page gives no result, so vmm_init does not look whether it did
\* anything; between its steps kpc stays at "mapped".
\* Mutant: the wrong local variable.
TestFrame_p2 == PM!FrameDown(p2)
TestFrame == PM!FrameDown(test_page)

map_test_page ==
  /\ Goto("map", "mapped")
  /\ VM!vmm_map_page(TestRequest(TestFrame))
  /\ UNCHANGED <<procvars, mainvars>>

vmm_map_page_goes_on ==
  /\ kpc = "mapped"
  /\ VM!LinkTable \/ VM!ZeroTable \/ VM!SetPte
  /\ UNCHANGED <<procvars, mainvars, kpc>>

\* The test pattern 0xDEADBEEF, read as an entry, is present and for user code.
Pattern == VM!Maps(MaxFrames - 1, TRUE)

\* Where the write to the test page goes; the mutant writes to the next page.
Target_next == VM!Access(<<TestPage[1], TestPage[2] + 1>>)
Target == VM!Access(TestPage)

write_test_page ==
  /\ kpc = "mapped" /\ vpc = "idle"
  /\ \/ /\ Target.present
        /\ mem' = [mem EXCEPT ![Target.frame][0] = Pattern]
        /\ wrote' = Target.frame
        /\ kpc' = "process"
     \/ /\ ~Target.present                  \* a page fault
        /\ kpc' = "fault"
        /\ UNCHANGED <<mem, wrote>>
  /\ UNCHANGED <<pmmvars, tlb, vpc, call, new_pt, reused, procvars,
                 gdt, segments, p1, p2, test_page>>
------------------------------------------------------------------------------
process_init ==
  /\ Goto("process", "create_a")
  /\ PR!process_init
  /\ UNCHANGED <<vmmvars, mainvars>>

AfterCreate(call_) == IF call_ = "create_a" THEN "create_b" ELSE "ready"

process_create ==
  /\ kpc \in {"create_a", "create_b"}
  /\ PR!allocate_pcb \/ PR!allocate_stack
  /\ kpc' = CASE ppc' = "idle"  -> AfterCreate(kpc)
              [] ppc' = "stack" -> kpc
              [] ppc' = "fault" -> "fault"
  /\ UNCHANGED <<vmmvars, mainvars>>

\* The processor walks the tables and forgets translations at any time.
processor ==
  /\ \E v \in VM!Page : VM!Fill(v) \/ VM!Evict(v)
  /\ UNCHANGED <<procvars, mainvars, kpc>>

kernel_main ==
  \/ check_magic \/ gdt_init \/ pmm_init
  \/ alloc_p1 \/ alloc_p2 \/ free_p1 \/ free_p2
  \/ vmm_init \/ map_test_page \/ vmm_map_page_goes_on \/ write_test_page
  \/ process_init \/ process_create

Init ==
  /\ VM!Init /\ PR!Init
  /\ kpc = "magic"
  /\ gdt = <<>> /\ segments = [cs |-> 0, data |-> 0]
  /\ p1 = 0 /\ p2 = 0 /\ test_page = 0 /\ wrote = 0

Next == kernel_main \/ processor
Spec == Init /\ [][Next]_vars
------------------------------------------------------------------------------
\* The boot pages in the order the allocator hands them out, lowest first: the
\* test page, its page table, then PCB and stack of each thread.
BootPage(n) ==
  CHOOSE f \in PM!Released(mmap) :
    Cardinality({g \in PM!Released(mmap) : g < f}) = n - 1

\* How the boot ends depends on how many pages there are and where they lie, and
\* every number has its own outcome.  A single page leaves none for the table of
\* the test page, and vmm_init writes to it regardless (mmu.c:242); a PCB or a
\* stack beyond the identity map is a page fault too.  Otherwise each thread
\* wants two pages, and a page too few for the second one costs the first
\* (process.c:60-71); nothing else is missing: the allocation test and vmm_init
\* gave back, or used, what they took (kernel.c:55-68).
Threads == {n \in 3 .. 6 : n <= pmm_total}
Doomed  == pmm_total = 1 \/ \E n \in Threads : BootPage(n) >= Entries
BootOutcome ==
  /\ kpc = "fault" => Doomed
  /\ kpc = "ready" =>
       /\ ~Doomed
       /\ Len(PR!Queue) = IF pmm_total < 4 THEN 0 ELSE IF pmm_total < 6 THEN 1 ELSE 2
       /\ Cardinality(lost) = IF pmm_total \in {3, 5} THEN 1 ELSE 0
       /\ pmm_free = IF pmm_total < 6 THEN 0 ELSE pmm_total - 6
       /\ \A i \in DOMAIN PR!Queue : PR!Queue[i] = i

\* Every page in use has one owner: p1 or p2 while they are tested, the test
\* page, its table, a PCB or a stack; and nothing else was taken.
Testing == IF kpc \in {"p2", "free1", "free2"} THEN {p1, p2} ELSE {}
PagesOf(pages) == {PM!FrameDown(p) : p \in pages \ {PM!NULL}}
TablesNow == VM!Tables \cup ({new_pt} \ {0})
AllOwned ==
  kpc \notin {"free2", "fault"} =>
    /\ held = PagesOf(Testing \cup {test_page}) \cup TablesNow \cup PR!Owned
    /\ Cardinality(held) =
         Cardinality(PagesOf(Testing \cup {test_page}))
           + Cardinality(TablesNow) + Cardinality(PR!Owned)

\* Unless the table of the test page was linked with an old entry in it, the
\* pattern goes to the test page and to no other, whatever the TLB holds.
TestWriteLands ==
  wrote # 0 /\ test_vaddr \notin reused => wrote = PM!FrameDown(test_page)

\* The first Entries frames stay accessible at their own address and in the
\* kernel's slot: the stack, the Multiboot2 pointer, the kernel's code and the
\* PCBs are used through these maps until the end (boot.S:148).
IdentityKept ==
  test_vaddr \notin reused =>
    \A i \in VM!Index : /\ VM!Access(<<0, i>>) = VM!Maps(i, FALSE)
                        /\ VM!Access(<<KernelSlot, i>>) = VM!Maps(i, FALSE)

\* After gdt_init every selector in use, and each one the gates and user code
\* are to use, names a present flat segment of its own kind and ring
\* (gdt.c:24-30, boot/gdt_flush.S).
Descriptor(selector) == gdt[selector \div 8]
SegmentsUsable ==
  gdt # <<>> =>
    /\ \A selector \in {segments.cs, segments.data, 27, 35} :
         LET d == Descriptor(selector)
         IN  Present(d) /\ Flat(d) /\ Privilege(d) = selector % 4
    /\ IsCode(Descriptor(segments.cs)) /\ IsCode(Descriptor(27))
    /\ IsData(Descriptor(segments.data)) /\ IsData(Descriptor(35))
==============================================================================
