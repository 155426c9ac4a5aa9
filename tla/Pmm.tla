--------------------------------- MODULE Pmm ---------------------------------
(***************************************************************************)
(* kernel/pmm.c: the physical page allocator.  One bit per page frame says *)
(* whether the frame is taken; two counters and a search hint are kept     *)
(* beside it.  Every function runs to completion before another starts:    *)
(* only kernel_main and what it calls use the allocator, and the interrupt *)
(* path (IRQ0) never does, so each call is one step.                       *)
(*                                                                         *)
(* Addresses are numbers of bytes, frames are numbers of pages.  A byte of *)
(* the bitmap is abstracted to its eight frames: frame >> 3 and frame & 7  *)
(* name every frame exactly once.                                          *)
(***************************************************************************)
EXTENDS Integers, FiniteSets, Sequences

CONSTANTS
  MaxFrames,    \* PMM_MAX_FRAMES: frames below 4 GiB
  PageSize,     \* PMM_PAGE_SIZE, in bytes
  KernelEnd,    \* _kernel_phys_end, a byte address that need not be aligned
  MemoryMaps    \* the Multiboot2 memory maps a boot loader may hand over

Frame   == 0 .. MaxFrames - 1
Address == 0 .. MaxFrames * PageSize - 1      \* a 32-bit pointer

MemoryType == {"available", "reserved"}
Region     == [type : MemoryType, addr : Nat, len : Nat]

\* The boot loader's maps describe physical memory: addr + len stays far below
\* 2^64, so the 64-bit sums of pmm_init do not wrap and are sums of naturals.
ASSUME PmmAssumption ==
  /\ MaxFrames \in Nat \ {0}
  /\ PageSize \in Nat \ {0}
  /\ KernelEnd \in 1 .. MaxFrames * PageSize
  /\ MemoryMaps \subseteq Seq(Region)

VARIABLES
  mmap,             \* the memory map of this boot; <<>> when the tag is absent
  pmm_bitmap,       \* 1: taken, 0: free
  pmm_total, pmm_free,
  kernel_end_frame, \* 0 until pmm_init has run
  pmm_next_free,    \* where the next search starts
  held,             \* history: the frames handed out and not freed since
  last              \* history: the last call and the page it was about

vars == <<mmap, pmm_bitmap, pmm_total, pmm_free, kernel_end_frame,
          pmm_next_free, held, last>>

Call(op, page) == [op |-> op, page |-> page]
NULL == 0

PageOf(frame) == frame * PageSize

\* The first frame that starts at or after an address, and the frame an address is in.
FrameUp(addr)   == (addr + PageSize - 1) \div PageSize
FrameDown(addr) == addr \div PageSize

FreeFrames == {f \in Frame : pmm_bitmap[f] = 0}
Lowest(S)  == CHOOSE f \in S : \A g \in S : f <= g

(***************************************************************************)
(* pmm_init: what one region of the map, and the whole map, release.       *)
(* A region is cut at the kernel's end, its start rounded up and its end   *)
(* rounded down to whole pages, and clamped to 4 GiB (f \in Frame).        *)
(***************************************************************************)
RegionStart_noCut(r) == r.addr         \* mutant: the kernel is not cut out
RegionStart(r) == IF r.addr < KernelEnd THEN KernelEnd ELSE r.addr
RegionEnd(r)   == r.addr + r.len

\* Mutant: the end of a region is rounded up.
RegionFrames_endUp(r) ==
  {f \in Frame : /\ r.type = "available"
                 /\ RegionEnd(r) > KernelEnd
                 /\ FrameUp(RegionStart(r)) <= f
                 /\ f < FrameUp(RegionEnd(r))}

RegionFrames(r) ==
  {f \in Frame : /\ r.type = "available"
                 /\ RegionEnd(r) > KernelEnd
                 /\ FrameUp(RegionStart(r)) <= f
                 /\ f < FrameDown(RegionEnd(r))}

Released(map) == UNION {RegionFrames(map[i]) : i \in DOMAIN map}

\* A frame is counted when its bit goes from taken to free, so a frame of two
\* overlapping regions is counted once; the mutant counts it in each.
Counted_twice(map) == Cardinality(UNION {RegionFrames(map[i]) \X {i} : i \in DOMAIN map})
Counted(map) == Cardinality(Released(map))

pmm_init ==
  /\ kernel_end_frame = 0                   \* kernel_main calls it once
  /\ kernel_end_frame' = FrameUp(KernelEnd)
  /\ pmm_next_free' = FrameUp(KernelEnd)
  /\ pmm_bitmap' = [f \in Frame |-> IF f \in Released(mmap) THEN 0 ELSE 1]
  /\ pmm_total' = pmm_total + Counted(mmap)
  /\ pmm_free' = pmm_free + Counted(mmap)
  /\ last' = Call("init", NULL)
  /\ UNCHANGED <<mmap, held>>

(***************************************************************************)
(* pmm_alloc_page scans from the hint to the end, then from the kernel's   *)
(* end to the hint, and takes the first clear bit it meets.                *)
(***************************************************************************)
Clear(from, to) == {f \in from .. to - 1 : pmm_bitmap[f] = 0}

Candidates ==
  LET ahead == Clear(pmm_next_free, MaxFrames)
  IN  IF pmm_free = 0 THEN {}
      ELSE IF ahead # {} THEN ahead
      ELSE Clear(kernel_end_frame, pmm_next_free)

\* Mutants: the hint skips a frame; the count is not kept.
Take_skip(frame) ==
  /\ pmm_bitmap' = [pmm_bitmap EXCEPT ![frame] = 1]
  /\ pmm_free' = pmm_free - 1
  /\ pmm_next_free' = frame + 2
  /\ held' = held \cup {frame}

Take_uncounted(frame) ==
  /\ pmm_bitmap' = [pmm_bitmap EXCEPT ![frame] = 1]
  /\ pmm_free' = pmm_free
  /\ pmm_next_free' = frame + 1
  /\ held' = held \cup {frame}

Take(frame) ==
  /\ pmm_bitmap' = [pmm_bitmap EXCEPT ![frame] = 1]
  /\ pmm_free' = pmm_free - 1
  /\ pmm_next_free' = frame + 1
  /\ held' = held \cup {frame}

pmm_alloc_page ==
  /\ \/ /\ Candidates = {}
        /\ last' = Call("alloc", NULL)
        /\ UNCHANGED <<pmm_bitmap, pmm_free, pmm_next_free, held>>
     \/ /\ Candidates # {}
        /\ Take(Lowest(Candidates))
        /\ last' = Call("alloc", PageOf(Lowest(Candidates)))
  /\ UNCHANGED <<mmap, pmm_total, kernel_end_frame>>

(***************************************************************************)
(* pmm_free_page ignores null, unaligned and kernel addresses and frames   *)
(* whose bit is already clear.  A 32-bit address never names a frame at or *)
(* above PMM_MAX_FRAMES.                                                   *)
(***************************************************************************)
\* Mutant: kernel pages can be freed.
Accepts_kernel(page) ==
  /\ page # NULL
  /\ page % PageSize = 0
  /\ pmm_bitmap[FrameDown(page)] = 1

Accepts(page) ==
  /\ page # NULL
  /\ page % PageSize = 0
  /\ FrameDown(page) >= kernel_end_frame
  /\ pmm_bitmap[FrameDown(page)] = 1

Give(frame) ==
  /\ pmm_bitmap' = [pmm_bitmap EXCEPT ![frame] = 0]
  /\ pmm_free' = pmm_free + 1
  /\ pmm_next_free' = IF frame < pmm_next_free THEN frame ELSE pmm_next_free
  /\ held' = held \ {frame}

pmm_free_page(page) ==
  /\ \/ /\ Accepts(page)
        /\ Give(FrameDown(page))
     \/ /\ ~Accepts(page)
        /\ UNCHANGED <<pmm_bitmap, pmm_free, pmm_next_free, held>>
  /\ last' = Call("free", page)
  /\ UNCHANGED <<mmap, pmm_total, kernel_end_frame>>
------------------------------------------------------------------------------
\* .bss is zero: before pmm_init every bit reads "free", but the count is 0.
Init ==
  /\ mmap \in MemoryMaps
  /\ pmm_bitmap = [f \in Frame |-> 0]
  /\ pmm_total = 0 /\ pmm_free = 0
  /\ kernel_end_frame = 0 /\ pmm_next_free = 0
  /\ held = {}
  /\ last = Call("boot", NULL)

\* Any client, careful or not: pmm_free_page may be called with every address.
Next ==
  \/ pmm_init
  \/ pmm_alloc_page
  \/ \E page \in Address : pmm_free_page(page)

Spec == Init /\ [][Next]_vars

\* A client that owns what it frees, as kernel_main does (kernel.c:64-66): it
\* frees a page it was given, or passes something pmm_free_page must ignore.
Owned(page) == Accepts(page) => FrameDown(page) \in held

OwnerNext ==
  \/ pmm_init
  \/ pmm_alloc_page
  \/ \E page \in Address : Owned(page) /\ pmm_free_page(page)

OwnerSpec == Init /\ [][OwnerNext]_vars
------------------------------------------------------------------------------
Ready == kernel_end_frame # 0

\* Every variable of pmm.c keeps its range.
TypeOK ==
  /\ mmap \in MemoryMaps
  /\ pmm_bitmap \in [Frame -> {0, 1}]
  /\ pmm_total \in Nat /\ pmm_free \in Nat
  /\ kernel_end_frame \in 0 .. MaxFrames /\ pmm_next_free \in 0 .. MaxFrames
  /\ held \in SUBSET Frame
  /\ last \in [op : {"boot", "init", "alloc", "free"}, page : Address]

\* pmm_free is exactly the number of clear bits, whatever sequence of frees,
\* double frees and bad addresses came before (pmm.c:262 promises as much).
CountExact == Ready => pmm_free = Cardinality(FreeFrames)

\* The hint never skips a free frame, so the second scan of pmm_alloc_page has
\* nothing to find and the search is first fit (pmm.c:47-48).
HintBelowFree == Ready => \A f \in FreeFrames : pmm_next_free <= f

\* No frame that holds a byte of the kernel image is ever free, not even the
\* frame it shares with the first region after it (pmm.c:142-146, 283).
KernelReserved == Ready => \A f \in FreeFrames : PageOf(f) >= KernelEnd

\* Before pmm_init the allocator is closed: it hands out nothing although
\* every bit of .bss reads "free".
ClosedBeforeInit ==
  ~Ready => pmm_total = 0 /\ pmm_free = 0 /\ held = {} /\ FreeFrames = Frame

\* Under owning clients the released frames are shared out exactly: each is
\* free or held, none is both, and none appears or is lost.
Conservation ==
  Ready => /\ FreeFrames \cap held = {}
           /\ FreeFrames \cup held = Released(mmap)
           /\ pmm_free + Cardinality(held) = pmm_total

\* Under owning clients every frame in circulation lies, to its last byte, in
\* one available region of the map and beyond the kernel: rounding, cutting
\* and clamping in pmm_init never release part of a reserved page.
InAvailableRam(f) ==
  \E i \in DOMAIN mmap :
    /\ mmap[i].type = "available"
    /\ mmap[i].addr <= PageOf(f)
    /\ PageOf(f + 1) <= mmap[i].addr + mmap[i].len

OnlyRamCirculates ==
  Ready => \A f \in FreeFrames \cup held : InAvailableRam(f)

\* An allocation returns the lowest free page and takes nothing else.
AllocFirstFit ==
  [][pmm_free' < pmm_free =>
       /\ FreeFrames' = FreeFrames \ {Lowest(FreeFrames)}
       /\ last'.page = PageOf(Lowest(FreeFrames))]_vars

\* pmm.h's allocator, with the bitmap read as a set of pages.
Allocator ==
  INSTANCE PageAllocator WITH
    Pages   <- Address,
    NoPage  <- NULL,
    managed <- IF Ready THEN {PageOf(f) : f \in {g \in Frame : g >= kernel_end_frame}} ELSE {},
    avail   <- IF Ready THEN {PageOf(f) : f \in FreeFrames} ELSE {}

\* pmm.c implements the allocator of pmm.h for every client, careful or not.
Implements == Allocator!Spec
==============================================================================
