# VIKI OS: a TLA+ model of the kernel

VIKI OS is a small teaching kernel for 32-bit x86: a boot stub that turns paging
on, a bitmap allocator of physical pages, a page-table editor, an interrupt path
with a 100 Hz timer, and the first half of a thread system (threads are created
and queued, nothing switches to them yet). It runs on one processor; concurrency
comes from interrupts, from the devices, and from the processor's TLB.

Paths below are relative to `src/`.

## 1. Inventory

| Component | State | Operations | Meets | Hard to get right |
|---|---|---|---|---|
| **Page allocator** `kernel/pmm.c` | bitmap of 2^20 frames, `pmm_total`, `pmm_free`, `kernel_end_frame`, search hint `pmm_next_free` | `pmm_init`, `pmm_alloc_page`, `pmm_free_page`, two getters | called by mapper, processes, `kernel_main` | unaligned, overlapping and 64-bit regions; double and foreign frees; a cached hint; use before `pmm_init` |
| **Boot page tables** `kernel/boot_paging.c` | `boot_pde`, `boot_pt0` | `setup_paging_c` | run by `boot/boot.S` before paging is on | one table under two directory entries; the recursive slot |
| **Mapper** `kernel/mmu.c` | the page tables, reached only through the recursive window | `vmm_map_page`, `vmm_get_phys`, `vmm_init`, `page_fault_handler` | takes tables from the allocator; interleaves with the processor's page walks | edits the tables through the translation they define; no TLB invalidation; a silent return without memory |
| **Interrupt path** `kernel/interrupt.c`, `idt.c`, `isr.S` | IDT, 8259 chips, IF, the interrupted context on the stack | `interrupt_init`, `pic_init`, stubs, `interrupt_handler`, `pic_send_eoi` | interrupts everything; calls the timer and the page-fault handler | order of port writes, nesting, spurious interrupts, stack layout, exceptions inside handlers |
| **Timer** `kernel/pit.c` | channel 0, 64-bit `system_ticks` | `pit_init`, `timer_handler`, `timer_get_ticks` | written by IRQ0, read by `kernel_main` | a two-word counter read with interrupts on |
| **Processes** `kernel/process.c` | PCBs in pages, ready queue, `next_pid` | `process_init`, `process_create` | two pages per thread from the allocator; writes at physical addresses | half-failed creation, linked queue, the 4 MiB limit of the identity map |
| **Main line** `kernel/kernel.c` | a program counter, `p1`, `p2` | `kernel_main` | calls everything in order | what one step leaves for the next; too little memory |
| **Boot entry** `boot/boot.S` | CR0, CR3, stack | `_start`, `_start_high` | hands over to `kernel_main` | stack and Multiboot2 pointer depend on the identity map |
| **GDT** `kernel/gdt.c`, `boot/gdt_flush.S` | six descriptors, the segment registers | `gdt_init`, `gdt_set`, `gdt_flush` | once, interrupts off | the encoding; selectors that name each other's kinds |
| **Console** `kernel/vga.c` | cursor, colour, 80x25 cells, hardware cursor | `vga_putc`, `vga_puts`, `vga_scroll_up`, `vga_clear`, `vga_set_cursor`, `kprintf` | called by everything that prints, by exception handlers in the middle of another call | cursor beyond the screen, late scrolling, number conversion |
| **Serial, port I/O** `kernel/port.c` | COM1's registers | `serial_init`, `serial_putc`, `outb`, `inb` | PIC, timer, console | DLAB, the busy wait |
| **Memory printer** `kernel/memory.c` | none of its own | `memory_print_map` | the information `pmm_init` reads afterwards | tags of odd lengths, entries longer than the structure, 64-bit numbers in 32-bit formats |
| **Panic** `kernel/panic.c` | none | `panic` | has no caller | nothing but the console |

What makes each of them correct:

- allocator: the counter is the bitmap's count; nothing that is not whole RAM
  above the kernel is ever handed out; no page is handed out twice or lost;
- mapper: the kernel never faults on its own tables; a call changes exactly the
  page it names; a mapping holds for every access after the call;
- interrupt path: a request reaches its own stub and no other, the interrupted
  code finds its registers and stack again, handlers do not nest, every timer
  interrupt is one tick, no line stays blocked, and an exception is final;
- processes: threads are queued in creation order and share no page;
- main line: the number and place of the free pages decide how the boot ends, and
  every page taken on the way has one owner;
- console: text stays on the screen in its order, nothing is stored beside it, an
  exception's message is readable, the serial port says the same;
- memory printer: what is printed is what the boot loader passed, and what the
  allocator then works with.

## 2. Modules

| Module | Models | Notes |
|---|---|---|
| `PageAllocator` | the promise of `include/pmm.h` | abstract: managed pages, available pages, last call |
| `Pmm` | `kernel/pmm.c` | one action per function; `held` and `last` are history |
| `AddressSpace` | the promise of `include/mmu.h` | abstract: a table from cells to frames, one call in progress |
| `Vmm` | `kernel/mmu.c`, `kernel/boot_paging.c`, the processor's page walk and TLB | instantiates `Pmm`; the mapper's stores to the tables are steps |
| `Pic` | one 8259 chip | operators on a record; hardware, so external |
| `Interrupts` | `kernel/interrupt.c`, `isr.S`, `idt.c`, `pit.c`, the loop of `kernel.c` | the devices and the processor are actors of their own |
| `ReadyQueue` | the promise of the ready queue | abstract: a sequence of pids |
| `Process` | `kernel/process.c` | instantiates `Pmm`; `process_create` is two steps, one per page |
| `Gdt` | `kernel/gdt.c` | operators: a descriptor's fields packed and read back |
| `Kernel` | `kernel/kernel.c` with `vmm_init`, `gdt_init`, `boot/gdt_flush.S` | composes `Pmm`, `Vmm` and `Process` on one memory |
| `Screen` | the text buffer and cursor of `kernel/vga.c` | operators on a record, one per statement |
| `Console` | `kernel/vga.c`, `kernel/port.c`, `kernel/panic.c` | main line, exception handler and UART interleave |
| `Format` | the numeric conversions of `kprintf` | operators; words of `Word` values |
| `MemoryMap` | `kernel/memory.c`, the tag walk of `kernel/pmm.c` | two walks over the same bytes |
| `Folding`, `PmmProofs`, `VmmProofs`, `InterruptsProofs`, `ProcessProofs`, `ConsoleProofs`, `KernelProofs`, `MemoryMapProofs` | theorems | checked by TLAPS |
| `MC...` | instances for TLC | one `.cfg` per question |

Operators that carry a suffix (`Take_skip`, `Masks_restored`, ...) are plausible
bugs of the operator that follows them. No specification uses them; they are put
in its place to see that a property fails when the code is wrong.

### How state and actions correspond to the code

**Pmm.** The variables are the static variables of `pmm.c`, and `mmap`, the memory
map the boot loader passed. A frame is a number; a byte of the bitmap is its eight
frames. The 64-bit arithmetic of `pmm_init` is arithmetic on naturals: maps
describe memory, so `addr + len` is far from 2^64. Frames at or above
`PMM_MAX_FRAMES` are not in `Frame`, which is the clamp of `pmm.c:186`. The two
scans of `pmm_alloc_page` are the sets `Clear(from, to)` and the lowest of their
members. No interrupt handler uses the allocator, so a call is one step. `Spec`
lets a client free every address at every time; `OwnerSpec` lets it free only
what it holds, as `kernel_main` does, or what `pmm_free_page` must ignore.

**Vmm.** A frame is a function from indices to entries, so that the same cells are
a directory, a table, or data. `Walk` is the processor's two-level walk, and
`tlb` what it has cached. `Fill` and `Evict` may happen at any moment and for any
page, which is what the architecture allows. The kernel's own reads and writes of
its tables (`ReadWord`, `WriteWord`) go through `Access`, that is through the TLB
and the recursive slot, never to the frame directly. `vmm_map_page` is four steps
(look and allocate, link, clear, write), because the processor may walk between
them; the loop that clears the table is one step. A write through a page that is
not present is a page fault, after which the kernel hangs: the step is not taken
(`Reaches`), and `NoFault` says that this never happens. The read/write flag is
always set and is left out.

**Interrupts.** `pc` follows `interrupt_init` and then the tick loop of
`kernel_main`; `frames` is the stack of handlers, whose last element runs. Each
`outb` of `pic_init` and `pit_init` is a step. `save_all`, `cli`,
`interrupt_handler`, `pic_send_eoi`, `timer_handler` and `restore_all` are the
parts of a handler at whose borders another interrupt, an exception or an NMI may
come in. `sti; iret` is one step, because `sti` takes effect after the
instruction behind it. The stack is a sequence of words, pushed and popped by
name in the order of the assembly, and `interrupt_handler` reads vector and error
code at the offsets of `struct pt_regs`. Each register's content is a symbol of
its own (in the running kernel all segment registers hold the same selector, so
the model asks for a little more than is needed). `interrupt_handlers[]` is never
filled in, so no registered handler is called. Software interrupt 0x80 has a gate
and no user. Between `idt_init` and the registration of the stubs no exception is
modelled: there the machine would reset. In the tick loop `last_tick` and `round`
are the code's `last_tick` and `i`; `timer_get_ticks` is two loads, in either order.
`late` is history: it tells that the loop has met more ticks than rounds (and
`BootTicks` before it), which on the machine takes a round longer than 10 ms.

**Process.** A PCB is a record in the frame it occupies; pointers are frames, and
frame 0 is the null pointer. The two halves of `process_create` end where its two
allocations do. A page beyond the identity map leads to `pc = "fault"`, the hang
in the page-fault handler. Names, `state`, `cr3` and `kstack_top` are constants
nothing reads and are left out.

**Vmm, history.** `reused` collects the pages one of whose entries was replaced
while it was present, either by a request for a page mapped before or by the old
contents of a frame that became their table. `StaleOnlyIfReused` says that these
are the only pages whose translation can be stale.

**Kernel.** `kpc` is the statement of `kernel_main` that is next; each statement
is a step, taken from the module that models the called function. While `kpc` is
`"mapped"` the steps of `vmm_map_page` are taken; between any two steps the
processor may fill or evict a translation. `write_test_page` is the store of
`mmu.c:242`: it goes where the TLB says, and 0xDEADBEEF, read as an entry, is
present and open to user code, so a pattern that lands in a page table is seen as
what it then maps. A page fault is `kpc = "fault"`, another boot loader's magic is
`"hang"`. `gdt_init` is one step, because nothing can interleave with it.
`interrupt_init` and the loop share no memory with these steps and are in
`Interrupts`; the banners are left out.

**Gdt.** `gdt_set` scatters base, limit and flags over six fields and `Base`,
`Limit` and the predicates read them back as the processor does. `segments` holds
what `gdt_flush.S` loads: the code selector by the far jump, the data selector
for the other five registers, which always hold the same one.

**Console.** A character is `"LF"`, `"CR"`, `"HT"`, `"BS"` or a glyph. `vga_putc`
and `vga_scroll_up` are modelled statement by statement, with one exception: the
copy of a row is one step. `spilled` records a store beyond the last row, which in
the machine goes to the memory behind the text buffer. An exception or an NMI may
come in between any two statements; its message is printed in one step, and the
kernel then hangs. An NMI may cut a handler off in mid-print, as `Interrupts` has
it; that is not modelled here, because the next handler then starts from a screen
and a port as `fault` may find them anyway, and the message that counts is the one
of the last handler. `uart` is the port: with DLAB set the
first two registers are the divisor, otherwise a byte written to the first one is
sent and keeps the port busy until `drain`. `panic` is its text, then the hang.

**Format, MemoryMap.** A converted field is a sequence of symbols: digits are
numbers, a sign and a space have numbers of their own. A machine word is a number
below `Word`. Tags and entries lie at byte offsets; a step that leads to an offset
where no tag or entry starts finds nothing to read and gets stuck, which is how
`WalkEnds` sees a wrong step. `kprintf` prints the fields other callers may print.
`memory_print_map` walks to the end tag and keeps the last tag of each kind,
`pmm_find_mmap` stops at the first memory map: with at most one of each, as
Multiboot2 has it (`MemoryMapAssumption`), they must agree. Each file takes its own
steps (`NextTag` and `Stride` in `memory.c`, `PmmNextTag` and `PmmNextEntry` in
`pmm.c`, whose loop moves on at four places) and counts the entries for itself.

## 3. Runs

| Run | Configuration | Shows |
|---|---|---|
| `pmm` | `MCPmm.cfg` | counter, reservation and first fit stay right under any client; implements `PageAllocator`, closed before `pmm_init` |
| `pmm_owner` | `MCPmmOwner.cfg` | owning clients: no page lost or handed out twice; only whole RAM circulates |
| `vmm` | `MCVmm.cfg` | no fault on the tables, no stale window entry, tables owned, `vmm_get_phys` exact, stale translations only where an entry was replaced; implements `AddressSpace`, with garbage in fresh frames |
| `vmm_remap` | `MCVmmRemap.cfg` | **violated:** remapping or unmapping leaves the old translation in the TLB |
| `vmm_dirty` | `MCVmmDirty.cfg` | **violated:** a table is linked before it is cleared, so even a first mapping can leave a stale translation |
| `vmm_user` | `MCVmmUser.cfg` | **violated:** `PAGE_USER` does not reach the directory entry of an existing table |
| `interrupts` | `MCInterrupts.cfg` | configuration, routing, nesting, EOI, tick count, context, the ticks `kernel_main` shows, finality of exceptions; the ticks never stop |
| `process` | `MCProcess.cfg` | the linked list is the queue in creation order; pages apart; pids accounted for |
| `process_high` | `MCProcessHigh.cfg` | **violated:** above 4 MiB `process_create` hangs the kernel |
| `kernel` | `MCKernel.cfg` | how the boot ends for every number of free pages; one owner per page; where the test write goes; the identity map; the segments |
| `console` | `MCConsole.cfg` | screen, cursor and serial port agree with what was printed, with exceptions in between; every call returns |
| `memory` | `MCMemoryMap.cfg` | numbers and regions read back as they were; both walks agree and end |

The four violations are disagreements between the code and what a comment or
header says of it; `PROJECT.json` quotes both sides. In today's boot sequence
the first two do not bite: `vmm_init` maps one page, once, for the kernel
(and `kernel` shows what a dirty table does even then, see `TestWriteLands`); the
third needs user code; the fourth needs a memory map with a hole below 4 MiB or a kernel that
leaves fewer than six pages there.

The allocator must keep what it promises to careless clients, hence two
specifications of `Pmm`. One promise it cannot keep: a client that frees a
reserved frame it never had puts it into circulation (`pmm.c:288` asks only
whether the bit is set), so `OnlyRamCirculates` is a property of `OwnerSpec`.

`timer_get_ticks` loads a 64-bit counter as two words with interrupts on. Nothing
guards the loads, and a carry between them tears the value: what keeps the only
caller right is that its loop ends after 30000000 rounds, long before the low word
wraps. `TicksAccumulate` states that: while the rounds keep up with the ticks
(`~late`), the values shown only grow, each is one the counter has had since the
one before, and the cast to 32 bits loses nothing. With a loop that does not end
(`Again_forever`) TLC finds the torn read. That rounds keep up is an assumption on
the machine, since the model has no time: a round prints at most 16 characters, and
at 38400 baud (`port.c:29`) that takes under 5 ms of the 10 ms of a tick. The
real margin is far wider, some 140 ticks per round.

`TestWriteLands` and `IdentityKept` except a table whose old contents held an
entry for the test page: then the pattern may land in any frame, a page table
included. `OnlyBackspaceSpills` states the condition under which a store beside
the screen is excluded: no caller prints a backspace.

### Bounds, and why they are enough

- `Pmm`: six frames of two bytes, a kernel that ends inside frame 1, six memory
  maps: none; all RAM; reserved holes; overlapping regions; nothing above the
  kernel; unaligned halves and RAM above the limit. Two bytes are the fewest with
  unaligned addresses; the theorems lift the bound.
- `Vmm`: five entries per level, so that the identity slot, a free slot, the
  kernel's slot, another free slot and the recursive slot are all there; three
  frames for tables and clients, so that memory runs out; a TLB of one entry,
  enough for one stale translation, each at every moment. The requests contain
  a page mapped, remapped and unmapped, both names of a shared page, and pages of
  one and of different tables. The theorems lift the bound.
- `Interrupts`: words of three values (`WordSize = 3`), so that the counter carries
  and wraps, and two rounds of the tick loop (`Rounds = 2`, `BootTicks = 0`), whose
  ticks just fit in a word; timer, keyboard and real-time clock as devices; the firmware's usual
  masks, with the keyboard and the slave open; NMI and page fault; two
  handlers deep (`MaxDepth = 2`), one more than the code ever nests without an
  exception.
- `Process`: up to seven frames above the kernel, of which six are mapped, which is
  room for three threads, so that one is queued behind a tail that has moved; maps
  that run out at either page of a creation, have a hole, or go beyond the identity
  map.
- `Kernel`: pages of four bytes, twelve frames, the kernel in the first three,
  tables of nine entries, so that six of the nine pages lie below the end of the
  identity map. The maps leave every number of pages from none to seven, and
  holes that move the table, a PCB or a stack beyond it; frames are clean or hold
  an entry for the test page. Six pages are all the boot ever uses.
- `Console`: three rows of three cells, tabs to every second column, four calls out
  of six texts, a panic, colours and positions on and off the screen. Four calls
  fill the screen and scroll it, with newlines, wraps and backspaces at the bottom.
- `MemoryMap`: words of eight bits, every value of a word in every format with
  widths 0 to 4; regions below, at and above one word; up to three regions, in
  entries of 24, 28 and 32 bytes; tags of every length modulo 8 before and behind
  the map, maps without basic information and the other way round.

Deadlock is not checked in `interrupts`, `process`, `console` and `memory`
(`CHECK_DEADLOCK FALSE`): an exception or a page fault hangs the kernel, and in
the last two the calls are bounded and the walk ends. Everywhere else it is; in
`vmm` and `kernel` it says little, because the processor can always walk the tables.

### Fairness

- `Interrupts!FairSpec`: the processor executes the running code (weak fairness of
  `kernel_main` and of the handlers), the timer raises its line again whenever it
  is low (weak fairness of `raise(0)`), and a pending request is not withdrawn at
  the moment of its acknowledgement for ever (strong fairness of `deliver`): the
  timer holds its line for 5 ms, the acknowledgement takes less than a
  microsecond. Nothing is assumed of the rate of interrupts, and nothing of
  exceptions: `TicksGoOn` asks for infinitely many ticks unless the kernel has
  `Faulted`, after which ticks do stop.
- `Console!Spec`: the processor executes the call in progress (weak fairness of
  `main`) and the port sends what it was given (weak fairness of `drain`). On a
  machine without COM1 the status register reads as free and the wait ends at once.
- `MemoryMap!Spec`: the processor executes the walks.
- `Pmm`, `Vmm`, `Process` and `Kernel` need none: their properties are safety.

## 4. Theorems

All proofs are checked by TLAPS. `Folding` holds what the others
cite: a set of numbers that is not empty has a least member, what the steps of a loop
and the elements of a sequence preserve, and what `FoldLeft` returns. Inductions over
data go by the least counterexample, since an induction theorem takes an operator.

### `PmmProofs`: the page allocator

For every number of frames, page size, kernel end and set of memory maps that
`PmmAssumption` admits.

- `Invariance`: `Spec => []PmmInv`. The properties of the runs are not inductive
  by themselves. The counter stays right only because `pmm_free_page` never
  touches a clear bit; the search finds a page whenever the counter is positive
  only because the hint is below every free frame; and that needs every free
  frame to lie at or above `kernel_end_frame`. `PmmInv` is the conjunction, with a
  case for the closed allocator.
- `TypeCorrect`, `CountIsExact`, `HintIsSafe`, `ClosedAtBoot`, `KernelIsReserved`
  follow from it; `FirstFit` is the action property `AllocFirstFit`.
- `Refinement`: `Spec => Implements`, step by step: every step of `Pmm` is a step
  of `PageAllocator` or a stutter under the mapping in `Pmm!Allocator`.
- `FramesAreConserved`, `OnlyRam`: the two properties of `OwnerSpec`, from
  `Invariance` and an invariant that relates `held` to the released frames.

### `VmmProofs`: the mapper

For every table size, kernel slot, memory, TLB size, set of requests and old
contents of frames that `VmmAssumption` admits.

- `VmmInvariance`: `Spec => []VmmInv`. The argument is a circle, which is why the
  parts have to be proved together. The kernel reaches its tables only through the
  recursive window; a store through it lands where it should because no cached
  translation of the window is stale (`WindowFresh`); none is, because the stores
  to the directory only ever fill an entry that was absent, and an absent entry is
  never cached; that each store to a table leaves every other walk alone needs
  every table to be a frame of its own, not free and not a boot table
  (`TablesOwned`); and tables stay owned because the stores land where they should
  and the allocator hands out only what is neither in use nor the kernel's
  (`AllocatorInv`, as much of the allocator's invariant as the mapper needs). `BootSlots` keeps the
  identity, kernel and recursive slots, `Progress` relates the position within
  `vmm_map_page` to what the tables hold there, and `StaleOnlyIfReused` needs the
  history variable `reused`.
- `VmmTypeCorrect`, `WindowNeverFaults`, `WindowIsFresh`, `TablesAreOwned`,
  `GetPhysIsExact`, `StaleOnlyByReuse` follow from it.
- `VmmRefinement`: `Spec => Implements`. The abstract call takes effect at the
  last store, or at the early return for lack of a table; linking and clearing a
  table change no cell, because the cells under a table that is not yet clear
  count as unmapped in the mapping.

### `InterruptsProofs`: the interrupt path and the timer

For every word size, every set of devices and of exceptions, every mask the
firmware leaves and every depth of nesting.

- `InterruptsInvariance`: `Spec => []IInv`. No property of the run is inductive.
  That the interrupted code finds its registers (`ContextKept`) needs to know what
  is on the stack at every place of a handler (`StackInv`); that a handler is
  never interrupted by another one needs to know where IF is set (`FlagInv`); that
  a tick is counted once needs to know which of the frames still has to count it
  (`CountInv`) and that there is at most one, the first (`FramesInv`); that no line
  stays blocked needs to know which frame has yet to send its EOI (`ServiceInv`);
  and that interrupts open only when everything is in place needs the state of
  both chips and the timer after every single one of the port writes
  (`BootInv`). `IInv` is the conjunction of these with the types.
- `InterruptsTypes`, `OpenOnlyConfigured`, `OneWriter`, `StubsOfTheirOwn`,
  `FramesReadRight`, `NoLineBlocked`, `TicksCountedOnce`, `NothingLost` and `TicksAreTrue`
  are the invariants of the run, `NothingAfterException` its action property. The last
  of the invariants follows from `ReaderInv`: until the loop is late, the counter is
  at most `BootTicks + round + 1`, which `Rounds` and `InterruptsAssumption` keep below
  a word (`OneWord`), so that the high word is 0 at both loads (`JoinedFits`).

### `ProcessProofs`: threads and the ready queue

For every memory, every memory map, every reach of the identity map and every
client of the allocator that frees only held pages no thread owns. The allocator is the one
of `PmmProofs`, whose lemmas are instantiated, so `Conservation` holds here, too.

- `ProcessInvariance`: `Spec => []ProcessInv`. `ProcessInv` says that there is a sequence
  of frames which head, links and tail name one after the other (`Linked`), with
  growing pids (`PidsGrow`), whose pages are held and apart (`Apart`), and that every
  pid spent belongs to one of them, to a lost PCB or to the one in the making
  (`Accounted`). Pages must be apart for the list to survive the next creation: the
  new PCB is written to a page nobody else has.
- `QueueIsList`, a lemma: following the links from the head, as `Process!Walk` does,
  yields exactly that sequence. `Walk` is a recursive function; that it exists and
  is the one the sequence describes is shown by the least place where the two
  differ (`LeastExists`).
- `ThreadPagesApart`, `NoPidTwice`: the two invariants of the run, for any number
  of frames. `ProcessRefinement`: `Spec => Implements`; only the successful second half
  of `process_create` is seen, as one `Enqueue`.


### `ConsoleProofs`: the screen and the serial port

For a screen of any size (two rows at least), any tab stop, any texts, panics and
cursor positions, and any message of the exception handlers made of glyphs and
newlines, which is what they print (`interrupt.c:92-115`, `mmu.c:264-288`).

- `ConsoleInvariance`: `Spec => []ConsoleInv`. Between the test of the right edge and the
  store the column is on the screen, and at the store the row is, too (`Placed`); what
  is still to be printed is the rest of everything asked for, and COM1 has sent the
  part before it, with the current character once `serial_putc` is behind it
  (`SentAt`). The divisor's latch is closed throughout, or a character would go to
  the divisor.
- `BackspaceOnly`, `Mirrored`: `OnlyBackspaceSpills` and `SerialMirrors`. `MessageFits`, a
  lemma, says that no message stores beyond the screen, wherever the exception left
  the cursor, on the row below the last included.
- `FaultsShow`: `MessageOnALine /\ Spec => []FaultShown`. The hypothesis says what
  `interrupt.c:95-113` prints: glyphs without a newline between, over at most the rows of the screen
  but one, and a newline at the end (`MCConsole`'s message satisfies it). The message of `mmu.c:264-288` has several lines, for which
  the property is not stated. After `i` glyphs of the message the screen holds them from
  the cell the first one was stored at, and a cursor at the right edge or below the
  last row, which only an exception inside `vga_putc` leaves behind, is brought back before that
  first store: the scroll the message begins with moves nothing of the message itself.
- `TextIsKept`: `TextKept`, for a text of any length. `Told` says how the rows of the
  screen follow from the lines of the text: `k` of them have been scrolled away, an
  increasing function `f` tells which of the others each row shows (`Thins`), and a line
  no row shows is blank. That much survives a newline, a glyph and a scroll
  (`LineStarted`, `GlyphAdded`, `RowsScrolled`); with the cursor below the screen the newlines
  behind it are told but not shown, which is why one scroll can do for several of them.
  `Stage` says at every statement of `vga_putc` how far the screen is from showing the
  next character's lines, and `LinesKept` that `Told` implies what `TextKept` claims, which
  compares the two sequences with their blank members left out.
- `serial_init`, `vga_puts` and the lines of a text are folds. `Folding` shows for any operator that `FoldLeft`
  is the last of a row of intermediate results (`FoldTrace`), and that folding one element
  more is one step more (`FoldAppend`); it is instantiated for `UartWritten`, `CopyRow`,
  `vga_putc`, `Extended`, `Visible` and `Filled`.

### `KernelProofs`: the boot on one memory

For every memory, memory map, size of the tables, reach of the identity map, TLB and
content of fresh frames, and every test page outside the identity map, the kernel's
slot and the recursive slot.

`Vmm` and `Process` are proved with clients of the allocator that may do anything
short of freeing what is not theirs. `KernelProofs` shows that `kernel_main` is such a
client of both, on one allocator: the first lemmas (`VmmDischarged`, `ProcessDischarged`,
`SameMap`, `SameProcess`, ...) discharge the assumptions of the modules below and
identify their operators, and the steps of `kernel_main` are then steps of the lemmas of
`VmmProofs` and `ProcessProofs`.

- `KernelInvariance`: `Spec => []KernelInv`. `Beginning` says that until `vmm_init` maps its
  page there is no table and no thread, and which pages the allocation test has;
  `Ownership` that from then on the pages in use are the test page, its table and the
  threads' pages, pairwise apart; `Running` where `vmm_map_page` may stand; `Memory`
  that `VmmInv` and the identity map hold, and that the page the test finds mapped is
  the test page. `Memory` has a second case, because the write through a stale
  translation may land anywhere: only after it, and only if the table of the test
  page came with an entry for it. TLC checked `KernelInv` on the instance of `kernel`
  before it was proved.
- `EveryPageOwned` (`AllOwned`): the disjointness that `Ownership` states turned into
  cardinalities. `IdentityIsKept` (`IdentityKept`): the walks of the identity map do not change,
  by `VmmProofs!LinkStep`, `SetStep` and `DataWrite`, and a cached translation of them is
  never stale, by `StaleOnlyIfReused`. `TestWriteIsRight` (`TestWriteLands`) and
  `SegmentsAreUsable` (`SegmentsUsable`) follow.
- `BootEndsAsItMust` (`BootOutcome`): under `KernelInv`, `Outcome` is inductive. It counts the pages
  asked for so far (`Asked`) and says that the pages in use are the first so many there
  are (`TookPages`), which is `PmmProofs!AllocNext`: an allocator that nobody frees out of
  order hands out the lowest page. `BootPage` is thereby the page an
  allocation returns (`NextPage`), and `ProcessProofs!CreationGrows` gives the pid of each
  thread from the pids spent. That the write to the test page faults with a single page
  needs `StaleOnlyIfReused`: no entry was replaced, so the TLB cannot hold a translation
  that hides the fault. TLC checked `Outcome` before it was proved.

### `MemoryMapProofs`: the numbers on the screen and the two walks

For every word size, every information of any number of tags and entries that
`MemoryMapAssumption` admits, and any fields other callers of `kprintf` print.

- What is on the screen reads back. `itoa` makes the digits from the lowest up, so that
  its result reads back as its argument is an induction on the argument, by the least
  number for which it fails (`DigitsRead`); adding a digit behind multiplies the number by the
  base (`MagnitudeMore`), padding adds nothing (`PaddingIsNothing`), and the digits of two words
  joined weigh `Word` times the first (`MagnitudeJoined`). From these, `FieldReads` says
  that every field is `Faithful`, with the exceptions that `FieldsExact` names, and
  `HalvesRead` that a high word without padding and a low word of `WordDigits` zero-padded
  digits are the number of 64 bits. `LinesAreExact` and `RegionLine` state both for
  whole lines.
- The walks. Offsets of the tags grow strictly, so that a tag is found at the offset the
  loop has reached and both `NextTag` and `PmmNextTag` reach the next one (`TagIs`); the same
  for `Stride` and `PmmNextEntry`, the entries of the memory map and their number (`EntryIs`).
- `MemoryMapInvariance`: `Spec => []MemoryMapInv`. `WalkInv` says which tags lie behind each
  walk: the one to the end has found a map if there is one behind it (`MapFoundBefore`), the one
  to the first match is past none (`NoMapBefore`); both therefore find the same tag, because
  there is at most one (`OneMap`). Within its entries, as many lines are printed, or
  regions read, as `i` says, and they are told of the entries in order (`Behind`). TLC checked
  `WalkInv` on the instance of `memory` before it was proved.
- `FieldsReadBack`, `RegionsTrue`, `SameMapForPmm`: the three invariants of the run.
### Only model-checked

Liveness: `TicksGoOn`, `CallsReturn` and `WalkEnds` need fairness and `ENABLED`, which are out
of the prover's reach. Every invariant and every action property of the passing runs is a
theorem, and so are the refinements.

## 5. Not modelled

- Names of threads, `%s`, `%c` and the literal text around a field; the layout of
  the banners. That `str_copy` does not look at `PROC_NAME_LEN` (`process.c:64`) is
  therefore not seen; both callers pass six characters.
- The memory the Multiboot2 information lies in: `pmm_init` may release it
  (`pmm.c:12` says it does not). At this commit nothing is allocated before the
  map has been read.
- The instructions from `_start` to `kernel_main`: straight-line code with interrupts
  off, whose outcome is the initial state of `Vmm` and `Kernel`.
- GDTR and IDTR as variables; `%p` ignores its width and is modelled so, but no
  property asks for the width.
- What the handlers print on the way to the hang, other than as one message.
- Third-party constants of `multiboot2.h` beyond the tags that are read; build
  files, linker script, boot menu.
- Hardware beyond what the code uses: 4 MiB pages, global pages, access rights to
  read-only pages, specific EOI, other PIT modes, the UART's FIFO.

Seen while modelling, without a run of its own:

- `%u` prints values of 2^31 and more as negative (`vga.c:313`), so lengths and
  upper memory of 2 GiB and more; lengths of 4 GiB and more are cut to a word
  (`memory.c:94`); zero padding comes before the sign. `FieldsExact` and
  `RegionsExact` state the range in which the output is right.
- With exactly one free page `vmm_init` writes to a page it could not map
  (`mmu.c:242`), a page fault; `BootOutcome` states it.
- With a dirty page table the test write may land in another frame.
- A direct `vga_scroll_up` leaves the hardware cursor where it was; two tabs past
  the right edge and a backspace erase a cell of the next line.
- `README.md:78` says that all IRQs are masked, while `pic_init` opens IRQ0
  (`interrupt.c:54`); `TicksGoOn` holds because it does.

## 6. Plan

Done, in this order: `Pmm` with its proofs, `Vmm`, `Interrupts`, `Process`,
`Gdt` and `Kernel`, `Screen` and `Console`, `Format` and `MemoryMap`, `VmmProofs`, `InterruptsProofs`, `ProcessProofs`, `ConsoleProofs`, `KernelProofs`, `MemoryMapProofs`.

Left:

1. `MemoryMap`: information whose tags are damaged, that is, without the assumption that sizes
   and the end tag are as the boot loader writes them; the code does not check them.
2. The names of threads, with the bound `str_copy` does not look at.
