------------------------------ MODULE Interrupts ------------------------------
(***************************************************************************)
(* The interrupt path: kernel/interrupt.c, kernel/isr.S, kernel/idt.c and  *)
(* kernel/pit.c, with the main line of kernel/kernel.c that it interrupts. *)
(*                                                                         *)
(* Four actors interleave: kernel_main (boot, then the loop that reads the *)
(* tick counter), the handlers that run on its stack, the devices behind   *)
(* two 8259 chips, and the processor, which delivers a request between any *)
(* two steps when IF is set and may raise an exception or an NMI.  The     *)
(* handlers form a stack of frames; nothing here forbids nesting.          *)
(*                                                                         *)
(* The kernel stack is a sequence of words, the top last.  A word is a     *)
(* pair: what it is, and a number.  The content of each register of the    *)
(* interrupted code is a symbol of its own.                                *)
(***************************************************************************)
EXTENDS Integers, Sequences, FiniteSets, Pic

CONSTANTS
  WordSize,    \* 2^32: system_ticks is two words, read one at a time
  Devices,     \* the IRQs whose devices raise their line
  Faults,      \* the exceptions the kernel may take, NMI included
  BiosMask1, BiosMask2,    \* the masks the firmware leaves in the two chips
  Rounds,      \* 30000000, the rounds of kernel_main's loop
  BootTicks,   \* bound on the ticks before that loop
  MaxDepth     \* bound on the handlers nested on the stack

Vector == 0 .. 255                     \* IDT_ENTRIES
IRQ0  == 32
IRQ7  == 39
IRQ8  == 40
IRQ15 == 47
Cascade == 2

ASSUME InterruptsAssumption ==
  /\ WordSize \in Nat \ {0, 1}
  /\ 0 \in Devices /\ Devices \subseteq 0 .. 15 \ {Cascade}
  /\ Faults \subseteq 0 .. 31
  /\ BiosMask1 \in Byte /\ BiosMask2 \in Byte
  /\ Rounds \in Nat \ {0} /\ BootTicks \in Nat /\ BootTicks + Rounds < WordSize
  /\ MaxDepth \in Nat \ {0}

VARIABLES
  IF_,            \* the interrupt flag of the processor
  idt,            \* the gates; <<>> until idt_init has loaded the table
  master, slave,  \* the two chips
  pit,            \* channel 0 of the timer chip
  pc,             \* where kernel_main stands
  out,            \* how many of the port writes of pic_init and pit_init are done
  saved,          \* the locals a1 and b1 of pic_init
  stack,          \* what the handlers in progress have pushed
  regs,           \* the registers the handlers save
  frames,         \* the handlers in progress, the running one last
  system_ticks,
  half,           \* the half of system_ticks a read in progress has loaded
  last_tick,      \* the value the loop of kernel_main showed last
  round,          \* i, the rounds of that loop behind it
  late,           \* history: the loop has met more ticks than rounds
  acked           \* history: timer interrupts delivered, modulo the counter's range

boot   == <<pc, out, saved>>
cpu    == <<stack, regs, frames>>
chips  == <<master, slave>>
reader == <<half, last_tick, round, late>>
vars   == <<IF_, idt, chips, pit, boot, cpu, system_ticks, reader, acked>>

Word(what, n) == <<what, n>>
Tick == 0 .. WordSize * WordSize - 1
Next1(t) == (t + 1) % (WordSize * WordSize)

Top == frames[Len(frames)]
MainRuns == frames = <<>>
At(step) == frames # <<>> /\ Top.at = step
Goto(step) == frames' = [frames EXCEPT ![Len(frames)].at = step]
------------------------------------------------------------------------------
(***************************************************************************)
(* idt.c and interrupt_init: gates.  stub is the vector whose entry code   *)
(* the gate points at, NoStub a base of 0.                                 *)
(***************************************************************************)
NoStub == 256
Gate(stub, flags) == [stub |-> stub, flags |-> flags]

\* 0x8E and 0xEE are interrupt gates: the processor clears IF on the way in.
ClearsIF(gate) == gate.flags % 16 = 14

ClearedTable == [v \in Vector |-> Gate(NoStub, 142)]

\* Mutant: the gates are trap gates.
IrqFlags_trap == 143
IrqFlags == 142
Registered == 0 .. IRQ15

FullTable ==
  [v \in Vector |-> IF v \in Registered THEN Gate(v, IrqFlags)
                    ELSE IF v = 128 THEN Gate(v, 238) ELSE ClearedTable[v]]

(***************************************************************************)
(* pic_init and pit_init(100): the bytes they write, in order.             *)
(***************************************************************************)
To(port, value) == [port |-> port, value |-> value]
Divisor == 1193182 \div 100

PitWrites ==
  <<To("PIT_COMMAND", 54), To("PIT_CHANNEL0", Divisor % 256),
    To("PIT_CHANNEL0", (Divisor \div 256) % 256)>>

\* Mutants: the vector offset of the master is not written; the firmware's
\* masks are restored last.
Offsets_slave == <<To("PIC2_DATA", IRQ8)>>
Offsets == <<To("PIC1_DATA", IRQ0), To("PIC2_DATA", IRQ8)>>

Closed == <<To("PIC1_DATA", 254), To("PIC2_DATA", 255)>>
Masks_restored == Closed \o <<To("PIC1_DATA", saved.a1), To("PIC2_DATA", saved.b1)>>
Masks == <<To("PIC1_DATA", saved.a1), To("PIC2_DATA", saved.b1)>> \o Closed

Writes ==
  <<To("PIC1_COMMAND", 17), To("PIC2_COMMAND", 17)>>     \* ICW1
    \o Offsets                                           \* ICW2
    \o <<To("PIC1_DATA", 4), To("PIC2_DATA", 2),         \* ICW3
         To("PIC1_DATA", 1), To("PIC2_DATA", 1)>>        \* ICW4
    \o Masks \o PitWrites

\* A chip sees the write when the port is one of its own.
Written(chip, w, command, data) ==
  CASE w.port = command -> Command(chip, w.value)
    [] w.port = data    -> Data(chip, w.value)
    [] OTHER            -> chip

\* Channel 0 takes its divisor low byte first, after a command.
PitWritten(w) ==
  CASE w.port = "PIT_COMMAND" -> [pit EXCEPT !.next = "low"]
    [] w.port = "PIT_CHANNEL0" /\ pit.next = "low" ->
         [pit EXCEPT !.next = "high", !.low = w.value]
    [] w.port = "PIT_CHANNEL0" /\ pit.next = "high" ->
         [pit EXCEPT !.next = "low", !.divisor = pit.low + 256 * w.value]
    [] OTHER -> pit

\* interrupt_init: the table, the gates, the chips, the timer, then sti.
idt_init ==
  /\ MainRuns /\ pc = "idt_init"
  /\ idt' = ClearedTable
  /\ pc' = "register"
  /\ UNCHANGED <<IF_, chips, pit, out, saved, cpu, system_ticks, reader, acked>>

register_interrupt_handlers ==
  /\ MainRuns /\ pc = "register"
  /\ idt' = FullTable
  /\ pc' = "save_masks"
  /\ UNCHANGED <<IF_, chips, pit, out, saved, cpu, system_ticks, reader, acked>>

save_masks ==
  /\ MainRuns /\ pc = "save_masks"
  /\ saved' = [a1 |-> master.imr, b1 |-> slave.imr]
  /\ pc' = "outb"
  /\ UNCHANGED <<IF_, idt, chips, pit, out, cpu, system_ticks, reader, acked>>

outb ==
  /\ MainRuns /\ pc = "outb"
  /\ LET w == Writes[out + 1]
     IN  /\ master' = Written(master, w, "PIC1_COMMAND", "PIC1_DATA")
         /\ slave' = Written(slave, w, "PIC2_COMMAND", "PIC2_DATA")
         /\ pit' = PitWritten(w)
  /\ out' = out + 1
  /\ pc' = IF out + 1 = Len(Writes) THEN "sti" ELSE "outb"
  /\ UNCHANGED <<IF_, idt, saved, cpu, system_ticks, reader, acked>>

sti ==
  /\ MainRuns /\ pc = "sti"
  /\ IF_' = TRUE
  /\ pc' = "read"
  /\ UNCHANGED <<idt, chips, pit, out, saved, cpu, system_ticks, reader, acked>>
------------------------------------------------------------------------------
(***************************************************************************)
(* timer_get_ticks in the loop of kernel_main: a 64-bit load is two 32-bit *)
(* loads, in whichever order the compiler puts them.  After its last round *)
(* kernel_main halts for good.                                             *)
(***************************************************************************)
Halves == {"low", "high"}
HalfOf(which, t) == IF which = "low" THEN t % WordSize ELSE t \div WordSize

NoHalf == [which |-> "low", value |-> 0]

read_first(which) ==
  /\ MainRuns /\ pc = "read"
  /\ half' = [which |-> which, value |-> HalfOf(which, system_ticks)]
  /\ pc' = "read_second"
  /\ UNCHANGED <<IF_, idt, chips, pit, out, saved, cpu, system_ticks,
                 last_tick, round, late, acked>>

\* The value the read returns when it loads its second half now.
Joined ==
  IF half.which = "low"
  THEN half.value + WordSize * HalfOf("high", system_ticks)
  ELSE HalfOf("low", system_ticks) + WordSize * half.value

\* Whether another round follows; the mutant watches the ticks for ever.
Again_forever == TRUE
Again == round + 1 < Rounds

\* A value other than last_tick is printed; the variables end with their block.
read_second ==
  /\ MainRuns /\ pc = "read_second"
  /\ half' = NoHalf
  /\ \/ /\ Again
        /\ pc' = "read" /\ last_tick' = Joined /\ round' = round + 1 /\ late' = late
     \/ /\ ~Again
        /\ pc' = "hlt" /\ last_tick' = 0 /\ round' = 0 /\ late' = FALSE
  /\ UNCHANGED <<IF_, idt, chips, pit, out, saved, cpu, system_ticks, acked>>
------------------------------------------------------------------------------
(***************************************************************************)
(* Devices and delivery.  A request may be withdrawn while the processor   *)
(* acknowledges it; the chip then answers with its line 7 and has nothing  *)
(* in service: a spurious interrupt.                                       *)
(***************************************************************************)
raise(irq) ==
  /\ \/ irq < 8 /\ irq \notin master.irr
        /\ master' = [master EXCEPT !.irr = @ \cup {irq}] /\ slave' = slave
     \/ irq >= 8 /\ irq - 8 \notin slave.irr
        /\ slave' = [slave EXCEPT !.irr = @ \cup {irq - 8}] /\ master' = master
  /\ UNCHANGED <<IF_, idt, pit, boot, cpu, system_ticks, reader, acked>>

\* The slave asks through line 2 of the master.
Pending ==
  Requests([master EXCEPT !.irr = IF Requests(slave) = {} THEN @ ELSE @ \cup {Cascade}])

CpuError == {8, 10, 11, 12, 13, 14, 17}    \* the exceptions that push an error code

\* The processor pushes its words and takes the gate; a gate without a stub
\* sends it to address 0.
Enter(v, cause, irq) ==
  /\ Len(frames) < MaxDepth
  /\ stack' = stack \o <<Word("eflags", IF IF_ THEN 1 ELSE 0), Word("cs", 0), Word("eip", 0)>>
                    \o (IF cause = "fault" /\ v \in CpuError
                        THEN <<Word("error", 1)>> ELSE <<>>)
  /\ IF_' = (IF_ /\ ~ClearsIF(idt[v]))
  /\ frames' = Append(frames, [at     |-> IF idt[v].stub = NoStub THEN "wild" ELSE "entry",
                               stub   |-> idt[v].stub, vector |-> v,
                               cause  |-> cause, irq |-> irq])
  /\ UNCHANGED <<idt, pit, boot, regs, system_ticks, reader>>

Requester ==
  IF Highest(Pending) = Cascade THEN 8 + Highest(Requests(slave)) ELSE Highest(Pending)
VectorOf(irq) == IF irq < 8 THEN master.base + irq ELSE slave.base + irq - 8

deliver ==
  /\ IF_ /\ Pending # {}
  /\ master' = Ack(master, Highest(Pending))
  /\ slave' = IF Requester < 8 THEN slave ELSE Ack(slave, Requester - 8)
  /\ acked' = IF Requester = 0 THEN Next1(acked) ELSE acked
  /\ Enter(VectorOf(Requester), "irq", Requester)

deliver_spurious ==
  /\ IF_ /\ Pending \ {Cascade} # {}
  /\ master' = [master EXCEPT !.irr = @ \ {Highest(Pending \ {Cascade})}]
  /\ Enter(VectorOf(7), "spurious", 7)
  /\ UNCHANGED <<slave, acked>>

\* An exception of the running code, or an NMI, from the moment the gates are
\* there.  After one the kernel hangs, and a second one hangs it again.
Hung == At("halt")

fault(v) ==
  /\ pc \notin {"idt_init", "register"} /\ ~Hung
  /\ Enter(v, "fault", 0)
  /\ UNCHANGED <<chips, acked>>
------------------------------------------------------------------------------
(***************************************************************************)
(* isr.S: the stub of the vector, SAVE_ALL, interrupt_handler, RESTORE_ALL.*)
(***************************************************************************)
\* The stubs of EXC_ERR_MACRO push no error code of their own; the mutant
\* gives the page fault the other macro.
ErrorCodeStubs_14 == {8, 10, 11, 12, 13, 17}
ErrorCodeStubs == {8, 10, 11, 12, 13, 14, 17}

SaveOrder ==                                    \* pusha, then the segments
  <<"eax", "ecx", "edx", "ebx", "esp", "ebp", "esi", "edi", "ds", "es", "fs", "gs">>
Reg == {SaveOrder[i] : i \in DOMAIN SaveOrder}
Mine == [r \in Reg |-> Word(r, 0)]              \* the registers of kernel_main

\* The fields of struct pt_regs; the first is below the top, its address.
PtRegs ==
  <<"gs", "fs", "es", "ds", "edi", "esi", "ebp", "esp", "ebx", "edx", "ecx", "eax",
    "int_no", "err_code", "eip", "cs", "eflags">>

\* The order in which RESTORE_ALL pops; the mutant forgets that gs is on top.
PopOrder_ds ==
  <<"ds", "es", "fs", "gs", "edi", "esi", "ebp", "esp", "ebx", "edx", "ecx", "eax">>
PopOrder ==
  <<"gs", "fs", "es", "ds", "edi", "esi", "ebp", "esp", "ebx", "edx", "ecx", "eax">>

Place(names, name) == CHOOSE i \in DOMAIN names : names[i] = name
Field(name) == stack[Len(stack) - Place(PtRegs, name)]
int_no == Field("int_no")[2]

save_all ==
  /\ At("entry")
  /\ stack' = stack \o (IF Top.stub \in ErrorCodeStubs THEN <<>> ELSE <<Word("error", 0)>>)
                    \o <<Word("vector", Top.stub)>>
                    \o [i \in DOMAIN SaveOrder |-> regs[SaveOrder[i]]]
                    \o <<Word("esp", 0)>>
  /\ Goto("cli")
  /\ UNCHANGED <<IF_, idt, chips, pit, boot, regs, system_ticks, reader, acked>>

cli ==
  /\ At("cli")
  /\ IF_' = FALSE
  /\ Goto("dispatch")
  /\ UNCHANGED <<idt, chips, pit, boot, stack, regs, system_ticks, reader, acked>>

\* What interrupt_handler does with a vector.  No handler is ever registered in
\* interrupt_handlers, and both exception paths end in a loop around hlt.
\* Mutants: exceptions return; no EOI is sent.
Branch_return(v) ==
  CASE v < 32                -> "restore"
    [] v \in IRQ0 .. IRQ15   -> "eoi"
    [] OTHER                 -> "restore"
Branch_noEoi(v) ==
  CASE v < 32                -> "halt"
    [] v \in IRQ0 .. IRQ15   -> "tick"
    [] OTHER                 -> "restore"

Branch(v) ==
  CASE v < 32                -> "halt"
    [] v \in IRQ0 .. IRQ15   -> "eoi"
    [] OTHER                 -> "restore"

\* A C function may change eax, ecx and edx.
interrupt_handler ==
  /\ At("dispatch")
  /\ Goto(Branch(int_no))
  /\ regs' = [r \in Reg |-> IF r \in {"eax", "ecx", "edx"} THEN Word("handler", 0) ELSE regs[r]]
  /\ UNCHANGED <<IF_, idt, chips, pit, boot, stack, system_ticks, reader, acked>>

\* To both chips when the interrupt is one of the slave's.  The slave's part is
\* idle as long as its mask is 0xff.
pic_send_eoi ==
  /\ At("eoi")
  /\ slave' = IF int_no < IRQ8 THEN slave ELSE Command(slave, 32)
  /\ master' = Command(master, 32)
  /\ Goto("tick")
  /\ UNCHANGED <<IF_, idt, pit, boot, stack, regs, system_ticks, reader, acked>>

\* timer_handler, for the timer's vector; the mutant counts every interrupt.
Counted_all(v) == Next1(system_ticks)
Counted(v) == IF v = IRQ0 THEN Next1(system_ticks) ELSE system_ticks

timer_handler ==
  /\ At("tick")
  /\ system_ticks' = Counted(int_no)
  /\ late' = (late \/ /\ pc \in {"read", "read_second"}
                      /\ system_ticks' > BootTicks + round + 1)
  /\ Goto("restore")
  /\ UNCHANGED <<IF_, idt, chips, pit, boot, stack, regs, half, last_tick, round, acked>>

\* RESTORE_ALL: the sti takes effect after the iret behind it, which loads the
\* interrupted code's flags; esp is not popped.
restore_all ==
  /\ At("restore")
  /\ regs' = [r \in Reg |-> IF r = "esp" THEN regs[r]
                            ELSE stack[Len(stack) - Place(PopOrder, r)]]
  /\ IF_' = (Field("eflags")[2] = 1)
  /\ stack' = SubSeq(stack, 1, Len(stack) - Len(PtRegs) - 1)
  /\ frames' = SubSeq(frames, 1, Len(frames) - 1)
  /\ UNCHANGED <<idt, chips, pit, boot, system_ticks, reader, acked>>
------------------------------------------------------------------------------
Init ==
  /\ IF_ = FALSE /\ idt = <<>>
  /\ master = [base |-> 8, imr |-> BiosMask1, irr |-> {}, isr |-> {}, icw |-> 0]
  /\ slave = [base |-> 112, imr |-> BiosMask2, irr |-> {}, isr |-> {}, icw |-> 0]
  /\ pit = [next |-> "low", low |-> 0, divisor |-> 65536]
  /\ pc = "idt_init" /\ out = 0 /\ saved = [a1 |-> 0, b1 |-> 0]
  /\ stack = <<>> /\ regs = Mine /\ frames = <<>>
  /\ system_ticks = 0
  /\ half = NoHalf /\ last_tick = 0 /\ round = 0 /\ late = FALSE
  /\ acked = 0

interrupt_init == idt_init \/ register_interrupt_handlers \/ save_masks \/ outb \/ sti
timer_loop == (\E which \in Halves : read_first(which)) \/ read_second
kernel_main == interrupt_init \/ timer_loop
handler ==
  \/ save_all \/ cli \/ interrupt_handler
  \/ pic_send_eoi \/ timer_handler \/ restore_all

Next ==
  \/ kernel_main
  \/ handler
  \/ \E irq \in Devices : raise(irq)
  \/ deliver \/ deliver_spurious
  \/ \E v \in Faults : fault(v)

Spec == Init /\ [][Next]_vars

\* The processor executes; the timer ticks.  A request is not withdrawn at the
\* very moment of its acknowledgement for ever: the timer holds its line for
\* half a period, 5 ms.
FairSpec ==
  /\ Spec
  /\ WF_vars(kernel_main) /\ WF_vars(handler)
  /\ WF_vars(raise(0))
  /\ SF_vars(deliver)
------------------------------------------------------------------------------
Step == {"wild", "entry", "cli", "dispatch", "halt", "eoi", "tick", "restore"}
WordType ==
  ({"eflags", "error"} \X {0, 1}) \cup ({"vector"} \X Vector)
    \cup ((Reg \cup {"cs", "eip", "handler"}) \X {0})

Stub      == 0 .. NoStub
GateType  == [stub : Stub, flags : Byte]
Count     == 1 .. 65536
Timer     == [next : Halves, low : Byte, divisor : Count]
OldMasks  == [a1 : Byte, b1 : Byte]
Cause     == {"irq", "spurious", "fault"}
Irq       == 0 .. 15
FrameType == [at : Step, stub : Stub, vector : Vector, cause : Cause, irq : Irq]
HalfTick  == 0 .. WordSize - 1
Loaded    == [which : Halves, value : HalfTick]

\* Every variable keeps its type; the counter and both chips stay in range.
TypeOK ==
  /\ IF_ \in BOOLEAN
  /\ idt = <<>> \/ idt \in [Vector -> GateType]
  /\ master \in Chip /\ slave \in Chip /\ pit \in Timer
  /\ pc \in {"idt_init", "register", "save_masks", "outb", "sti",
             "read", "read_second", "hlt"}
  /\ out \in 0 .. Len(Writes) /\ saved \in OldMasks
  /\ stack \in Seq(WordType) /\ regs \in [Reg -> WordType]
  /\ frames \in Seq(FrameType)
  /\ {system_ticks, last_tick, acked} \subseteq Tick
  /\ half \in Loaded /\ round \in 0 .. Rounds - 1 /\ late \in BOOLEAN

\* Interrupts are open only once everything is in place: a gate with its own
\* stub for every exception and IRQ, both chips out of their initialisation at
\* vectors no exception uses, the timer at 100 Hz, and no line open but the
\* timer's, whatever masks the firmware left (interrupt.c:54, 131-138).
Configured ==
  IF_ => /\ \A v \in 0 .. IRQ15 : idt[v] = Gate(v, 142)
         /\ master.icw = 0 /\ slave.icw = 0
         /\ master.base = IRQ0 /\ slave.base = IRQ8
         /\ pit.divisor = Divisor
         /\ Bits(master.imr) = Line \ {0} /\ Bits(slave.imr) = Line

\* A handler is interrupted by nothing but an exception, so the tick counter
\* and the controllers have one writer at a time (isr.S:22).
NoNesting ==
  /\ IF_ => MainRuns
  /\ \A i \in 2 .. Len(frames) : frames[i].cause = "fault"

\* A request reaches the stub of its own line, never an empty gate and never
\* the stub of an exception (interrupt.c:26-27).
Routed ==
  \A i \in DOMAIN frames :
    /\ frames[i].at # "wild"
    /\ frames[i].cause = "irq" => frames[i].stub = IRQ0 + frames[i].irq
    /\ frames[i].cause = "spurious" => frames[i].stub = IRQ7
    /\ frames[i].cause = "fault" => frames[i].stub = frames[i].vector

\* interrupt_handler finds vector and error code where struct pt_regs says,
\* for exceptions with and without a code (interrupt.h:13-19).
FrameRight ==
  At("dispatch") =>
    /\ int_no = Top.vector
    /\ Field("err_code") =
         Word("error", IF Top.cause = "fault" /\ Top.vector \in CpuError THEN 1 ELSE 0)

\* Whenever the kernel's own code runs nothing is left in service, also after a
\* spurious interrupt: no line stays blocked (interrupt.c:117-123).
NothingLeftInService == MainRuns => master.isr = {} /\ slave.isr = {}

\* Every timer interrupt counts once, and nothing else counts: the counter is
\* the number of deliveries less the one still on its way (pit.c:20-23).
Uncounted ==
  {i \in DOMAIN frames : /\ frames[i].cause = "irq" /\ frames[i].irq = 0
                         /\ frames[i].at # "restore"}
TickExact == acked = (system_ticks + Cardinality(Uncounted)) % (WordSize * WordSize)

\* The interrupted code gets its registers and its stack back (isr.S:15-35).
ContextKept == MainRuns => regs = Mine /\ stack = <<>>

\* The ticks the loop of kernel_main shows only grow, each is one the counter had
\* since the one before, and the cast to 32 bits loses nothing: no read is torn by a
\* carry between its two loads, because the loop ends long before the low word
\* wraps, as long as a round takes no longer than a tick (kernel.c:85-93, pit.c:26).
TicksAccumulate ==
  pc = "read_second" /\ MainRuns /\ ~late =>
    /\ last_tick <= Joined /\ Joined <= system_ticks
    /\ Joined < WordSize

\* After an exception the kernel does nothing more: no tick is counted, and
\* neither kernel_main nor the interrupted handler goes on (interrupt.c:114-115).
Faulted == \E i \in DOMAIN frames : frames[i].cause = "fault"
ExceptionIsFinal ==
  [][Faulted => /\ Faulted'
                /\ UNCHANGED <<IF_, pc, out, system_ticks>>]_vars

\* As long as no exception occurs the ticks go on for ever, past spurious
\* interrupts and past the end of kernel_main (README.md, the PIT).
TicksGoOn == []<><<TRUE>>_system_ticks \/ <>Faulted
==============================================================================
