--------------------------- MODULE InterruptsProofs ---------------------------
(***************************************************************************)
(* Proofs about Interrupts for every word size, every set of devices and   *)
(* exceptions, every firmware mask and every depth of nesting: what the    *)
(* interrupted code, the controllers and the tick counter rely on is an    *)
(* inductive invariant.                                                    *)
(***************************************************************************)
EXTENDS Interrupts, SequenceTheorems, FiniteSetTheorems, TLAPS

-----------------------------------------------------------------------------
(* The invariant.                                                          *)

Opened   == {"read", "read_second", "hlt"}           \* after sti
Unloaded == {"idt_init", "register"}                 \* before the gates are there

\* The chips and the timer after n of the writes: each word they expect comes
\* when they expect it.
MasterAt(n) ==
  /\ master.icw = IF n < 1 THEN 0 ELSE IF n < 3 THEN 2 ELSE IF n < 5 THEN 3
                  ELSE IF n < 7 THEN 4 ELSE 0
  /\ n >= 3 => master.base = IRQ0
  /\ n >= 11 => master.imr = 254
SlaveAt(n) ==
  /\ slave.icw = IF n < 2 THEN 0 ELSE IF n < 4 THEN 2 ELSE IF n < 6 THEN 3
                 ELSE IF n < 8 THEN 4 ELSE 0
  /\ n >= 4 => slave.base = IRQ8
  /\ n >= 12 => slave.imr = 255
PitAt(n) ==
  /\ n # 14 => pit.next = "low"
  /\ n = 14 => pit.next = "high" /\ pit.low = Divisor % 256
  /\ n = 15 => pit.divisor = Divisor

BootInv ==
  /\ pc \notin Unloaded => idt = FullTable
  /\ out = 0 \/ pc = "outb" \/ out = 15
  /\ pc = "outb" => out < 15
  /\ pc \in {"idt_init", "register", "save_masks"} => out = 0
  /\ pc \in {"sti"} \cup Opened => out = 15
  /\ MasterAt(out) /\ SlaveAt(out) /\ PitAt(out)

\* A frame names the stub of its own cause, and its handler is at a place that
\* this cause leads to.
RightFrame(f) ==
  \/ /\ f.cause = "irq" /\ f.irq = 0 /\ f.stub = IRQ0 /\ f.vector = IRQ0
     /\ f.at \in {"entry", "cli", "dispatch", "eoi", "tick", "restore"}
  \/ /\ f.cause = "spurious" /\ f.irq = 7 /\ f.stub = IRQ7 /\ f.vector = IRQ7
     /\ f.at \in {"entry", "cli", "dispatch", "eoi", "tick", "restore"}
  \/ /\ f.cause = "fault" /\ f.irq = 0 /\ f.stub = f.vector /\ f.vector < 32
     /\ f.at \in {"entry", "cli", "dispatch", "halt"}

FramesInv ==
  /\ \A i \in DOMAIN frames : RightFrame(frames[i])
  /\ \A i \in 2 .. Len(frames) : frames[i].cause = "fault"
  /\ frames # <<>> => pc \notin Unloaded
  /\ frames # <<>> /\ frames[1].cause # "fault" => pc \in Opened

\* Interrupts are open exactly while kernel_main runs behind its sti.
FlagInv == IF_ <=> (MainRuns /\ pc \in Opened)

\* In service is the line of the one handler that has not sent its EOI yet.
InService ==
  /\ frames # <<>> /\ frames[1].cause = "irq"
  /\ frames[1].at \in {"entry", "cli", "dispatch", "eoi"}
ServiceInv ==
  /\ master.isr = IF InService THEN {0} ELSE {}
  /\ slave.isr = {}

\* What an interrupt of kernel_main leaves on the stack: the processor's words,
\* and then those of the stub and of SAVE_ALL.
Interrupted == <<Word("eflags", 1), Word("cs", 0), Word("eip", 0)>>
Saved(stub) ==
  <<Word("eflags", 1), Word("cs", 0), Word("eip", 0), Word("error", 0), Word("vector", stub),
    Word("eax", 0), Word("ecx", 0), Word("edx", 0), Word("ebx", 0), Word("esp", 0),
    Word("ebp", 0), Word("esi", 0), Word("edi", 0),
    Word("ds", 0), Word("es", 0), Word("fs", 0), Word("gs", 0), Word("esp", 0)>>

\* The error code of a frame, and where struct pt_regs has it and the vector.
ErrorOf(f) == Word("error", IF f.cause = "fault" /\ f.vector \in CpuError THEN 1 ELSE 0)
Readable(f) ==
  /\ Len(stack) >= 15
  /\ stack[Len(stack) - 13] = Word("vector", f.stub)
  /\ stack[Len(stack) - 14] = ErrorOf(f)

StackInv ==
  /\ MainRuns => stack = <<>> /\ regs = Mine
  /\ frames # <<>> /\ Top.cause # "fault" =>
       /\ stack = IF Top.at = "entry" THEN Interrupted ELSE Saved(Top.stub)
       /\ Top.at \in {"entry", "cli", "dispatch"} => regs = Mine
       /\ regs["esp"] = Word("esp", 0)
  /\ frames # <<>> /\ Top.cause = "fault" =>
       /\ Top.at = "entry" /\ Top.vector \in CpuError =>
            Len(stack) > 0 /\ stack[Len(stack)] = Word("error", 1)
       /\ Top.at \in {"cli", "dispatch"} => Readable(Top)

\* The timer interrupt that is not counted yet can only be the first frame.
OnItsWay ==
  /\ frames # <<>> /\ frames[1].cause = "irq" /\ frames[1].at # "restore"
CountInv == acked = IF OnItsWay THEN Next1(system_ticks) ELSE system_ticks

\* While no more ticks than rounds have come, the counter fits in a word: its low
\* half is the counter and its high half is 0, whichever a read loads first.
ReaderInv ==
  pc # "hlt" /\ ~late =>
    /\ last_tick <= system_ticks /\ system_ticks <= BootTicks + round + 1
    /\ pc = "read_second" =>
         \/ half.which = "low" /\ last_tick <= half.value /\ half.value <= system_ticks
         \/ half.which = "high" /\ half.value = 0

\* TypeOK in the parts that change together.
TableType == idt = <<>> \/ idt \in [Vector -> GateType]
BootType  ==
  /\ TableType /\ pit \in Timer /\ saved \in OldMasks
  /\ pc \in {"idt_init", "register", "save_masks", "outb", "sti",
             "read", "read_second", "hlt"}
  /\ out \in 0 .. 15
ChipType  == master \in Chip /\ slave \in Chip
CpuType   ==
  /\ IF_ \in BOOLEAN
  /\ stack \in Seq(WordType) /\ regs \in [Reg -> WordType]
  /\ frames \in Seq(FrameType)
CountType ==
  /\ system_ticks \in Tick /\ last_tick \in Tick /\ acked \in Tick
  /\ half \in Loaded /\ round \in 0 .. Rounds - 1 /\ late \in BOOLEAN

IInv ==
  /\ BootType /\ ChipType /\ CpuType /\ CountType /\ BootInv /\ FramesInv /\ FlagInv
  /\ ServiceInv /\ StackInv /\ CountInv /\ ReaderInv

-----------------------------------------------------------------------------
(* What the constants and the tables of the code come to.                  *)

LEMMA Powers == /\ 2^0 = 1 /\ 2^1 = 2 /\ 2^2 = 4 /\ 2^3 = 8
                /\ 2^4 = 16 /\ 2^5 = 32 /\ 2^6 = 64 /\ 2^7 = 128
OBVIOUS

\* The masks pic_init ends with: everything closed but the timer.
LEMMA MaskBits == Bits(254) = Line \ {0} /\ Bits(255) = Line
<1>1. \A l \in Line : l \in {0, 1, 2, 3, 4, 5, 6, 7}
  BY DEF Line
<1>2. /\ 255 \div 1 = 255 /\ 255 \div 2 = 127 /\ 255 \div 4 = 63 /\ 255 \div 8 = 31
      /\ 255 \div 16 = 15 /\ 255 \div 32 = 7 /\ 255 \div 64 = 3 /\ 255 \div 128 = 1
      /\ 254 \div 1 = 254 /\ 254 \div 2 = 127 /\ 254 \div 4 = 63 /\ 254 \div 8 = 31
      /\ 254 \div 16 = 15 /\ 254 \div 32 = 7 /\ 254 \div 64 = 3 /\ 254 \div 128 = 1
  OBVIOUS
<1>3. /\ Bit(255, 0) /\ Bit(255, 1) /\ Bit(255, 2) /\ Bit(255, 3)
      /\ Bit(255, 4) /\ Bit(255, 5) /\ Bit(255, 6) /\ Bit(255, 7)
      /\ ~Bit(254, 0) /\ Bit(254, 1) /\ Bit(254, 2) /\ Bit(254, 3)
      /\ Bit(254, 4) /\ Bit(254, 5) /\ Bit(254, 6) /\ Bit(254, 7)
  BY <1>2, Powers DEF Bit
<1>4. QED BY <1>1, <1>3 DEF Bits

\* ICW1 is a command with bit 4, the EOI is not.
LEMMA CommandBits == Bit(17, 4) /\ ~Bit(32, 4)
BY Powers DEF Bit

LEMMA DivisorBytes ==
  /\ Divisor = 11931 /\ Divisor % 256 = 155 /\ (Divisor \div 256) % 256 = 46
  /\ 155 + 256 * 46 = Divisor
BY DEF Divisor

LEMMA WritesList ==
  /\ Len(Writes) = 15
  /\ Writes[1] = To("PIC1_COMMAND", 17) /\ Writes[2] = To("PIC2_COMMAND", 17)
  /\ Writes[3] = To("PIC1_DATA", IRQ0)  /\ Writes[4] = To("PIC2_DATA", IRQ8)
  /\ Writes[5] = To("PIC1_DATA", 4)     /\ Writes[6] = To("PIC2_DATA", 2)
  /\ Writes[7] = To("PIC1_DATA", 1)     /\ Writes[8] = To("PIC2_DATA", 1)
  /\ Writes[9] = To("PIC1_DATA", saved.a1) /\ Writes[10] = To("PIC2_DATA", saved.b1)
  /\ Writes[11] = To("PIC1_DATA", 254)  /\ Writes[12] = To("PIC2_DATA", 255)
  /\ Writes[13] = To("PIT_COMMAND", 54) /\ Writes[14] = To("PIT_CHANNEL0", 155)
  /\ Writes[15] = To("PIT_CHANNEL0", 46)
BY DivisorBytes DEF Writes, Offsets, Masks, Closed, PitWrites

\* Where struct pt_regs and RESTORE_ALL find the words of the stack.
LEMMA Places ==
  /\ Place(PtRegs, "int_no") = 13 /\ Place(PtRegs, "err_code") = 14
  /\ Place(PtRegs, "eflags") = 17 /\ Len(PtRegs) = 17
BY DEF Place, PtRegs

LEMMA PopPlaces ==
  /\ Place(PopOrder, "gs") = 1  /\ Place(PopOrder, "fs") = 2  /\ Place(PopOrder, "es") = 3
  /\ Place(PopOrder, "ds") = 4  /\ Place(PopOrder, "edi") = 5 /\ Place(PopOrder, "esi") = 6
  /\ Place(PopOrder, "ebp") = 7 /\ Place(PopOrder, "ebx") = 9 /\ Place(PopOrder, "edx") = 10
  /\ Place(PopOrder, "ecx") = 11 /\ Place(PopOrder, "eax") = 12
BY DEF Place, PopOrder

LEMMA Registers ==
  Reg = {"eax", "ecx", "edx", "ebx", "esp", "ebp", "esi", "edi", "ds", "es", "fs", "gs"}
BY DEF Reg, SaveOrder

\* Every exception and every line has a gate that closes interrupts and leads to
\* its own stub.
LEMMA Gates ==
  /\ \A v \in 0 .. IRQ15 : FullTable[v] = Gate(v, 142)
  /\ \A v \in 0 .. IRQ15 : FullTable[v].stub = v /\ ClearsIF(FullTable[v])
  /\ FullTable \in [Vector -> GateType]
  /\ ClearedTable \in [Vector -> GateType]
<1>1. \A v \in 0 .. IRQ15 : v \in Vector /\ v \in Registered
  BY DEF IRQ15, Vector, Registered
<1>2. \A v \in 0 .. IRQ15 : FullTable[v] = Gate(v, 142)
  BY <1>1 DEF FullTable, IrqFlags
<1>3. \A v \in 0 .. IRQ15 : FullTable[v].stub = v /\ ClearsIF(FullTable[v])
  <2>1. \A v : Gate(v, 142).stub = v /\ ClearsIF(Gate(v, 142))
    BY DEF Gate, ClearsIF
  <2>2. QED BY <1>2, <2>1
<1>4. ClearedTable \in [Vector -> GateType]
  <2>1. Gate(NoStub, 142) \in GateType
    BY DEF Gate, Stub, NoStub, Byte, GateType
  <2>2. QED BY <2>1 DEF ClearedTable
<1>5. FullTable \in [Vector -> GateType]
  <2>1. \A v \in Vector : FullTable[v] \in GateType
    <3>1. \A v \in Vector : v \in Stub
      BY DEF Vector, Stub, NoStub
    <3>2. \A v \in Stub : \A f \in {142, 238} :
            Gate(v, f) \in GateType
      BY DEF Gate, Byte, GateType
    <3>3. QED BY <1>4, <3>1, <3>2 DEF FullTable, IrqFlags
  <2>2. QED BY <2>1 DEF FullTable
<1>6. QED BY <1>2, <1>3, <1>4, <1>5

-----------------------------------------------------------------------------
(* The tick counter is two words.                                          *)

LEMMA WordPositive == WordSize \in Nat /\ WordSize >= 2 /\ WordSize * WordSize \in Nat
BY InterruptsAssumption

LEMMA HalfRange ==
  ASSUME NEW t \in Tick, NEW which \in Halves
  PROVE  HalfOf(which, t) \in HalfTick
<1>1. t \in Nat /\ t < WordSize * WordSize
  BY WordPositive DEF Tick
<1>2. t % WordSize \in 0 .. WordSize - 1
  BY <1>1, WordPositive
<1>3. t \div WordSize \in Nat
  BY <1>1, WordPositive
<1>4. t \div WordSize < WordSize
  BY <1>1, WordPositive
<1>5. QED BY <1>2, <1>3, <1>4, WordPositive DEF HalfOf, HalfTick

LEMMA NextTick ==
  ASSUME NEW t \in Tick
  PROVE  /\ Next1(t) \in Tick
         /\ Next1(t) = IF t + 1 = WordSize * WordSize THEN 0 ELSE t + 1
<1> DEFINE R == WordSize * WordSize
<1>1. R \in Nat \ {0}
  BY WordPositive
<1>2. t \in 0 .. R - 1 /\ Next1(t) = (t + 1) % R
  BY DEF Tick, Next1
<1> HIDE DEF R
<1>3. (t + 1) % R = IF t + 1 = R THEN 0 ELSE t + 1
  BY <1>1, <1>2
<1>4. Next1(t) \in 0 .. R - 1
  BY <1>1, <1>2, <1>3
<1>5. QED BY <1>2, <1>3, <1>4 DEF R, Tick

\* Below a word the counter is its low half.
LEMMA OneWord ==
  ASSUME CountType, system_ticks <= BootTicks + round + 1
  PROVE  /\ system_ticks < WordSize
         /\ HalfOf("low", system_ticks) = system_ticks /\ HalfOf("high", system_ticks) = 0
<1>1. /\ system_ticks \in Nat /\ round \in Nat /\ round <= Rounds - 1
      /\ BootTicks + Rounds < WordSize /\ BootTicks \in Nat /\ Rounds \in Nat /\ WordSize \in Nat
  BY InterruptsAssumption, WordPositive DEF CountType, Tick
<1>2. system_ticks < WordSize
  BY <1>1
<1>3. system_ticks % WordSize = system_ticks /\ system_ticks \div WordSize = 0
  BY <1>1, <1>2
<1>4. QED BY <1>2, <1>3 DEF HalfOf

\* No tick of a word wraps the counter.
LEMMA TickGrows ==
  ASSUME CountType, system_ticks <= BootTicks + round + 1
  PROVE  system_ticks <= Next1(system_ticks)
<1>1. system_ticks < WordSize /\ system_ticks \in Nat
  BY OneWord, WordPositive DEF CountType, Tick
<1>2. system_ticks + 1 < WordSize * WordSize
  <2>1. WordSize * WordSize >= 2 * WordSize
    BY WordPositive
  <2>2. QED BY <1>1, <2>1, WordPositive
<1>3. Next1(system_ticks) = system_ticks + 1
  BY <1>1, <1>2, WordPositive DEF Next1
<1>4. QED BY <1>1, <1>3

\* Two halves make a number of two words.
LEMMA JoinedType ==
  ASSUME CountType
  PROVE  Joined \in Tick
<1>1. /\ half.value \in HalfTick /\ HalfOf("low", system_ticks) \in HalfTick
      /\ HalfOf("high", system_ticks) \in HalfTick
  BY HalfRange DEF CountType, Loaded, Halves
<1>2. ASSUME NEW low \in HalfTick, NEW high \in HalfTick
      PROVE  low + WordSize * high \in Tick
  <2>1. low \in Nat /\ high \in Nat /\ low < WordSize /\ high + 1 <= WordSize
    BY WordPositive DEF HalfTick
  <2>2. PICK d \in Nat : WordSize = high + 1 + d
    BY <2>1, WordPositive
  <2>3. WordSize * high \in Nat /\ WordSize * d \in Nat
    BY <2>1, WordPositive
  <2>4. WordSize * WordSize = WordSize * high + WordSize + WordSize * d
    BY <2>1, <2>2, WordPositive
  <2>5. QED BY <2>1, <2>3, <2>4, WordPositive DEF Tick
<1>3. Joined = half.value + WordSize * HalfOf("high", system_ticks)
      \/ Joined = HalfOf("low", system_ticks) + WordSize * half.value
  BY DEF Joined
<1>4. QED BY <1>1, <1>2, <1>3

LEMMA JoinedFits ==
  ASSUME CountType, ReaderInv, pc = "read_second", ~late
  PROVE  last_tick <= Joined /\ Joined <= system_ticks /\ Joined < WordSize
<1>1. /\ last_tick <= system_ticks /\ system_ticks <= BootTicks + round + 1
      /\ \/ half.which = "low" /\ last_tick <= half.value /\ half.value <= system_ticks
         \/ half.which = "high" /\ half.value = 0
  BY DEF ReaderInv
<1>2. /\ system_ticks < WordSize
      /\ HalfOf("low", system_ticks) = system_ticks /\ HalfOf("high", system_ticks) = 0
  BY <1>1, OneWord
<1>3. /\ half.value \in Nat /\ system_ticks \in Nat /\ last_tick \in Nat /\ WordSize \in Nat
      /\ WordSize * 0 = 0
  BY WordPositive DEF CountType, Loaded, HalfTick, Tick
<1>4. Joined = half.value \/ Joined = system_ticks
  <2>1. CASE half.which = "low"
    BY <1>2, <1>3, <2>1 DEF Joined
  <2>2. CASE half.which = "high" /\ half.value = 0
    BY <1>2, <1>3, <2>2 DEF Joined
  <2>3. QED BY <1>1, <2>1, <2>2
<1>5. Joined = half.value => last_tick <= half.value /\ half.value <= system_ticks
  <2>1. CASE half.which = "low"
    BY <1>1, <2>1
  <2>2. CASE half.which = "high" /\ half.value = 0
    <3>1. Joined = system_ticks
      BY <1>2, <1>3, <2>2 DEF Joined
    <3>2. QED BY <1>1, <1>3, <3>1
  <2>3. QED BY <1>1, <2>1, <2>2
<1>6. QED BY <1>1, <1>2, <1>3, <1>4, <1>5

-----------------------------------------------------------------------------
(* What is on the top of a stack.                                          *)

LEMMA LastItem ==
  ASSUME NEW S, NEW s \in Seq(S), NEW t \in Seq(S), Len(t) > 0
  PROVE  /\ s \o t \in Seq(S) /\ Len(s \o t) = Len(s) + Len(t)
         /\ Len(s) \in Nat /\ Len(t) \in Nat
         /\ (s \o t)[Len(s) + Len(t)] = t[Len(t)]
<1>1. Len(s) \in Nat /\ Len(t) \in Nat
  OBVIOUS
<1>2. s \o t \in Seq(S) /\ Len(s \o t) = Len(s) + Len(t)
  BY ConcatProperties
<1>3. /\ Len(s) + Len(t) \in 1 .. Len(s) + Len(t) /\ ~(Len(s) + Len(t) <= Len(s))
      /\ Len(s) + Len(t) - Len(s) = Len(t)
  BY <1>1
<1>4. (s \o t)[Len(s) + Len(t)] = t[Len(t)]
  BY <1>3, ConcatProperties
<1>5. QED BY <1>1, <1>2, <1>4

LEMMA OneMore ==
  ASSUME NEW S, NEW s \in Seq(S), NEW x \in S, NEW k \in Nat, Len(s) = k
  PROVE  /\ s \o <<x>> \in Seq(S) /\ Len(s \o <<x>>) = k + 1 /\ (s \o <<x>>)[k + 1] = x
         /\ \A i \in 1 .. k : (s \o <<x>>)[i] = s[i]
OBVIOUS

-----------------------------------------------------------------------------
(* The initial state, and the steps of interrupt_init.                     *)

LEMMA Types == IInv => TypeOK
<1> SUFFICES ASSUME IInv PROVE TypeOK
  OBVIOUS
<1>1. BootType /\ ChipType /\ CpuType /\ CountType
  BY DEF IInv
<1>2. out \in 0 .. Len(Writes)
  <2>1. out \in 0 .. 15
    BY <1>1 DEF BootType
  <2>2. QED BY <2>1, WritesList
<1>3. {system_ticks, last_tick, acked} \subseteq Tick
  BY <1>1 DEF CountType
<1>4. QED
  BY <1>1, <1>2, <1>3, Zenon
  DEF BootType, TableType, ChipType, CpuType, CountType, TypeOK

LEMMA InitInv == Init => IInv
<1> SUFFICES ASSUME Init PROVE IInv
  OBVIOUS
<1>1. /\ IF_ = FALSE /\ idt = <<>> /\ pc = "idt_init" /\ out = 0
      /\ stack = <<>> /\ regs = Mine /\ frames = <<>>
  BY DEF Init
<1>2. /\ system_ticks = 0 /\ acked = 0
      /\ half = NoHalf /\ last_tick = 0 /\ round = 0 /\ late = FALSE
  BY DEF Init
<1>3. BootType
  <2>1. pit \in Timer
    BY DEF Init, Halves, Byte, Count, Timer
  <2>2. saved \in OldMasks
    BY DEF Init, Byte, OldMasks
  <2>3. QED BY <1>1, <2>1, <2>2 DEF BootType, TableType
<1>4. ChipType
  BY InterruptsAssumption DEF ChipType, Chip, Byte, Init
<1>5. CpuType
  <2>1. Mine \in [Reg -> WordType]
    BY DEF Mine, WordType, Word
  <2>2. <<>> \in Seq(WordType) /\ <<>> \in Seq(FrameType)
    BY EmptySeq
  <2>3. IF_ \in BOOLEAN
    BY <1>1, Zenon
  <2>4. QED BY <1>1, <2>1, <2>2, <2>3, Zenon DEF CpuType
<1>6. CountType
  <2>1. 0 \in Tick /\ 0 \in HalfTick
    BY WordPositive DEF Tick, HalfTick
  <2>2. half \in Loaded
    BY <1>2, <2>1 DEF NoHalf, Halves, Loaded
  <2>3. late \in BOOLEAN
    BY <1>2, Zenon
  <2>4. round \in 0 .. Rounds - 1
    BY <1>2, InterruptsAssumption
  <2>5. QED BY <1>2, <2>1, <2>2, <2>3, <2>4, Zenon DEF CountType
<1>7. BootInv
  BY DEF Init, BootInv, MasterAt, SlaveAt, PitAt, Unloaded, Opened
<1>8. FramesInv /\ ServiceInv
  BY DEF Init, FramesInv, ServiceInv, InService
<1>9. FlagInv
  <2>1. pc \notin Opened
    BY <1>1 DEF Opened
  <2>2. QED BY <1>1, <2>1, Zenon DEF FlagInv
<1>10. StackInv /\ CountInv /\ ReaderInv
  BY <1>1, <1>2, InterruptsAssumption DEF StackInv, MainRuns, CountInv, OnItsWay, ReaderInv
<1>11. QED BY <1>3, <1>4, <1>5, <1>6, <1>7, <1>8, <1>9, <1>10 DEF IInv

\* What only depends on handlers in progress stays when nothing of them changes.
LEMMA HandlersKept ==
  ASSUME FramesInv, ServiceInv, StackInv, CountInv,
         UNCHANGED <<cpu, system_ticks, acked>>,
         master'.isr = master.isr, slave'.isr = slave.isr,
         frames = <<>> \/ pc' = pc
  PROVE  FramesInv' /\ ServiceInv' /\ StackInv' /\ CountInv'
<1>1. FramesInv'
  BY DEF FramesInv, cpu
<1>2. ServiceInv'
  BY DEF ServiceInv, InService, cpu
<1>3. StackInv'
  BY DEF StackInv, MainRuns, Top, Readable, cpu
<1>4. CountInv'
  BY DEF CountInv, OnItsWay, cpu
<1>5. QED BY <1>1, <1>2, <1>3, <1>4

\* The steps of interrupt_init that write to no chip.
LEMMA InitStep ==
  ASSUME IInv, idt_init \/ register_interrupt_handlers \/ save_masks \/ sti
  PROVE  IInv'
<1>1. /\ UNCHANGED <<chips, pit, out, cpu, system_ticks, reader, acked>>
      /\ frames = <<>>
      /\ \/ pc = "idt_init" /\ pc' = "register" /\ UNCHANGED <<IF_, saved>>
            /\ idt' = ClearedTable
         \/ pc = "register" /\ pc' = "save_masks" /\ UNCHANGED <<IF_, saved>>
            /\ idt' = FullTable
         \/ pc = "save_masks" /\ pc' = "outb" /\ UNCHANGED <<IF_, idt>>
            /\ saved' = [a1 |-> master.imr, b1 |-> slave.imr]
         \/ pc = "sti" /\ pc' = "read" /\ UNCHANGED <<idt, saved>> /\ IF_' = TRUE
  BY Zenon DEF idt_init, register_interrupt_handlers, save_masks, sti, MainRuns
<1>2. BootType'
  <2>1. BootType /\ master \in Chip /\ slave \in Chip
    BY DEF IInv, ChipType
  <2>2. TableType'
    BY <1>1, <2>1, Gates DEF BootType, TableType
  <2>3. (saved \in OldMasks)'
    <3>1. [a1 |-> master.imr, b1 |-> slave.imr] \in OldMasks
      BY <2>1 DEF Chip, OldMasks
    <3>2. QED BY <1>1, <2>1, <3>1, Zenon DEF BootType
  <2>4. QED BY <1>1, <2>1, <2>2, <2>3 DEF BootType
<1>3. ChipType' /\ CpuType' /\ CountType'
  BY <1>1 DEF IInv, ChipType, CpuType, CountType, chips, cpu, reader
<1>4. BootInv'
  BY <1>1 DEF IInv, BootInv, MasterAt, SlaveAt, PitAt, Unloaded, Opened, chips
<1>5. FlagInv'
  <2>1. IF_' <=> pc' \in Opened
    BY <1>1 DEF IInv, FlagInv, Opened, MainRuns, CpuType
  <2>2. QED BY <1>1, <2>1, Zenon DEF FlagInv, MainRuns, cpu
<1>6. ReaderInv'
  BY <1>1 DEF IInv, ReaderInv, reader
<1>7. FramesInv' /\ ServiceInv' /\ StackInv' /\ CountInv'
  BY <1>1, HandlersKept DEF IInv, chips
<1>8. QED BY <1>2, <1>3, <1>4, <1>5, <1>6, <1>7 DEF IInv

-----------------------------------------------------------------------------
(* The port writes of pic_init and pit_init.                               *)

\* ICW1 starts a chip's initialisation.
LEMMA Restarted ==
  ASSUME NEW c \in Chip
  PROVE  /\ Command(c, 17) \in Chip
         /\ Command(c, 17).icw = 2 /\ Command(c, 17).isr = {}
<1> DEFINE d == [c EXCEPT !.imr = 0, !.irr = {}, !.isr = {}, !.icw = 2]
<1>1. Command(c, 17) = d
  BY CommandBits DEF Command
<1>2. d \in Chip
  <2>1. 0 \in Byte /\ {} \in SUBSET Line
    BY DEF Byte
  <2>2. QED BY <2>1 DEF Chip
<1>3. d.icw = 2 /\ d.isr = {}
  BY DEF Chip
<1>4. QED BY <1>1, <1>2, <1>3

\* A byte to the data port goes where the initialisation stands.
LEMMA DataWritten ==
  ASSUME NEW c \in Chip, NEW v \in Byte
  PROVE  /\ Data(c, v) \in Chip /\ Data(c, v).isr = c.isr
         /\ Data(c, v).base = IF c.icw = 2 THEN v ELSE c.base
         /\ Data(c, v).imr = IF c.icw = 0 THEN v ELSE c.imr
         /\ Data(c, v).icw = IF c.icw = 2 THEN 3 ELSE IF c.icw = 3 THEN 4 ELSE 0
<1>1. c.icw \in {0, 2, 3, 4}
  BY DEF Chip
<1>2. CASE c.icw = 2
  <2> DEFINE d == [c EXCEPT !.base = v, !.icw = 3]
  <2>1. Data(c, v) = d
    BY <1>2 DEF Data
  <2>2. d \in Chip
    BY DEF Chip
  <2>3. d.isr = c.isr /\ d.base = v /\ d.imr = c.imr /\ d.icw = 3
    BY DEF Chip
  <2>4. QED BY <1>2, <2>1, <2>2, <2>3
<1>3. CASE c.icw = 3
  <2>1. Data(c, v) = [c EXCEPT !.icw = 4]
    BY <1>3 DEF Data
  <2>2. QED BY <1>3, <2>1 DEF Chip
<1>4. CASE c.icw = 4
  <2>1. Data(c, v) = [c EXCEPT !.icw = 0]
    BY <1>4 DEF Data
  <2>2. QED BY <1>4, <2>1 DEF Chip
<1>5. CASE c.icw = 0
  <2>1. Data(c, v) = [c EXCEPT !.imr = v]
    BY <1>5 DEF Data
  <2>2. QED BY <1>5, <2>1 DEF Chip
<1>6. QED BY <1>1, <1>2, <1>3, <1>4, <1>5

LEMMA MasterWrite ==
  ASSUME master \in Chip, saved \in OldMasks, out \in 0 .. 14, MasterAt(out),
         master' = Written(master, Writes[out + 1], "PIC1_COMMAND", "PIC1_DATA"),
         out' = out + 1
  PROVE  master' \in Chip /\ (master.isr = {} => master'.isr = {}) /\ MasterAt(out)'
<1>1. saved.a1 \in Byte
  BY DEF OldMasks
<1>2. CASE out = 0
  <2>1. master' = Command(master, 17)
    BY <1>2, WritesList DEF Written, To
  <2>2. QED BY <1>2, <2>1, Restarted DEF MasterAt
<1>3. CASE out \in {2, 4, 6, 8, 10}
  <2> DEFINE v == IF out = 2 THEN IRQ0 ELSE IF out = 4 THEN 4 ELSE IF out = 6 THEN 1
                  ELSE IF out = 8 THEN saved.a1 ELSE 254
  <2>1. master' = Data(master, v)
    BY <1>3, WritesList DEF Written, To
  <2>2. v \in Byte /\ (out = 2 => v = IRQ0) /\ (out = 10 => v = 254)
    BY <1>1, <1>3 DEF IRQ0, Byte
  <2> HIDE DEF v
  <2>3. QED BY <1>3, <2>1, <2>2, DataWritten DEF MasterAt
<1>4. CASE out \notin {0, 2, 4, 6, 8, 10}
  <2>1. out \in {1, 3, 5, 7, 9, 11, 12, 13, 14}
    BY <1>4
  <2>2. master' = master
    BY <2>1, WritesList DEF Written, To
  <2>3. QED BY <2>1, <2>2 DEF MasterAt
<1>5. QED BY <1>2, <1>3, <1>4

LEMMA SlaveWrite ==
  ASSUME slave \in Chip, saved \in OldMasks, out \in 0 .. 14, SlaveAt(out),
         slave' = Written(slave, Writes[out + 1], "PIC2_COMMAND", "PIC2_DATA"),
         out' = out + 1
  PROVE  slave' \in Chip /\ (slave.isr = {} => slave'.isr = {}) /\ SlaveAt(out)'
<1>1. saved.b1 \in Byte
  BY DEF OldMasks
<1>2. CASE out = 1
  <2>1. slave' = Command(slave, 17)
    BY <1>2, WritesList DEF Written, To
  <2>2. QED BY <1>2, <2>1, Restarted DEF SlaveAt
<1>3. CASE out \in {3, 5, 7, 9, 11}
  <2> DEFINE v == IF out = 3 THEN IRQ8 ELSE IF out = 5 THEN 2 ELSE IF out = 7 THEN 1
                  ELSE IF out = 9 THEN saved.b1 ELSE 255
  <2>1. slave' = Data(slave, v)
    BY <1>3, WritesList DEF Written, To
  <2>2. v \in Byte /\ (out = 3 => v = IRQ8) /\ (out = 11 => v = 255)
    BY <1>1, <1>3 DEF IRQ8, Byte
  <2> HIDE DEF v
  <2>3. QED BY <1>3, <2>1, <2>2, DataWritten DEF SlaveAt
<1>4. CASE out \notin {1, 3, 5, 7, 9, 11}
  <2>1. out \in {0, 2, 4, 6, 8, 10, 12, 13, 14}
    BY <1>4
  <2>2. slave' = slave
    BY <2>1, WritesList DEF Written, To
  <2>3. QED BY <2>1, <2>2 DEF SlaveAt
<1>5. QED BY <1>2, <1>3, <1>4

LEMMA TimerWrite ==
  ASSUME pit \in Timer, out \in 0 .. 14, PitAt(out), pit' = PitWritten(Writes[out + 1]),
         out' = out + 1
  PROVE  pit' \in Timer /\ PitAt(out)'
<1>1. {"low", "high"} \subseteq Halves /\ 155 \in Byte /\ Divisor \in Count
  BY DivisorBytes DEF Halves, Byte, Count
<1>2. CASE out = 12
  <2>1. pit' = [pit EXCEPT !.next = "low"]
    BY <1>2, WritesList DEF PitWritten, To
  <2>2. pit' \in Timer /\ pit'.next = "low"
    BY <1>1, <2>1 DEF Timer
  <2>3. QED BY <1>2, <2>2 DEF PitAt
<1>3. CASE out = 13
  <2>1. Writes[out + 1] = [port |-> "PIT_CHANNEL0", value |-> 155] /\ pit.next = "low"
    BY <1>3, WritesList DEF To, PitAt
  <2>2. pit' = [pit EXCEPT !.next = "high", !.low = 155]
    BY <2>1 DEF PitWritten
  <2>3. pit' \in Timer /\ pit'.next = "high" /\ pit'.low = 155
    BY <1>1, <2>2 DEF Timer
  <2>4. QED BY <1>3, <2>3, DivisorBytes DEF PitAt
<1>4. CASE out = 14
  <2>1. /\ Writes[out + 1] = [port |-> "PIT_CHANNEL0", value |-> 46]
        /\ pit.next = "high" /\ pit.low = 155
    BY <1>4, WritesList, DivisorBytes DEF To, PitAt
  <2>2. pit' = [pit EXCEPT !.next = "low", !.divisor = Divisor]
    BY <2>1, DivisorBytes DEF PitWritten
  <2>3. pit' \in Timer /\ pit'.next = "low" /\ pit'.divisor = Divisor
    BY <1>1, <2>2 DEF Timer
  <2>4. QED BY <1>4, <2>3 DEF PitAt
<1>5. CASE out < 12
  <2>1. out \in {0, 1, 2, 3, 4, 5, 6, 7, 8, 9, 10, 11}
    BY <1>5
  <2>2. pit' = pit
    BY <2>1, WritesList DEF PitWritten, To
  <2>3. QED BY <2>1, <2>2 DEF PitAt
<1>6. QED BY <1>2, <1>3, <1>4, <1>5

LEMMA OutbStep == ASSUME IInv, outb PROVE IInv'
<1>1. /\ UNCHANGED <<IF_, idt, saved, cpu, system_ticks, reader, acked>>
      /\ frames = <<>> /\ pc = "outb"
      /\ master' = Written(master, Writes[out + 1], "PIC1_COMMAND", "PIC1_DATA")
      /\ slave' = Written(slave, Writes[out + 1], "PIC2_COMMAND", "PIC2_DATA")
      /\ pit' = PitWritten(Writes[out + 1])
      /\ out' = out + 1
      /\ pc' = IF out + 1 = Len(Writes) THEN "sti" ELSE "outb"
  BY Zenon DEF outb, MainRuns
<1>2. /\ BootType /\ ChipType /\ CpuType /\ CountType /\ BootInv /\ FramesInv /\ FlagInv
      /\ ServiceInv /\ StackInv /\ CountInv /\ ReaderInv
  BY DEF IInv
<1>3. /\ out \in 0 .. 14 /\ saved \in OldMasks /\ pit \in Timer
      /\ master \in Chip /\ slave \in Chip /\ TableType
      /\ MasterAt(out) /\ SlaveAt(out) /\ PitAt(out) /\ idt = FullTable
  BY <1>1, <1>2 DEF BootType, ChipType, BootInv, Unloaded
<1>4. /\ pc' \in {"outb", "sti"} /\ out' \in 1 .. 15
      /\ pc' = "outb" => out' < 15
      /\ pc' = "sti" => out' = 15
  BY <1>1, <1>3, WritesList
<1>5. master.isr = {} /\ slave.isr = {}
  BY <1>1, <1>2 DEF ServiceInv, InService
<1>6. /\ master' \in Chip /\ master'.isr = {} /\ MasterAt(out)'
      /\ slave' \in Chip /\ slave'.isr = {} /\ SlaveAt(out)'
      /\ pit' \in Timer /\ PitAt(out)'
  BY <1>1, <1>3, <1>5, MasterWrite, SlaveWrite, TimerWrite
<1>7. BootType'
  BY <1>1, <1>3, <1>4, <1>6 DEF BootType, TableType
<1>8. ChipType' /\ CpuType' /\ CountType'
  BY <1>1, <1>2, <1>6 DEF ChipType, CpuType, CountType, cpu, reader
<1>9. BootInv'
  BY <1>1, <1>3, <1>4, <1>6 DEF BootInv, Unloaded, Opened
<1>10. FlagInv'
  <2>1. pc \notin Opened /\ pc' \notin Opened
    BY <1>1, <1>4 DEF Opened
  <2>2. QED BY <1>1, <1>2, <2>1, Zenon DEF FlagInv
<1>11. ReaderInv'
  BY <1>1, <1>2, <1>4 DEF ReaderInv, reader
<1>12. FramesInv' /\ ServiceInv' /\ StackInv' /\ CountInv'
  BY <1>1, <1>2, <1>5, <1>6, HandlersKept
<1>13. QED
  BY <1>7, <1>8, <1>9, <1>10, <1>11, <1>12 DEF IInv

-----------------------------------------------------------------------------
(* The loop of kernel_main, and the devices.                               *)

\* The boot conditions look at no request and at nothing in service.
LEMMA BootKept ==
  ASSUME BootInv, UNCHANGED <<idt, pit, boot>>,
         master'.icw = master.icw, master'.base = master.base, master'.imr = master.imr,
         slave'.icw = slave.icw, slave'.base = slave.base, slave'.imr = slave.imr
  PROVE  BootInv'
BY DEF BootInv, MasterAt, SlaveAt, PitAt, boot

LEMMA BootTypeKept ==
  ASSUME BootType, UNCHANGED <<idt, pit, boot>>
  PROVE  BootType'
BY DEF BootType, TableType, boot

LEMMA ReadStep ==
  ASSUME IInv, (\E which \in Halves : read_first(which)) \/ read_second
  PROVE  IInv'
<1>1. /\ UNCHANGED <<IF_, idt, chips, pit, out, saved, cpu, system_ticks, acked>>
      /\ frames = <<>>
      /\ pc \in {"read", "read_second"} /\ pc' \in Opened
  BY DEF read_first, read_second, MainRuns, Opened
<1>2. /\ BootType /\ ChipType /\ CpuType /\ CountType /\ BootInv /\ FramesInv /\ FlagInv
      /\ ServiceInv /\ StackInv /\ CountInv /\ ReaderInv
  BY DEF IInv
<1>3. /\ ReaderInv' /\ last_tick' \in Tick /\ half' \in Loaded
      /\ round' \in 0 .. Rounds - 1 /\ late' \in BOOLEAN
  <2>1. CASE \E which \in Halves : read_first(which)
    <3>1. PICK which \in Halves :
            /\ half' = [which |-> which, value |-> HalfOf(which, system_ticks)]
            /\ last_tick' = last_tick /\ round' = round /\ late' = late
            /\ system_ticks' = system_ticks
            /\ pc = "read" /\ pc' = "read_second"
      BY <2>1, Zenon DEF read_first
    <3>2. /\ system_ticks \in Tick /\ last_tick \in Tick
          /\ round \in 0 .. Rounds - 1 /\ late \in BOOLEAN
      BY <1>2 DEF CountType
    <3>3. HalfOf(which, system_ticks) \in HalfTick
      BY <3>2, HalfRange
    <3>4. half' \in Loaded
      BY <3>1, <3>3 DEF Loaded
    <3>5. ReaderInv'
      <4>1. CASE late
        BY <3>1, <4>1 DEF ReaderInv
      <4>2. CASE ~late
        <5>1. last_tick <= system_ticks /\ system_ticks <= BootTicks + round + 1
          BY <1>2, <3>1, <4>2 DEF ReaderInv
        <5>2. HalfOf("low", system_ticks) = system_ticks /\ HalfOf("high", system_ticks) = 0
          BY <1>2, <5>1, OneWord
        <5>3. half'.which = which /\ half'.value = HalfOf(which, system_ticks)
          BY <3>1
        <5>4. \/ which = "low" /\ half'.value = system_ticks
              \/ which = "high" /\ half'.value = 0
          BY <5>2, <5>3 DEF Halves
        <5>5. system_ticks <= system_ticks
          BY <3>2, WordPositive DEF Tick
        <5>6. QED BY <3>1, <5>1, <5>3, <5>4, <5>5 DEF ReaderInv
      <4>3. QED BY <4>1, <4>2
    <3>6. QED BY <3>1, <3>2, <3>4, <3>5
  <2>2. CASE read_second
    <3>1. /\ half' = NoHalf /\ pc = "read_second" /\ pc' # "read_second"
          /\ system_ticks' = system_ticks
          /\ \/ /\ Again
                /\ pc' = "read" /\ last_tick' = Joined /\ round' = round + 1 /\ late' = late
             \/ pc' = "hlt" /\ last_tick' = 0 /\ round' = 0 /\ late' = FALSE
      BY <2>2 DEF read_second
    <3>2. 0 \in Tick /\ 0 \in HalfTick
      BY WordPositive DEF Tick, HalfTick
    <3>3. half' \in Loaded
      BY <3>1, <3>2 DEF NoHalf, Halves, Loaded
    <3>4. /\ Joined \in Tick /\ round \in 0 .. Rounds - 1 /\ late \in BOOLEAN
          /\ system_ticks \in Nat
      BY <1>2, JoinedType, WordPositive DEF CountType, Tick
    <3>5. CASE pc' = "hlt"
      <4>1. last_tick' = 0 /\ round' = 0 /\ late' = FALSE
        BY <3>1, <3>5
      <4>2. round' \in 0 .. Rounds - 1
        BY <4>1, InterruptsAssumption
      <4>3. ReaderInv'
        BY <3>5 DEF ReaderInv
      <4>4. QED BY <3>2, <3>3, <4>1, <4>2, <4>3
    <3>6. CASE pc' # "hlt"
      <4>1. Again /\ last_tick' = Joined /\ round' = round + 1 /\ late' = late
        BY <3>1, <3>6
      <4>2. round' \in 0 .. Rounds - 1
        BY <3>4, <4>1, InterruptsAssumption DEF Again
      <4>3. ReaderInv'
        <5>1. ASSUME ~late
              PROVE  Joined <= system_ticks /\ system_ticks <= BootTicks + (round + 1) + 1
          <6>1. Joined <= system_ticks
            BY <1>2, <3>1, <5>1, JoinedFits
          <6>2. system_ticks <= BootTicks + round + 1
            BY <1>2, <3>1, <5>1 DEF ReaderInv
          <6>3. QED BY <3>4, <6>1, <6>2, InterruptsAssumption
        <5>2. QED BY <3>1, <4>1, <5>1 DEF ReaderInv
      <4>4. QED BY <3>3, <3>4, <4>1, <4>2, <4>3
    <3>7. QED BY <3>5, <3>6
  <2>3. QED BY <2>1, <2>2
<1>4. BootType'
  BY <1>1, <1>2 DEF BootType, TableType, Opened
<1>5. ChipType' /\ CpuType' /\ CountType'
  BY <1>1, <1>2, <1>3 DEF ChipType, CpuType, CountType, chips, cpu
<1>6. BootInv'
  BY <1>1, <1>2 DEF BootInv, MasterAt, SlaveAt, PitAt, Unloaded, Opened, chips
<1>7. FlagInv'
  <2>1. pc \in Opened
    BY <1>1 DEF Opened
  <2>2. QED BY <1>1, <1>2, <2>1, Zenon DEF FlagInv, MainRuns, cpu
<1>8. FramesInv' /\ ServiceInv' /\ StackInv' /\ CountInv'
  BY <1>1, <1>2, HandlersKept DEF chips
<1>9. QED BY <1>3, <1>4, <1>5, <1>6, <1>7, <1>8 DEF IInv

\* A request changes a chip's requests and nothing else of it.
LEMMA RequestsOnly ==
  ASSUME NEW c \in Chip, NEW R \in SUBSET Line
  PROVE  LET d == [c EXCEPT !.irr = R]
         IN  /\ d \in Chip /\ d.irr = R /\ d.isr = c.isr
             /\ d.icw = c.icw /\ d.base = c.base /\ d.imr = c.imr
<1> DEFINE d == [c EXCEPT !.irr = R]
<1>1. d \in Chip
  BY DEF Chip
<1>2. d.irr = R /\ d.isr = c.isr /\ d.icw = c.icw /\ d.base = c.base /\ d.imr = c.imr
  BY DEF Chip
<1>3. QED BY <1>1, <1>2

LEMMA RaiseStep ==
  ASSUME IInv, NEW irq \in Devices, raise(irq)
  PROVE  IInv'
<1>1. UNCHANGED <<IF_, idt, pit, boot, cpu, system_ticks, reader, acked>>
  BY DEF raise
<1>2. /\ BootType /\ ChipType /\ CpuType /\ CountType /\ BootInv /\ FramesInv /\ FlagInv
      /\ ServiceInv /\ StackInv /\ CountInv /\ ReaderInv
  BY DEF IInv
<1>3. /\ master' \in Chip /\ slave' \in Chip
      /\ master'.isr = master.isr /\ slave'.isr = slave.isr
      /\ master'.icw = master.icw /\ master'.base = master.base /\ master'.imr = master.imr
      /\ slave'.icw = slave.icw /\ slave'.base = slave.base /\ slave'.imr = slave.imr
  <2>1. master \in Chip /\ slave \in Chip /\ irq \in 0 .. 15
    BY <1>2, InterruptsAssumption DEF ChipType
  <2>2. \A c \in Chip : c.irr \in SUBSET Line
    BY DEF Chip
  <2>3. CASE irq < 8 /\ master' = [master EXCEPT !.irr = @ \cup {irq}] /\ slave' = slave
    <3>1. master.irr \cup {irq} \in SUBSET Line
      BY <2>1, <2>2, <2>3 DEF Line
    <3>2. QED BY <2>1, <2>3, <3>1, RequestsOnly
  <2>4. CASE irq >= 8 /\ slave' = [slave EXCEPT !.irr = @ \cup {irq - 8}] /\ master' = master
    <3>1. slave.irr \cup {irq - 8} \in SUBSET Line
      BY <2>1, <2>2, <2>4 DEF Line
    <3>2. QED BY <2>1, <2>4, <3>1, RequestsOnly
  <2>5. QED BY <2>3, <2>4 DEF raise
<1>4. BootType' /\ BootInv'
  BY <1>1, <1>2, <1>3, BootKept, BootTypeKept
<1>5. ChipType' /\ CpuType' /\ CountType'
  BY <1>1, <1>2, <1>3 DEF ChipType, CpuType, CountType, cpu, reader
<1>6. FlagInv' /\ ReaderInv'
  BY <1>1, <1>2, Zenon DEF FlagInv, MainRuns, ReaderInv, cpu, boot, reader
<1>7. FramesInv' /\ ServiceInv' /\ StackInv' /\ CountInv'
  BY <1>1, <1>2, <1>3, HandlersKept DEF boot
<1>8. QED BY <1>3, <1>4, <1>5, <1>6, <1>7 DEF IInv

-----------------------------------------------------------------------------
(* The processor enters a handler.                                         *)

LEMMA HighestZero == Highest({0}) = 0
BY DEF Highest

\* While interrupts are open the only request that can be pending is the timer's,
\* and its vector is 32, that of a spurious interrupt 39.
LEMMA TimerAlone ==
  ASSUME IInv, IF_
  PROVE  /\ frames = <<>> /\ pc \in Opened /\ idt = FullTable
         /\ stack = <<>> /\ regs = Mine /\ master.isr = {}
         /\ Pending \subseteq {0} /\ VectorOf(0) = IRQ0 /\ VectorOf(7) = IRQ7
<1>1. /\ FlagInv /\ BootInv /\ StackInv /\ ServiceInv /\ ChipType
  BY DEF IInv
<1>2. frames = <<>> /\ pc \in Opened
  BY <1>1 DEF FlagInv, MainRuns
<1>3. out = 15 /\ idt = FullTable
  BY <1>1, <1>2 DEF BootInv, Opened, Unloaded
<1>4. stack = <<>> /\ regs = Mine /\ master.isr = {}
  BY <1>1, <1>2 DEF StackInv, MainRuns, ServiceInv, InService
<1>5. master.imr = 254 /\ master.base = IRQ0 /\ slave.imr = 255
  BY <1>1, <1>3 DEF BootInv, MasterAt, SlaveAt
<1>6. master \in Chip /\ slave.irr \subseteq Line /\ master.irr \subseteq Line
  BY <1>1 DEF ChipType, Chip
<1>7. Requests(slave) = {}
  BY <1>5, <1>6, MaskBits DEF Requests
<1>8. Pending \subseteq {0}
  <2> DEFINE m == [master EXCEPT !.irr = master.irr]
  <2>1. m.irr = master.irr /\ m.imr = 254
    BY <1>5, <1>6, RequestsOnly
  <2>2. Pending = Requests(m)
    BY <1>7 DEF Pending
  <2> HIDE DEF m
  <2>3. QED BY <1>6, <2>1, <2>2, MaskBits DEF Requests
<1>9. VectorOf(0) = IRQ0 /\ VectorOf(7) = IRQ7
  BY <1>5 DEF VectorOf, IRQ0, IRQ7
<1>10. QED BY <1>2, <1>3, <1>4, <1>8, <1>9

LEMMA WordTypes ==
  /\ Word("eflags", 0) \in WordType /\ Word("eflags", 1) \in WordType
  /\ Word("error", 0) \in WordType /\ Word("error", 1) \in WordType
  /\ Word("cs", 0) \in WordType /\ Word("eip", 0) \in WordType
  /\ Word("handler", 0) \in WordType
  /\ \A v \in Vector : Word("vector", v) \in WordType
  /\ \A r \in Reg : Word(r, 0) \in WordType
BY DEF Word, WordType

EntryFrame(v, cause, irq) ==
  [at |-> "entry", stub |-> v, vector |-> v, cause |-> cause, irq |-> irq]
Pushed(flag, v, cause) ==
  <<Word("eflags", flag), Word("cs", 0), Word("eip", 0)>>
    \o (IF cause = "fault" /\ v \in CpuError THEN <<Word("error", 1)>> ELSE <<>>)

\* What the processor does on the way into a handler.
LEMMA Entered ==
  ASSUME CpuType, idt = FullTable, NEW v \in 0 .. IRQ15, NEW cause \in Cause, NEW irq \in Irq,
         Enter(v, cause, irq)
  PROVE  /\ ~IF_'
         /\ frames' = Append(frames, EntryFrame(v, cause, irq))
         /\ EntryFrame(v, cause, irq) \in FrameType
         /\ stack' = stack \o Pushed(IF IF_ THEN 1 ELSE 0, v, cause)
         /\ UNCHANGED <<idt, pit, boot, regs, system_ticks, reader>>
         /\ CpuType'
<1>1. idt[v].stub = v /\ ClearsIF(idt[v]) /\ v # NoStub
  BY Gates DEF IRQ15, NoStub
<1>2. IF_' \in BOOLEAN /\ ~IF_'
  <2>1. IF_' = (IF_ /\ ~ClearsIF(idt[v]))
    BY Zenon DEF Enter
  <2>2. QED BY <1>1, <2>1, Zenon
<1>3. frames' = Append(frames, EntryFrame(v, cause, irq))
  BY <1>1 DEF Enter, EntryFrame
<1>4. UNCHANGED <<idt, pit, boot, regs, system_ticks, reader>>
  BY DEF Enter
<1>5. stack' = stack \o Pushed(IF IF_ THEN 1 ELSE 0, v, cause)
  <2> DEFINE A == <<Word("eflags", IF IF_ THEN 1 ELSE 0), Word("cs", 0), Word("eip", 0)>>
             B == IF cause = "fault" /\ v \in CpuError THEN <<Word("error", 1)>> ELSE <<>>
  <2>1. stack' = (stack \o A) \o B
    BY DEF Enter
  <2>2. A \in Seq(WordType) /\ B \in Seq(WordType) /\ stack \in Seq(WordType)
    BY WordTypes DEF CpuType
  <2>3. (stack \o A) \o B = stack \o (A \o B)
    BY <2>2, ConcatAssociative
  <2>4. QED BY <2>1, <2>3, Zenon DEF Pushed
<1>6. EntryFrame(v, cause, irq) \in FrameType
  <2>1. "entry" \in Step /\ v \in Stub /\ v \in Vector
    BY DEF Step, Stub, Vector, IRQ15, NoStub
  <2>2. QED BY <2>1 DEF EntryFrame, FrameType
<1>7. CpuType'
  <2>1. \A flag \in {0, 1} : Pushed(flag, v, cause) \in Seq(WordType)
    BY WordTypes DEF Pushed
  <2>2. stack' \in Seq(WordType)
    BY <1>5, <2>1 DEF CpuType
  <2>3. frames' \in Seq(FrameType)
    BY <1>3, <1>6 DEF CpuType
  <2>4. regs' = regs
    BY <1>4
  <2>5. QED BY <1>2, <2>2, <2>3, <2>4, Zenon DEF CpuType
<1>8. QED BY <1>2, <1>3, <1>4, <1>5, <1>6, <1>7

\* An interrupt of kernel_main: the first frame.
LEMMA FirstFrame ==
  ASSUME IInv, IF_, NEW v \in {IRQ0, IRQ7}, NEW cause \in {"irq", "spurious"},
         NEW irq \in {0, 7}, RightFrame(EntryFrame(v, cause, irq)), Enter(v, cause, irq)
  PROVE  /\ Len(frames') = 1 /\ frames'[1] = EntryFrame(v, cause, irq) /\ frames' # <<>>
         /\ UNCHANGED <<idt, pit, boot, regs, system_ticks, reader>>
         /\ BootType' /\ CpuType' /\ FramesInv' /\ FlagInv' /\ StackInv' /\ ReaderInv'
<1> DEFINE f == EntryFrame(v, cause, irq)
<1>1. /\ frames = <<>> /\ pc \in Opened /\ idt = FullTable /\ stack = <<>> /\ regs = Mine
      /\ BootType /\ CpuType /\ ReaderInv
  BY TimerAlone DEF IInv
<1>2. v \in 0 .. IRQ15 /\ cause \in Cause /\ irq \in Irq
  BY DEF IRQ0, IRQ7, IRQ15, Cause, Irq
<1>3. /\ ~IF_' /\ frames' = Append(frames, f) /\ f \in FrameType
      /\ stack' = stack \o Pushed(IF IF_ THEN 1 ELSE 0, v, cause)
      /\ UNCHANGED <<idt, pit, boot, regs, system_ticks, reader>>
      /\ CpuType'
  BY <1>1, <1>2, Entered
<1>4. f.at = "entry" /\ f.cause = cause
  BY DEF EntryFrame
<1> HIDE DEF f
<1>5. Len(frames') = 1 /\ frames'[1] = f /\ frames' # <<>>
  BY <1>1, <1>3
<1>6. pc' = pc /\ regs' = Mine
  BY <1>1, <1>3 DEF boot
<1>7. FramesInv'
  <2>1. pc' \in Opened /\ pc' \notin Unloaded
    BY <1>1, <1>6 DEF Opened, Unloaded
  <2>2. RightFrame(f) /\ f.cause # "fault"
    BY <1>4 DEF f
  <2>3. DOMAIN frames' = {1}
    BY <1>1, <1>3
  <2>4. QED BY <1>5, <2>1, <2>2, <2>3 DEF FramesInv
<1>8. FlagInv'
  BY <1>3, <1>5, Zenon DEF FlagInv, MainRuns
<1>9. StackInv'
  <2>1. stack' = Interrupted
    <3>1. Pushed(1, v, cause) = Interrupted \o <<>>
      BY DEF Pushed, Interrupted
    <3>2. Interrupted \in Seq(WordType)
      BY WordTypes DEF Interrupted
    <3>3. Pushed(1, v, cause) = Interrupted
      BY <3>1, <3>2, ConcatEmptySeq
    <3>4. stack' = <<>> \o Pushed(1, v, cause)
      BY <1>1, <1>3
    <3>5. QED BY <3>2, <3>3, <3>4, ConcatEmptySeq
  <2>2. Top' = f
    BY <1>5 DEF Top
  <2>3. regs'["esp"] = Word("esp", 0)
    BY <1>6, Registers DEF Mine
  <2>4. QED BY <1>4, <1>5, <1>6, <2>1, <2>2, <2>3 DEF StackInv, MainRuns
<1>10. ReaderInv'
  BY <1>1, <1>3, <1>6 DEF ReaderInv, reader
<1>11. BootType'
  BY <1>1, <1>3, BootTypeKept
<1>12. QED BY <1>3, <1>5, <1>7, <1>8, <1>9, <1>10, <1>11 DEF f

LEMMA DeliverStep == ASSUME IInv, deliver PROVE IInv'
<1>1. IF_ /\ Pending # {}
  BY DEF deliver
<1>2. /\ pc \in Opened /\ Pending = {0} /\ VectorOf(0) = IRQ0 /\ master.isr = {}
      /\ frames = <<>>
  BY <1>1, TimerAlone
<1>3. Highest(Pending) = 0 /\ Requester = 0
  BY <1>2, HighestZero DEF Requester, Cascade
<1>4. /\ master' = Ack(master, 0) /\ slave' = slave /\ acked' = Next1(acked)
      /\ Enter(IRQ0, "irq", 0)
  BY <1>2, <1>3 DEF deliver
<1>5. /\ ChipType /\ CountType /\ BootInv /\ ServiceInv /\ CountInv
  BY DEF IInv
<1>6. RightFrame(EntryFrame(IRQ0, "irq", 0))
  BY DEF RightFrame, EntryFrame
<1>7. /\ Len(frames') = 1 /\ frames'[1] = EntryFrame(IRQ0, "irq", 0) /\ frames' # <<>>
      /\ UNCHANGED <<idt, pit, boot, regs, system_ticks, reader>>
      /\ BootType' /\ CpuType' /\ FramesInv' /\ FlagInv' /\ StackInv' /\ ReaderInv'
  BY <1>1, <1>4, <1>6, FirstFrame
<1>8. /\ master' \in Chip /\ master'.isr = {0}
      /\ master'.icw = master.icw /\ master'.base = master.base /\ master'.imr = master.imr
  <2> DEFINE d == [master EXCEPT !.irr = @ \ {0}, !.isr = @ \cup {0}]
  <2>1. master' = d
    BY <1>4 DEF Ack
  <2>2. master \in Chip /\ 0 \in Line
    BY <1>5 DEF ChipType, Line
  <2>3. d \in Chip
    <3>1. master.irr \ {0} \in SUBSET Line /\ master.isr \cup {0} \in SUBSET Line
      BY <2>2 DEF Chip
    <3>2. QED BY <2>2, <3>1 DEF Chip
  <2>4. d.isr = master.isr \cup {0} /\ d.icw = master.icw /\ d.base = master.base
        /\ d.imr = master.imr
    BY <2>2 DEF Chip
  <2>5. QED BY <1>2, <2>1, <2>3, <2>4
<1>9. ChipType' /\ BootInv'
  BY <1>4, <1>5, <1>7, <1>8, BootKept DEF ChipType
<1>10. CountType'
  <2>1. acked' \in Tick
    BY <1>4, <1>5, NextTick DEF CountType
  <2>2. QED BY <1>5, <1>7, <2>1 DEF CountType, reader
<1>11. frames'[1].cause = "irq" /\ frames'[1].at = "entry"
  BY <1>7 DEF EntryFrame
<1>12. ServiceInv'
  BY <1>4, <1>5, <1>7, <1>8, <1>11 DEF ServiceInv, InService
<1>13. CountInv'
  BY <1>2, <1>4, <1>5, <1>7, <1>11 DEF CountInv, OnItsWay
<1>14. QED BY <1>7, <1>9, <1>10, <1>12, <1>13 DEF IInv

LEMMA SpuriousStep == ASSUME IInv, deliver_spurious PROVE IInv'
<1>1. IF_ /\ Pending \ {Cascade} # {}
  BY DEF deliver_spurious
<1>2. /\ pc \in Opened /\ VectorOf(7) = IRQ7 /\ master.isr = {} /\ frames = <<>>
  BY <1>1, TimerAlone
<1>3. /\ Enter(IRQ7, "spurious", 7) /\ slave' = slave /\ acked' = acked
      /\ master' = [master EXCEPT !.irr = master.irr \ {Highest(Pending \ {Cascade})}]
  BY <1>2 DEF deliver_spurious
<1>4. /\ ChipType /\ CountType /\ BootInv /\ ServiceInv /\ CountInv
  BY DEF IInv
<1>5. RightFrame(EntryFrame(IRQ7, "spurious", 7))
  BY DEF RightFrame, EntryFrame
<1>6. /\ Len(frames') = 1 /\ frames'[1] = EntryFrame(IRQ7, "spurious", 7) /\ frames' # <<>>
      /\ UNCHANGED <<idt, pit, boot, regs, system_ticks, reader>>
      /\ BootType' /\ CpuType' /\ FramesInv' /\ FlagInv' /\ StackInv' /\ ReaderInv'
  BY <1>1, <1>3, <1>5, FirstFrame
<1>7. /\ master' \in Chip /\ master'.isr = {}
      /\ master'.icw = master.icw /\ master'.base = master.base /\ master'.imr = master.imr
  <2>1. master \in Chip
    BY <1>4 DEF ChipType
  <2>2. master.irr \ {Highest(Pending \ {Cascade})} \in SUBSET Line
    BY <2>1 DEF Chip
  <2>3. QED BY <1>2, <1>3, <2>1, <2>2, RequestsOnly
<1>8. ChipType' /\ BootInv'
  BY <1>3, <1>4, <1>6, <1>7, BootKept DEF ChipType
<1>9. CountType'
  BY <1>3, <1>4, <1>6 DEF CountType, reader
<1>10. frames'[1].cause = "spurious"
  BY <1>6 DEF EntryFrame
<1>11. ServiceInv'
  BY <1>3, <1>4, <1>6, <1>7, <1>10 DEF ServiceInv, InService
<1>12. CountInv'
  BY <1>2, <1>3, <1>4, <1>6, <1>10 DEF CountInv, OnItsWay
<1>13. QED BY <1>6, <1>8, <1>9, <1>11, <1>12 DEF IInv

\* An exception adds a frame to whatever is there.
LEMMA FaultStep ==
  ASSUME IInv, NEW v \in Faults, fault(v)
  PROVE  IInv'
<1> DEFINE f == EntryFrame(v, "fault", 0)
<1>1. /\ BootType /\ ChipType /\ CpuType /\ CountType /\ BootInv /\ FramesInv
      /\ ServiceInv /\ StackInv /\ CountInv /\ ReaderInv
  BY DEF IInv
<1>2. /\ pc \notin Unloaded /\ Enter(v, "fault", 0)
      /\ UNCHANGED <<chips, acked>>
  BY DEF fault, Unloaded
<1>3. v \in 0 .. 31 /\ v \in 0 .. IRQ15 /\ "fault" \in Cause /\ 0 \in Irq
  BY InterruptsAssumption DEF IRQ15, Cause, Irq
<1>4. idt = FullTable /\ frames \in Seq(FrameType) /\ stack \in Seq(WordType)
  BY <1>1, <1>2 DEF BootInv, CpuType
<1>5. /\ ~IF_' /\ frames' = Append(frames, f) /\ f \in FrameType
      /\ stack' = stack \o Pushed(IF IF_ THEN 1 ELSE 0, v, "fault")
      /\ UNCHANGED <<idt, pit, boot, regs, system_ticks, reader>>
      /\ CpuType'
  BY <1>1, <1>3, <1>2, <1>4, Entered
<1>6. RightFrame(f)
  BY <1>3 DEF RightFrame, EntryFrame
<1>7. f.at = "entry" /\ f.cause = "fault" /\ f.vector = v
  BY DEF EntryFrame
<1> HIDE DEF f
<1>8. /\ Len(frames') = Len(frames) + 1 /\ frames'[Len(frames')] = f
      /\ \A i \in 1 .. Len(frames) : frames'[i] = frames[i]
      /\ DOMAIN frames' = 1 .. Len(frames) + 1 /\ frames' # <<>>
      /\ Len(frames) \in Nat /\ DOMAIN frames = 1 .. Len(frames)
      /\ frames # <<>> => Len(frames) >= 1
      /\ frames = <<>> => frames'[1] = f
  BY <1>4, <1>5
<1>9. pc' = pc
  BY <1>5 DEF boot
<1>10. FramesInv'
  BY <1>1, <1>2, <1>6, <1>7, <1>8, <1>9 DEF FramesInv
<1>11. FlagInv'
  BY <1>5, <1>8, Zenon DEF FlagInv, MainRuns
<1>12. (InService' <=> InService) /\ (OnItsWay' <=> OnItsWay)
  BY <1>7, <1>8 DEF InService, OnItsWay
<1>13. ServiceInv' /\ CountInv'
  BY <1>1, <1>2, <1>5, <1>12 DEF ServiceInv, CountInv, chips
<1>14. StackInv'
  <2>1. Top' = f
    BY <1>8 DEF Top
  <2>2. ASSUME v \in CpuError
        PROVE  Len(stack') > 0 /\ stack'[Len(stack')] = Word("error", 1)
    <3>1. PICK flag \in {0, 1} : stack' = stack \o Pushed(flag, v, "fault")
      BY <1>5
    <3> DEFINE A == <<Word("eflags", flag), Word("cs", 0), Word("eip", 0)>>
               P == Pushed(flag, v, "fault")
    <3>2. P = A \o <<Word("error", 1)>>
      BY <2>2 DEF Pushed
    <3>3. A \in Seq(WordType) /\ Len(A) = 3
      <4>1. Word("eflags", flag) \in WordType
        BY WordTypes
      <4>2. QED BY <4>1, WordTypes
    <3> HIDE DEF A
    <3>4. P \in Seq(WordType) /\ Len(P) = 4 /\ P[4] = Word("error", 1)
      <4> DEFINE t == <<Word("error", 1)>>
      <4>1. t \in Seq(WordType) /\ Len(t) = 1 /\ t[1] = Word("error", 1)
        BY WordTypes
      <4>2. P = A \o t
        BY <3>2
      <4> HIDE DEF t
      <4>3. /\ A \o t \in Seq(WordType) /\ Len(A \o t) = Len(A) + Len(t)
            /\ (A \o t)[Len(A) + Len(t)] = t[Len(t)]
        <5>1. Len(t) > 0
          BY <4>1
        <5>2. QED BY <3>3, <4>1, <5>1, LastItem
      <4>4. Len(A) + Len(t) = 4
        BY <3>3, <4>1
      <4>5. QED BY <3>3, <4>1, <4>2, <4>3, <4>4
    <3>5. stack' = stack \o P
      BY <3>1
    <3> HIDE DEF P
    <3>6. Len(P) > 0
      BY <3>4
    <3>7. /\ Len(stack') = Len(stack) + Len(P) /\ Len(stack) \in Nat
          /\ stack'[Len(stack) + Len(P)] = P[Len(P)]
      BY <1>4, <3>4, <3>5, <3>6, LastItem
    <3>8. QED BY <3>4, <3>7
  <2>3. QED BY <1>7, <1>8, <2>1, <2>2 DEF StackInv, MainRuns
<1>15. ReaderInv' /\ BootType' /\ BootInv'
  BY <1>1, <1>2, <1>5, <1>9, BootKept, BootTypeKept DEF ReaderInv, reader, chips
<1>16. ChipType' /\ CountType'
  BY <1>1, <1>2, <1>5 DEF ChipType, CountType, chips, reader
<1>17. QED
  BY <1>5, <1>10, <1>11, <1>13, <1>14, <1>15, <1>16 DEF IInv

-----------------------------------------------------------------------------
(* The steps of a handler.                                                 *)

\* While a handler is in progress interrupts are closed, and only an exception
\* can have interrupted another handler.
LEMMA Running ==
  ASSUME IInv, frames # <<>>
  PROVE  /\ frames \in Seq(FrameType) /\ Len(frames) \in Nat /\ Len(frames) >= 1
         /\ DOMAIN frames = 1 .. Len(frames)
         /\ Top \in FrameType /\ RightFrame(Top) /\ ~IF_ /\ pc \notin Unloaded
         /\ Top.cause # "fault" => Len(frames) = 1 /\ Top = frames[1] /\ pc \in Opened
<1>1. CpuType /\ FramesInv /\ FlagInv
  BY DEF IInv
<1>2. /\ frames \in Seq(FrameType) /\ Len(frames) \in Nat /\ Len(frames) >= 1
      /\ DOMAIN frames = 1 .. Len(frames)
  BY <1>1 DEF CpuType
<1>3. Top \in FrameType /\ RightFrame(Top)
  BY <1>1, <1>2 DEF FramesInv, Top
<1>4. ~IF_ /\ pc \notin Unloaded
  BY <1>1, Zenon DEF FlagInv, MainRuns, FramesInv
<1>5. ASSUME Top.cause # "fault" PROVE Len(frames) = 1
  BY <1>1, <1>2, <1>5 DEF FramesInv, Top
<1>6. QED BY <1>1, <1>2, <1>3, <1>4, <1>5 DEF FramesInv, Top

NotAcknowledged == {"entry", "cli", "dispatch", "eoi"}

\* The running handler goes on to a place its cause leads to.
LEMMA Moved ==
  ASSUME IInv, frames # <<>>, NEW s \in Step, Goto(s), pc' = pc,
         \/ s \in {"entry", "cli", "dispatch"}
         \/ s = "halt" /\ Top.cause = "fault"
         \/ s \in {"eoi", "tick", "restore"} /\ Top.cause # "fault"
  PROVE  /\ frames' \in Seq(FrameType) /\ frames' # <<>> /\ FramesInv'
         /\ Top'.at = s /\ Top'.stub = Top.stub /\ Top'.cause = Top.cause
         /\ Top'.vector = Top.vector /\ Top'.irq = Top.irq
         /\ Len(frames) = 1 => frames'[1] = Top'
         /\ Top.cause = "fault" \/ {Top.at, s} \subseteq NotAcknowledged
              => (InService' <=> InService)
         /\ Top.cause = "fault" \/ "restore" \notin {Top.at, s} => (OnItsWay' <=> OnItsWay)
<1> DEFINE n == Len(frames)
           f == [Top EXCEPT !.at = s]
<1>1. /\ frames \in Seq(FrameType) /\ n \in Nat /\ n >= 1 /\ DOMAIN frames = 1 .. n
      /\ Top \in FrameType /\ RightFrame(Top) /\ pc \notin Unloaded
      /\ Top.cause # "fault" => n = 1 /\ Top = frames[1] /\ pc \in Opened
  BY Running
<1>2. frames' = [frames EXCEPT ![n] = f]
  BY DEF Goto, Top
<1>3. f \in FrameType
  BY <1>1 DEF FrameType
<1>4. /\ f.at = s /\ f.stub = Top.stub /\ f.cause = Top.cause /\ f.vector = Top.vector
      /\ f.irq = Top.irq
  BY <1>1 DEF FrameType
<1> HIDE DEF f
<1>5. /\ frames' \in Seq(FrameType) /\ Len(frames') = n /\ frames' # <<>>
      /\ frames'[n] = f /\ \A i \in 1 .. n - 1 : frames'[i] = frames[i]
      /\ DOMAIN frames' = 1 .. n
  <2> HIDE DEF n
  <2>1. n \in DOMAIN frames /\ n = Len(frames)
    BY <1>1 DEF n
  <2>2. /\ frames' \in Seq(FrameType) /\ Len(frames') = n
        /\ \A i \in 1 .. n : frames'[i] = IF i = n THEN f ELSE frames[i]
    BY <1>1, <1>2, <1>3, <2>1, ExceptSeq
  <2>3. QED BY <1>1, <2>2
<1>6. Top' = f
  BY <1>5 DEF Top
<1>7. RightFrame(f)
  BY <1>1, <1>4 DEF RightFrame
<1>8. Top = frames[n]
  BY DEF Top
<1>9. FramesInv
  BY DEF IInv
<1> HIDE DEF n
<1>10. FramesInv'
  <2>1. \A i \in DOMAIN frames' : RightFrame(frames'[i])
    BY <1>1, <1>5, <1>7, <1>9 DEF FramesInv
  <2>2. \A i \in 2 .. Len(frames') : frames'[i].cause = "fault"
    BY <1>1, <1>4, <1>5, <1>8, <1>9 DEF FramesInv, n
  <2>3. frames'[1].cause = frames[1].cause
    BY <1>1, <1>4, <1>5, <1>8
  <2>4. QED BY <1>9, <2>1, <2>2, <2>3 DEF FramesInv
<1>11. ASSUME Top.cause = "fault" \/ {Top.at, s} \subseteq NotAcknowledged
       PROVE  InService' <=> InService
  <2>1. CASE n = 1
    BY <1>4, <1>5, <1>8, <1>11, <2>1 DEF InService, NotAcknowledged
  <2>2. CASE n # 1
    BY <1>1, <1>5, <2>2 DEF InService
  <2>3. QED BY <2>1, <2>2
<1>12. ASSUME Top.cause = "fault" \/ "restore" \notin {Top.at, s}
       PROVE  OnItsWay' <=> OnItsWay
  <2>1. CASE n = 1
    BY <1>4, <1>5, <1>8, <1>12, <2>1 DEF OnItsWay
  <2>2. CASE n # 1
    BY <1>1, <1>5, <2>2 DEF OnItsWay
  <2>3. QED BY <2>1, <2>2
<1>13. QED
  BY <1>4, <1>5, <1>6, <1>10, <1>11, <1>12 DEF n

\* What a step of a handler leaves alone.
LEMMA HandlerFrame ==
  ASSUME IInv, frames' # <<>>, IF_' \in BOOLEAN, ~IF_', UNCHANGED <<idt, pit, boot>>,
         master'.icw = master.icw, master'.base = master.base, master'.imr = master.imr,
         slave' = slave
  PROVE  BootType' /\ BootInv' /\ FlagInv'
<1>1. BootType /\ BootInv
  BY DEF IInv
<1>2. BootType' /\ BootInv'
  BY <1>1, BootKept, BootTypeKept
<1>3. FlagInv'
  BY Zenon DEF FlagInv, MainRuns
<1>4. QED BY <1>2, <1>3

LEMMA CliStep == ASSUME IInv, cli PROVE IInv'
<1>1. /\ frames # <<>> /\ Top.at = "cli" /\ IF_' = FALSE /\ Goto("dispatch")
      /\ UNCHANGED <<idt, chips, pit, boot, stack, regs, system_ticks, reader, acked>>
  BY Zenon DEF cli, At
<1>2. /\ BootType /\ ChipType /\ CpuType /\ CountType /\ BootInv /\ FramesInv
      /\ ServiceInv /\ StackInv /\ CountInv /\ ReaderInv
  BY DEF IInv
<1>3. pc' = pc /\ master' = master /\ slave' = slave
  BY <1>1 DEF boot, chips
<1>4. "dispatch" \in Step
  BY DEF Step
<1>5. /\ frames' \in Seq(FrameType) /\ frames' # <<>> /\ FramesInv'
      /\ Top'.at = "dispatch" /\ Top'.stub = Top.stub /\ Top'.cause = Top.cause
      /\ Top'.vector = Top.vector
      /\ (InService' <=> InService) /\ (OnItsWay' <=> OnItsWay)
  BY <1>1, <1>3, <1>4, Moved DEF NotAcknowledged
<1>6. IF_' \in BOOLEAN /\ ~IF_'
  BY <1>1, Zenon
<1>7. BootType' /\ BootInv' /\ FlagInv'
  BY <1>1, <1>3, <1>5, <1>6, HandlerFrame
<1>8. ChipType' /\ CpuType' /\ CountType'
  BY <1>1, <1>2, <1>3, <1>5, <1>6 DEF ChipType, CpuType, CountType, reader
<1>9. ServiceInv' /\ CountInv' /\ ReaderInv'
  BY <1>1, <1>2, <1>3, <1>5 DEF ServiceInv, CountInv, ReaderInv, reader
<1>10. StackInv'
  BY <1>1, <1>2, <1>5 DEF StackInv, MainRuns, Readable, ErrorOf
<1>11. QED BY <1>5, <1>7, <1>8, <1>9, <1>10 DEF IInv

\* SAVE_ALL on top of the processor's words and the error code: the vector, the
\* registers, and the address of all that.
FrameOn(t, a, n, x, r, m, y) ==
  /\ t \in Seq(WordType) /\ Len(t) = n + m + 2
  /\ \A i \in 1 .. n : t[i] = a[i]
  /\ t[n + 1] = x /\ t[n + m + 2] = y
  /\ \A j \in 1 .. m : t[n + 1 + j] = r[j]

LEMMA FullFrame ==
  ASSUME NEW n \in Nat, NEW a \in Seq(WordType), Len(a) = n, NEW x \in WordType,
         NEW m \in Nat, NEW r \in Seq(WordType), Len(r) = m, NEW y \in WordType
  PROVE  FrameOn(a \o <<x>> \o r \o <<y>>, a, n, x, r, m, y)
<1>1. PICK k \in Nat : k = n + 1
  OBVIOUS
<1>2. PICK b : b = a \o <<x>>
  OBVIOUS
<1>3. /\ b \in Seq(WordType) /\ Len(b) = k /\ b[k] = x
      /\ \A i \in 1 .. n : b[i] = a[i]
  BY <1>1, <1>2, OneMore
<1>4. PICK c : c = b \o r
  OBVIOUS
<1>5. PICK l \in Nat : l = k + m
  OBVIOUS
<1>6. /\ c \in Seq(WordType) /\ Len(c) = l
      /\ \A i \in 1 .. k : c[i] = b[i]
      /\ \A i \in 1 .. m : c[k + i] = r[i]
  <2>1. b \in Seq(WordType) /\ Len(b) = k
    BY <1>3
  <2>2. b \o r \in Seq(WordType)
    BY <2>1, ConcatProperties
  <2>3. Len(b \o r) = Len(b) + Len(r)
    BY <2>1, ConcatProperties
  <2>4. \A i \in 1 .. k : (b \o r)[i] = b[i]
    BY <2>1
  <2>5. \A i \in 1 .. m : (b \o r)[k + i] = r[i]
    BY <2>1
  <2>6. QED BY <1>4, <1>5, <2>1, <2>2, <2>3, <2>4, <2>5
<1>7. PICK t : t = c \o <<y>>
  OBVIOUS
<1>8. /\ t \in Seq(WordType) /\ Len(t) = l + 1 /\ t[l + 1] = y
      /\ \A i \in 1 .. l : t[i] = c[i]
  <2>1. c \in Seq(WordType) /\ Len(c) = l
    BY <1>6
  <2>2. QED BY <1>7, <2>1, OneMore
<1>9. t = a \o <<x>> \o r \o <<y>>
  BY <1>2, <1>4, <1>7
<1>10. /\ \A i \in 1 .. n : i \in 1 .. k /\ i \in 1 .. l
       /\ k \in 1 .. k /\ k \in 1 .. l
       /\ \A j \in 1 .. m : k + j \in 1 .. l
  BY <1>1, <1>5
<1>11. /\ \A i \in 1 .. n : t[i] = a[i]
       /\ t[k] = x /\ \A j \in 1 .. m : t[k + j] = r[j]
  BY <1>3, <1>6, <1>8, <1>10
<1>12. l + 1 = n + m + 2
  BY <1>1, <1>5
<1>13. QED BY <1>1, <1>8, <1>9, <1>11, <1>12 DEF FrameOn

LEMMA SaveStep == ASSUME IInv, save_all PROVE IInv'
<1> DEFINE e == IF Top.stub \in ErrorCodeStubs THEN <<>> ELSE <<Word("error", 0)>>
           r == [i \in DOMAIN SaveOrder |-> regs[SaveOrder[i]]]
           x == Word("vector", Top.stub)
           y == Word("esp", 0)
           a == stack \o e
           m == Len(SaveOrder)
           n == Len(a)
<1>1. /\ frames # <<>> /\ Top.at = "entry" /\ Goto("cli")
      /\ stack' = stack \o e \o <<x>> \o r \o <<y>>
      /\ UNCHANGED <<IF_, idt, chips, pit, boot, regs, system_ticks, reader, acked>>
  BY DEF save_all, At
<1>2. /\ BootType /\ ChipType /\ CpuType /\ CountType /\ BootInv /\ FramesInv
      /\ ServiceInv /\ StackInv /\ CountInv /\ ReaderInv
  BY DEF IInv
<1>3. Top \in FrameType /\ RightFrame(Top) /\ ~IF_
  BY <1>1, Running
<1>4. pc' = pc /\ master' = master /\ slave' = slave
  BY <1>1 DEF boot, chips
<1>5. /\ frames' \in Seq(FrameType) /\ frames' # <<>> /\ FramesInv'
      /\ Top'.at = "cli" /\ Top'.stub = Top.stub /\ Top'.cause = Top.cause
      /\ Top'.vector = Top.vector
      /\ (InService' <=> InService) /\ (OnItsWay' <=> OnItsWay)
  <2>1. "cli" \in Step
    BY DEF Step
  <2>2. QED BY <1>1, <1>4, <2>1, Moved DEF NotAcknowledged
<1>6. /\ stack \in Seq(WordType) /\ e \in Seq(WordType) /\ x \in WordType
      /\ y \in WordType /\ r \in Seq(WordType) /\ Len(r) = 12
      /\ \A i \in 1 .. 12 : r[i] = regs[SaveOrder[i]]
  <2>1. stack \in Seq(WordType)
    BY <1>2 DEF CpuType
  <2>2. e \in Seq(WordType)
    BY WordTypes
  <2>3. x \in WordType /\ y \in WordType
    <3>1. Top.stub \in Vector
      BY <1>3 DEF RightFrame, FrameType, Vector, IRQ0, IRQ7
    <3>2. QED BY <3>1, WordTypes, Registers
  <2>4. \A i \in 1 .. 12 : SaveOrder[i] \in Reg
    BY DEF Reg, SaveOrder
  <2>5. regs \in [Reg -> WordType]
    BY <1>2 DEF CpuType
  <2>6. DOMAIN SaveOrder = 1 .. 12
    BY DEF SaveOrder
  <2>7. r = [i \in 1 .. 12 |-> regs[SaveOrder[i]]]
    BY <2>6
  <2>8. QED BY <2>1, <2>2, <2>3, <2>4, <2>5, <2>7
<1> HIDE DEF r, y
<1>7. /\ stack' \in Seq(WordType) /\ Len(stack') = n + 14
      /\ n \in Nat /\ n = Len(stack) + Len(e)
      /\ \A i \in 1 .. Len(stack) : stack'[i] = stack[i]
      /\ \A i \in 1 .. Len(e) : stack'[Len(stack) + i] = e[i]
      /\ stack'[n + 1] = x /\ stack'[n + 14] = y
      /\ \A j \in 1 .. 12 : stack'[n + 1 + j] = r[j]
  <2>1. stack' = a \o <<x>> \o r \o <<y>>
    BY <1>1
  <2>2. m = 12 /\ Len(r) = m
    BY <1>6 DEF SaveOrder
  <2> HIDE DEF e, x, m
  <2>3. /\ a \in Seq(WordType) /\ n = Len(stack) + Len(e)
        /\ \A i \in 1 .. n : a[i] = IF i <= Len(stack) THEN stack[i] ELSE e[i - Len(stack)]
    BY <1>6, ConcatProperties
  <2>4. Len(stack) \in Nat /\ Len(e) \in Nat /\ n \in Nat /\ m \in Nat
    BY <1>6, <2>2, <2>3
  <2> HIDE DEF a
  <2>5. /\ stack' \in Seq(WordType) /\ Len(stack') = n + m + 2
        /\ \A i \in 1 .. n : stack'[i] = a[i]
        /\ stack'[n + 1] = x /\ stack'[n + m + 2] = y
        /\ \A j \in 1 .. m : stack'[n + 1 + j] = r[j]
    <3> HIDE DEF n
    <3>1. Len(a) = n
      BY DEF n
    <3>2. /\ x \in WordType /\ y \in WordType /\ r \in Seq(WordType) /\ Len(r) = m
          /\ a \in Seq(WordType) /\ n \in Nat /\ m \in Nat
      BY <1>6, <2>2, <2>3, <2>4
    <3>3. FrameOn(a \o <<x>> \o r \o <<y>>, a, n, x, r, m, y)
      BY <3>1, <3>2, FullFrame, Zenon
    <3>4. QED BY <2>1, <3>3 DEF FrameOn
  <2>6. /\ \A i \in 1 .. Len(stack) : i \in 1 .. n /\ i <= Len(stack)
        /\ \A i \in 1 .. Len(e) : /\ Len(stack) + i \in 1 .. n
                                  /\ ~(Len(stack) + i <= Len(stack))
                                  /\ Len(stack) + i - Len(stack) = i
    BY <2>3, <2>4
  <2>7. n + m + 2 = n + 14
    BY <2>2, <2>4
  <2>8. \A i \in 1 .. Len(stack) : stack'[i] = stack[i]
    BY <2>3, <2>5, <2>6
  <2>9. \A i \in 1 .. Len(e) : stack'[Len(stack) + i] = e[i]
    <3> TAKE i \in 1 .. Len(e)
    <3> DEFINE k == Len(stack) + i
    <3>1. k \in 1 .. n /\ ~(k <= Len(stack)) /\ k - Len(stack) = i
      BY <2>6
    <3>2. a[k] = e[i]
      BY <2>3, <3>1
    <3>3. QED BY <2>5, <3>1, <3>2
  <2>10. /\ stack'[n + 14] = y /\ Len(stack') = n + 14
         /\ \A j \in 1 .. 12 : stack'[n + 1 + j] = r[j]
    BY <2>2, <2>5, <2>7
  <2>11. QED BY <2>3, <2>4, <2>5, <2>8, <2>9, <2>10
<1> HIDE DEF x, n, a, m
<1>8. StackInv'
  <2>1. CASE Top.cause # "fault"
    <3>1. stack = Interrupted /\ regs = Mine
      BY <1>1, <1>2, <2>1 DEF StackInv
    <3>2. e = <<Word("error", 0)>>
      BY <1>3, <2>1 DEF RightFrame, ErrorCodeStubs, IRQ0, IRQ7
    <3> HIDE DEF e
    <3>3. n = 4
      BY <1>7, <3>1, <3>2 DEF Interrupted
    <3>4. /\ stack'[1] = Word("eflags", 1) /\ stack'[2] = Word("cs", 0)
          /\ stack'[3] = Word("eip", 0) /\ stack'[4] = Word("error", 0)
          /\ stack'[5] = Word("vector", Top.stub)
      <4>1. Len(stack) = 3 /\ stack[1] = Word("eflags", 1) /\ stack[2] = Word("cs", 0)
            /\ stack[3] = Word("eip", 0) /\ Len(e) = 1 /\ e[1] = Word("error", 0)
        BY <3>1, <3>2 DEF Interrupted
      <4>2. QED BY <1>7, <3>3, <4>1 DEF x
    <3>5. \A i \in 1 .. 12 : r[i] = Word(SaveOrder[i], 0)
      <4>1. \A i \in 1 .. 12 : SaveOrder[i] \in Reg
        BY DEF Reg, SaveOrder
      <4>2. QED BY <1>6, <3>1, <4>1 DEF Mine
    <3>6. /\ stack'[6] = Word("eax", 0)  /\ stack'[7] = Word("ecx", 0)
          /\ stack'[8] = Word("edx", 0)  /\ stack'[9] = Word("ebx", 0)
          /\ stack'[10] = Word("esp", 0) /\ stack'[11] = Word("ebp", 0)
          /\ stack'[12] = Word("esi", 0) /\ stack'[13] = Word("edi", 0)
          /\ stack'[14] = Word("ds", 0)  /\ stack'[15] = Word("es", 0)
          /\ stack'[16] = Word("fs", 0)  /\ stack'[17] = Word("gs", 0)
      <4>1. \A j \in 1 .. 12 : stack'[5 + j] = Word(SaveOrder[j], 0)
        <5>1. n + 1 = 5
          BY <3>3
        <5>2. QED BY <1>7, <3>5, <5>1
      <4>2. /\ SaveOrder[1] = "eax" /\ SaveOrder[2] = "ecx" /\ SaveOrder[3] = "edx"
            /\ SaveOrder[4] = "ebx" /\ SaveOrder[5] = "esp" /\ SaveOrder[6] = "ebp"
            /\ SaveOrder[7] = "esi" /\ SaveOrder[8] = "edi" /\ SaveOrder[9] = "ds"
            /\ SaveOrder[10] = "es" /\ SaveOrder[11] = "fs" /\ SaveOrder[12] = "gs"
        BY DEF SaveOrder
      <4>3. QED BY <4>1, <4>2
    <3>7. stack'[18] = Word("esp", 0) /\ Len(stack') = 18
      <4>1. n + 14 = 18
        BY <3>3
      <4>2. QED BY <1>7, <4>1 DEF y
    <3>8. stack' = Saved(Top.stub)
      <4> DEFINE w == Saved(Top.stub)
      <4>1. Len(w) = 18 /\ \A i \in 1 .. 18 : stack'[i] = w[i]
        BY <3>4, <3>6, <3>7 DEF Saved
      <4>2. w \in Seq(WordType)
        BY <1>6, WordTypes, Registers DEF Saved, x
      <4> HIDE DEF w
      <4>3. stack' = w
        BY <1>7, <3>7, <4>1, <4>2, SeqEqual
      <4>4. QED BY <4>3 DEF w
    <3>9. regs' = Mine /\ regs'["esp"] = Word("esp", 0)
      BY <1>1, <3>1, Registers DEF Mine
    <3>10. QED BY <1>5, <2>1, <3>8, <3>9 DEF StackInv, MainRuns
  <2>2. CASE Top.cause = "fault"
    <3>1. Top.stub = Top.vector
      BY <1>3, <2>2 DEF RightFrame
    <3>2. stack'[n] = ErrorOf(Top) /\ n >= 1
      <4>1. CASE Top.vector \in CpuError
        <5>1. Len(e) = 0
          BY <3>1, <4>1 DEF CpuError, ErrorCodeStubs
        <5>2. Len(stack) > 0 /\ stack[Len(stack)] = Word("error", 1)
          BY <1>1, <1>2, <2>2, <4>1 DEF StackInv
        <5>3. n = Len(stack) /\ n \in 1 .. Len(stack)
          BY <1>6, <1>7, <5>1, <5>2
        <5>4. stack'[n] = Word("error", 1)
          BY <1>7, <5>2, <5>3
        <5>5. QED BY <2>2, <4>1, <5>3, <5>4 DEF ErrorOf
      <4>2. CASE Top.vector \notin CpuError
        <5>1. Len(e) = 1 /\ e[1] = Word("error", 0)
          BY <3>1, <4>2 DEF CpuError, ErrorCodeStubs
        <5>2. n = Len(stack) + 1 /\ n >= 1 /\ 1 \in 1 .. Len(e)
          BY <1>6, <1>7, <5>1
        <5>3. stack'[n] = Word("error", 0)
          BY <1>7, <5>1, <5>2
        <5>4. QED BY <4>2, <5>2, <5>3 DEF ErrorOf
      <4>3. QED BY <4>1, <4>2
    <3>3. Len(stack') >= 15 /\ Len(stack') - 13 = n + 1 /\ Len(stack') - 14 = n
      BY <1>7, <3>2
    <3>4. ErrorOf(Top)' = ErrorOf(Top)
      BY <1>5 DEF ErrorOf
    <3>5. Readable(Top)'
      BY <1>5, <1>7, <3>2, <3>3, <3>4 DEF Readable, x
    <3>6. QED BY <1>5, <2>2, <3>5 DEF StackInv, MainRuns
  <2>3. QED BY <2>1, <2>2
<1>9. IF_' \in BOOLEAN /\ ~IF_'
  BY <1>1, <1>2, <1>3, Zenon DEF CpuType
<1>10. BootType' /\ BootInv' /\ FlagInv'
  BY <1>1, <1>4, <1>5, <1>9, HandlerFrame
<1>11. ChipType' /\ CpuType' /\ CountType'
  BY <1>1, <1>2, <1>4, <1>5, <1>7, <1>9 DEF ChipType, CpuType, CountType, reader
<1>12. ServiceInv' /\ CountInv' /\ ReaderInv'
  BY <1>1, <1>2, <1>4, <1>5 DEF ServiceInv, CountInv, ReaderInv, reader
<1>13. QED BY <1>5, <1>8, <1>10, <1>11, <1>12 DEF IInv

\* The words of struct pt_regs, and those RESTORE_ALL pops.
LEMMA SavedFields ==
  ASSUME NEW stub, stack = Saved(stub)
  PROVE  /\ Len(stack) = 18
         /\ Field("int_no") = Word("vector", stub) /\ Field("err_code") = Word("error", 0)
         /\ Field("eflags") = Word("eflags", 1)
<1>1. /\ Len(stack) = 18 /\ stack[5] = Word("vector", stub) /\ stack[4] = Word("error", 0)
      /\ stack[1] = Word("eflags", 1)
  BY DEF Saved
<1>2. QED BY <1>1, Places DEF Field

\* interrupt_handler reads the vector of its own stub.
LEMMA VectorRead ==
  ASSUME IInv, frames # <<>>, Top.at \in {"dispatch", "eoi", "tick"}
  PROVE  /\ int_no = Top.stub
         /\ Field("err_code") = ErrorOf(Top)
<1>1. StackInv /\ RightFrame(Top)
  BY Running DEF IInv
<1>2. CASE Top.cause # "fault"
  <2>1. stack = Saved(Top.stub)
    BY <1>1, <1>2 DEF StackInv
  <2>2. Field("int_no") = Word("vector", Top.stub) /\ Field("err_code") = Word("error", 0)
    BY <2>1, SavedFields
  <2>3. QED BY <1>2, <2>2 DEF int_no, Word, ErrorOf
<1>3. CASE Top.cause = "fault"
  <2>1. Readable(Top)
    BY <1>1, <1>3 DEF StackInv, RightFrame
  <2>2. Field("int_no") = Word("vector", Top.stub) /\ Field("err_code") = ErrorOf(Top)
    BY <2>1, Places DEF Readable, Field
  <2>3. QED BY <2>2 DEF int_no, Word
<1>4. QED BY <1>2, <1>3

LEMMA DispatchStep == ASSUME IInv, interrupt_handler PROVE IInv'
<1> DEFINE s == Branch(int_no)
<1>1. /\ frames # <<>> /\ Top.at = "dispatch" /\ Goto(s)
      /\ regs' = [r \in Reg |-> IF r \in {"eax", "ecx", "edx"} THEN Word("handler", 0)
                                ELSE regs[r]]
      /\ UNCHANGED <<IF_, idt, chips, pit, boot, stack, system_ticks, reader, acked>>
  BY DEF interrupt_handler, At
<1>2. /\ BootType /\ ChipType /\ CpuType /\ CountType /\ BootInv /\ FramesInv
      /\ ServiceInv /\ StackInv /\ CountInv /\ ReaderInv
  BY DEF IInv
<1>3. Top \in FrameType /\ RightFrame(Top) /\ ~IF_
  BY <1>1, Running
<1>4. pc' = pc /\ master' = master /\ slave' = slave
  BY <1>1 DEF boot, chips
<1>5. s = IF Top.cause = "fault" THEN "halt" ELSE "eoi"
  <2>1. int_no = Top.stub
    BY <1>1, VectorRead
  <2>2. Top.stub \in Nat
    BY <1>3 DEF FrameType, Stub, NoStub
  <2>3. QED BY <1>3, <2>1, <2>2 DEF RightFrame, Branch, IRQ0, IRQ7, IRQ15
<1> HIDE DEF s
<1>6. /\ frames' \in Seq(FrameType) /\ frames' # <<>> /\ FramesInv'
      /\ Top'.at = s /\ Top'.stub = Top.stub /\ Top'.cause = Top.cause
      /\ (InService' <=> InService) /\ (OnItsWay' <=> OnItsWay)
  <2>1. s \in Step
    BY <1>5 DEF Step
  <2>2. QED BY <1>1, <1>4, <1>5, <2>1, Moved DEF NotAcknowledged
<1>7. regs' \in [Reg -> WordType] /\ regs'["esp"] = regs["esp"]
  BY <1>1, <1>2, WordTypes, Registers DEF CpuType
<1>8. StackInv'
  <2>1. Top'.at \notin {"entry", "cli", "dispatch"}
    BY <1>5, <1>6
  <2>2. QED BY <1>1, <1>2, <1>6, <1>7, <2>1 DEF StackInv, MainRuns
<1>9. IF_' \in BOOLEAN /\ ~IF_'
  BY <1>1, <1>2, <1>3, Zenon DEF CpuType
<1>10. BootType' /\ BootInv' /\ FlagInv'
  BY <1>1, <1>4, <1>6, <1>9, HandlerFrame
<1>11. ChipType' /\ CpuType' /\ CountType'
  BY <1>1, <1>2, <1>4, <1>6, <1>7, <1>9 DEF ChipType, CpuType, CountType, reader
<1>12. ServiceInv' /\ CountInv' /\ ReaderInv'
  BY <1>1, <1>2, <1>4, <1>6 DEF ServiceInv, CountInv, ReaderInv, reader
<1>13. QED BY <1>6, <1>8, <1>10, <1>11, <1>12 DEF IInv

\* The EOI retires the timer's line, and does nothing when nothing is in service.
LEMMA EoiSent ==
  ASSUME NEW c \in Chip, c.isr \subseteq {0}
  PROVE  /\ Command(c, 32) \in Chip /\ Command(c, 32).isr = {}
         /\ Command(c, 32).icw = c.icw /\ Command(c, 32).base = c.base
         /\ Command(c, 32).imr = c.imr
<1>1. CASE c.isr = {}
  BY <1>1, CommandBits DEF Command
<1>2. CASE c.isr = {0}
  <2> DEFINE d == [c EXCEPT !.isr = {}]
  <2>1. c.isr \ {Highest(c.isr)} = {}
    BY <1>2, HighestZero
  <2>2. Command(c, 32) = [c EXCEPT !.isr = c.isr \ {Highest(c.isr)}]
    BY <1>2, CommandBits DEF Command
  <2>3. Command(c, 32) = d
    BY <2>1, <2>2
  <2>4. d \in Chip
    BY DEF Chip
  <2>5. d.isr = {} /\ d.icw = c.icw /\ d.base = c.base /\ d.imr = c.imr
    BY DEF Chip
  <2>6. QED BY <2>3, <2>4, <2>5
<1>3. QED BY <1>1, <1>2

LEMMA EoiStep == ASSUME IInv, pic_send_eoi PROVE IInv'
<1>1. /\ frames # <<>> /\ Top.at = "eoi" /\ Goto("tick")
      /\ slave' = IF int_no < IRQ8 THEN slave ELSE Command(slave, 32)
      /\ master' = Command(master, 32)
      /\ UNCHANGED <<IF_, idt, pit, boot, stack, regs, system_ticks, reader, acked>>
  BY DEF pic_send_eoi, At
<1>2. /\ BootType /\ ChipType /\ CpuType /\ CountType /\ BootInv /\ FramesInv
      /\ ServiceInv /\ StackInv /\ CountInv /\ ReaderInv
  BY DEF IInv
<1>3. /\ Top \in FrameType /\ RightFrame(Top) /\ ~IF_
      /\ Top.cause # "fault" => Len(frames) = 1 /\ Top = frames[1]
  BY <1>1, Running
<1>4. Top.cause # "fault" /\ Len(frames) = 1 /\ pc' = pc
  BY <1>1, <1>3 DEF RightFrame, boot
<1>5. slave' = slave
  <2>1. int_no = Top.stub
    BY <1>1, VectorRead
  <2>2. QED BY <1>1, <1>3, <1>4, <2>1 DEF RightFrame, IRQ0, IRQ7, IRQ8
<1>6. /\ frames' \in Seq(FrameType) /\ frames' # <<>> /\ FramesInv'
      /\ Top'.at = "tick" /\ Top'.stub = Top.stub /\ Top'.cause = Top.cause
      /\ frames'[1] = Top' /\ (OnItsWay' <=> OnItsWay)
  <2>1. "tick" \in Step
    BY DEF Step
  <2>2. QED BY <1>1, <1>4, <2>1, Moved
<1>7. /\ master' \in Chip /\ master'.isr = {}
      /\ master'.icw = master.icw /\ master'.base = master.base /\ master'.imr = master.imr
  <2>1. master \in Chip /\ master.isr \subseteq {0}
    BY <1>2 DEF ChipType, ServiceInv
  <2>2. QED BY <1>1, <2>1, EoiSent
<1>8. ServiceInv'
  BY <1>2, <1>5, <1>6, <1>7 DEF ServiceInv, InService
<1>9. StackInv'
  BY <1>1, <1>2, <1>4, <1>6 DEF StackInv, MainRuns
<1>10. IF_' \in BOOLEAN /\ ~IF_'
  BY <1>1, <1>2, <1>3, Zenon DEF CpuType
<1>11. BootType' /\ BootInv' /\ FlagInv'
  BY <1>1, <1>5, <1>6, <1>7, <1>10, HandlerFrame
<1>12. ChipType' /\ CpuType' /\ CountType'
  BY <1>1, <1>2, <1>5, <1>6, <1>7, <1>10 DEF ChipType, CpuType, CountType, reader
<1>13. CountInv' /\ ReaderInv'
  BY <1>1, <1>2, <1>4, <1>6 DEF CountInv, ReaderInv, reader
<1>14. QED BY <1>6, <1>8, <1>9, <1>11, <1>12, <1>13 DEF IInv

LEMMA TickStep == ASSUME IInv, timer_handler PROVE IInv'
<1>1. /\ frames # <<>> /\ Top.at = "tick" /\ Goto("restore")
      /\ system_ticks' = Counted(int_no)
      /\ late' = (late \/ /\ pc \in {"read", "read_second"}
                          /\ system_ticks' > BootTicks + round + 1)
      /\ UNCHANGED <<IF_, idt, chips, pit, boot, stack, regs, half, last_tick, round, acked>>
  BY Zenon DEF timer_handler, At
<1>2. /\ BootType /\ ChipType /\ CpuType /\ CountType /\ BootInv /\ FramesInv
      /\ ServiceInv /\ StackInv /\ CountInv /\ ReaderInv
  BY DEF IInv
<1>3. /\ Top \in FrameType /\ RightFrame(Top) /\ ~IF_
      /\ Top.cause # "fault" => Len(frames) = 1 /\ Top = frames[1]
  BY <1>1, Running
<1>4. /\ Top.cause # "fault" /\ Len(frames) = 1 /\ Top = frames[1]
      /\ pc' = pc /\ master' = master /\ slave' = slave
  BY <1>1, <1>3 DEF RightFrame, boot, chips
<1>5. /\ frames' \in Seq(FrameType) /\ frames' # <<>> /\ FramesInv'
      /\ Top'.at = "restore" /\ Top'.stub = Top.stub /\ Top'.cause = Top.cause
      /\ frames'[1] = Top'
  <2>1. "restore" \in Step
    BY DEF Step
  <2>2. QED BY <1>1, <1>4, <2>1, Moved
<1>6. ~InService /\ ~InService' /\ ~OnItsWay' /\ (OnItsWay <=> Top.cause = "irq")
  BY <1>1, <1>4, <1>5 DEF InService, OnItsWay
<1>7. system_ticks' = IF OnItsWay THEN Next1(system_ticks) ELSE system_ticks
  <2>1. int_no = Top.stub
    BY <1>1, VectorRead
  <2>2. QED BY <1>1, <1>3, <1>4, <1>6, <2>1 DEF RightFrame, Counted, IRQ0, IRQ7
<1>8. /\ system_ticks \in Tick /\ last_tick \in Tick /\ system_ticks' \in Tick
      /\ round \in 0 .. Rounds - 1 /\ late \in BOOLEAN /\ half \in Loaded
  BY <1>2, <1>7, NextTick DEF CountType
<1>9. CountInv'
  BY <1>1, <1>2, <1>6, <1>7 DEF CountInv
<1>10. late' \in BOOLEAN
  BY <1>1, <1>8, Zenon
<1>11. ReaderInv'
  <2>1. pc \in Opened
    BY <1>2, <1>4 DEF FramesInv
  <2>2. CASE pc = "hlt" \/ late'
    BY <1>4, <2>2 DEF ReaderInv
  <2>3. CASE pc # "hlt" /\ ~late'
    <3>1. pc \in {"read", "read_second"} /\ ~late
      BY <1>1, <2>1, <2>3, Zenon DEF Opened
    <3>2. ~(system_ticks' > BootTicks + round + 1)
      BY <1>1, <2>3, <3>1, Zenon
    <3>3. system_ticks' <= BootTicks + round + 1
      BY <1>8, <3>2, InterruptsAssumption, WordPositive DEF Tick
    <3>4. last_tick <= system_ticks /\ system_ticks <= BootTicks + round + 1
      BY <1>2, <3>1 DEF ReaderInv
    <3>5. system_ticks <= system_ticks'
      BY <1>2, <1>7, <1>8, <3>4, TickGrows, WordPositive DEF Tick
    <3>6. last_tick <= system_ticks'
      BY <1>8, <3>4, <3>5, WordPositive DEF Tick
    <3>7. ASSUME pc = "read_second"
          PROVE  \/ half.which = "low" /\ last_tick <= half.value /\ half.value <= system_ticks'
                 \/ half.which = "high" /\ half.value = 0
      <4>1. \/ half.which = "low" /\ last_tick <= half.value /\ half.value <= system_ticks
            \/ half.which = "high" /\ half.value = 0
        BY <1>2, <3>1, <3>7 DEF ReaderInv
      <4>2. half.value \in Nat
        BY <1>8, WordPositive DEF Loaded, HalfTick
      <4>3. half.value <= system_ticks => half.value <= system_ticks'
        BY <1>8, <3>5, <4>2, WordPositive DEF Tick
      <4>4. QED BY <4>1, <4>3
    <3>8. QED BY <1>1, <1>4, <3>3, <3>6, <3>7 DEF ReaderInv
  <2>4. QED BY <2>2, <2>3
<1>12. ServiceInv'
  BY <1>2, <1>4, <1>6 DEF ServiceInv
<1>13. StackInv'
  BY <1>1, <1>2, <1>4, <1>5 DEF StackInv, MainRuns
<1>14. IF_' \in BOOLEAN /\ ~IF_'
  BY <1>1, <1>2, <1>3, Zenon DEF CpuType
<1>15. BootType' /\ BootInv' /\ FlagInv'
  BY <1>1, <1>4, <1>5, <1>14, HandlerFrame
<1>16. ChipType' /\ CpuType' /\ CountType'
  BY <1>1, <1>2, <1>4, <1>5, <1>8, <1>10, <1>14 DEF ChipType, CpuType, CountType
<1>17. QED BY <1>5, <1>9, <1>11, <1>12, <1>13, <1>15, <1>16 DEF IInv

\* RESTORE_ALL and iret give kernel_main everything back.
LEMMA RestoreStep == ASSUME IInv, restore_all PROVE IInv'
<1>1. /\ frames # <<>> /\ Top.at = "restore"
      /\ regs' = [r \in Reg |-> IF r = "esp" THEN regs[r]
                                ELSE stack[Len(stack) - Place(PopOrder, r)]]
      /\ IF_' = (Field("eflags")[2] = 1)
      /\ stack' = SubSeq(stack, 1, Len(stack) - Len(PtRegs) - 1)
      /\ frames' = SubSeq(frames, 1, Len(frames) - 1)
      /\ UNCHANGED <<idt, chips, pit, boot, system_ticks, reader, acked>>
  BY Zenon DEF restore_all, At
<1>2. /\ BootType /\ ChipType /\ CpuType /\ CountType /\ BootInv /\ FramesInv
      /\ ServiceInv /\ StackInv /\ CountInv /\ ReaderInv
  BY DEF IInv
<1>3. /\ RightFrame(Top) /\ frames \in Seq(FrameType)
      /\ Top.cause # "fault" => Len(frames) = 1 /\ Top = frames[1] /\ pc \in Opened
  BY <1>1, Running
<1>4. /\ Top.cause # "fault" /\ Len(frames) = 1 /\ Top = frames[1] /\ pc \in Opened
      /\ pc' = pc /\ master' = master /\ slave' = slave
  BY <1>1, <1>3 DEF RightFrame, boot, chips
<1>5. stack = Saved(Top.stub) /\ regs["esp"] = Word("esp", 0)
  BY <1>1, <1>2, <1>4 DEF StackInv
<1>6. Len(stack) = 18 /\ Field("eflags") = Word("eflags", 1)
  BY <1>5, SavedFields
<1>7. frames' = <<>> /\ stack' = <<>>
  <2>1. Len(frames) - 1 = 0 /\ Len(stack) - Len(PtRegs) - 1 = 0
    BY <1>4, <1>6, Places
  <2>2. \A s : SubSeq(s, 1, 0) = <<>>
    OBVIOUS
  <2>3. QED BY <1>1, <2>1, <2>2
<1>8. regs' = Mine
  <2>1. \A r \in Reg \ {"esp"} : stack[18 - Place(PopOrder, r)] = Word(r, 0)
    <3>1. /\ stack[6] = Word("eax", 0)  /\ stack[7] = Word("ecx", 0)
          /\ stack[8] = Word("edx", 0)  /\ stack[9] = Word("ebx", 0)
          /\ stack[11] = Word("ebp", 0) /\ stack[12] = Word("esi", 0)
          /\ stack[13] = Word("edi", 0) /\ stack[14] = Word("ds", 0)
          /\ stack[15] = Word("es", 0)  /\ stack[16] = Word("fs", 0)
          /\ stack[17] = Word("gs", 0)
      BY <1>5 DEF Saved
    <3>2. QED BY <3>1, PopPlaces, Registers
  <2>2. \A r \in Reg : regs'[r] = Word(r, 0)
    BY <1>1, <1>5, <1>6, <2>1
  <2>3. QED BY <1>1, <2>2 DEF Mine
<1>9. IF_' = TRUE
  <2>1. Field("eflags")[2] = 1
    BY <1>6 DEF Word
  <2>2. QED BY <1>1, <2>1, Zenon
<1>10. FramesInv' /\ StackInv'
  BY <1>7, <1>8 DEF FramesInv, StackInv, MainRuns
<1>11. FlagInv'
  BY <1>4, <1>7, <1>9, Zenon DEF FlagInv, MainRuns
<1>12. ~InService /\ ~InService' /\ ~OnItsWay /\ ~OnItsWay'
  BY <1>1, <1>4, <1>7 DEF InService, OnItsWay
<1>13. ServiceInv' /\ CountInv' /\ ReaderInv'
  BY <1>1, <1>2, <1>4, <1>12 DEF ServiceInv, CountInv, ReaderInv, reader
<1>14. BootType' /\ BootInv'
  BY <1>1, <1>2, <1>4, BootKept, BootTypeKept
<1>15. ChipType' /\ CountType'
  BY <1>1, <1>2, <1>4 DEF ChipType, CountType, reader
<1>16. CpuType'
  <2>1. Mine \in [Reg -> WordType]
    BY WordTypes DEF Mine
  <2>2. <<>> \in Seq(WordType) /\ <<>> \in Seq(FrameType)
    BY EmptySeq
  <2>3. IF_' \in BOOLEAN
    BY <1>9, Zenon
  <2>4. QED BY <1>7, <1>8, <2>1, <2>2, <2>3, Zenon DEF CpuType
<1>17. QED BY <1>10, <1>11, <1>13, <1>14, <1>15, <1>16 DEF IInv

LEMMA StutterStep == ASSUME IInv, UNCHANGED vars PROVE IInv'
<1>1. /\ UNCHANGED <<IF_, idt, master, slave, pit, pc, out, saved, stack, regs, frames>>
      /\ UNCHANGED <<system_ticks, half, last_tick, round, late, acked>>
  BY DEF vars, chips, boot, cpu, reader
<1>2. /\ BootType /\ ChipType /\ CpuType /\ CountType /\ BootInv /\ FramesInv /\ FlagInv
      /\ ServiceInv /\ StackInv /\ CountInv /\ ReaderInv
  BY DEF IInv
<1>3. BootType' /\ BootInv'
  BY <1>1, <1>2, BootKept, BootTypeKept DEF boot
<1>4. ChipType' /\ CpuType' /\ CountType'
  BY <1>1, <1>2 DEF ChipType, CpuType, CountType
<1>5. FramesInv' /\ ServiceInv' /\ StackInv' /\ CountInv'
  BY <1>1, <1>2, HandlersKept DEF cpu
<1>6. FlagInv' /\ ReaderInv'
  BY <1>1, <1>2, Zenon DEF FlagInv, MainRuns, ReaderInv
<1>7. QED BY <1>2, <1>3, <1>4, <1>5, <1>6 DEF IInv

-----------------------------------------------------------------------------
(* The theorems.                                                           *)

\* Every step of the processor, of kernel_main, of a handler and of a device
\* keeps what the interrupt path relies on.
THEOREM InterruptsInvariance == Spec => []IInv
<1>1. Init => IInv
  BY InitInv
<1>2. IInv /\ [Next]_vars => IInv'
  <2> SUFFICES ASSUME IInv, [Next]_vars PROVE IInv'
    OBVIOUS
  <2>1. CASE kernel_main
    BY <2>1, InitStep, OutbStep, ReadStep DEF kernel_main, interrupt_init, timer_loop
  <2>2. CASE handler
    BY <2>2, SaveStep, CliStep, DispatchStep, EoiStep, TickStep, RestoreStep DEF handler
  <2>3. CASE \E irq \in Devices : raise(irq)
    BY <2>3, RaiseStep
  <2>4. CASE deliver
    BY <2>4, DeliverStep
  <2>5. CASE deliver_spurious
    BY <2>5, SpuriousStep
  <2>6. CASE \E v \in Faults : fault(v)
    BY <2>6, FaultStep
  <2>7. CASE UNCHANGED vars
    BY <2>7, StutterStep
  <2>8. QED BY <2>1, <2>2, <2>3, <2>4, <2>5, <2>6, <2>7 DEF Next
<1>3. QED BY <1>1, <1>2, PTL DEF Spec

\* Every variable keeps its type: the counter stays in its two words, both chips
\* and the timer in their registers, the stack and the frames among the words and
\* places there are.
THEOREM InterruptsTypes == Spec => []TypeOK
BY InterruptsInvariance, Types, PTL

\* Interrupts are open only after interrupt_init has put everything in place,
\* whatever masks the firmware left (interrupt.c:54, 131-138).
THEOREM OpenOnlyConfigured == Spec => []Configured
<1>1. IInv => Configured
  <2> SUFFICES ASSUME IInv, IF_
               PROVE  /\ \A v \in 0 .. IRQ15 : idt[v] = Gate(v, 142)
                      /\ master.icw = 0 /\ slave.icw = 0
                      /\ master.base = IRQ0 /\ slave.base = IRQ8
                      /\ pit.divisor = Divisor
                      /\ Bits(master.imr) = Line \ {0} /\ Bits(slave.imr) = Line
    BY DEF Configured
  <2>1. pc \in Opened /\ idt = FullTable
    BY TimerAlone
  <2>2. BootInv
    BY DEF IInv
  <2>3. out = 15
    BY <2>1, <2>2 DEF BootInv
  <2>4. MasterAt(15) /\ SlaveAt(15) /\ PitAt(15)
    BY <2>2, <2>3 DEF BootInv
  <2>5. /\ master.icw = 0 /\ master.base = IRQ0 /\ master.imr = 254
        /\ slave.icw = 0 /\ slave.base = IRQ8 /\ slave.imr = 255
        /\ pit.divisor = Divisor
    BY <2>4 DEF MasterAt, SlaveAt, PitAt
  <2>6. QED BY <2>1, <2>5, Gates, MaskBits
<1>2. QED BY <1>1, InterruptsInvariance, PTL

\* Nothing but an exception interrupts a handler (isr.S:22).
THEOREM OneWriter == Spec => []NoNesting
<1>1. IInv => NoNesting
  BY Zenon DEF IInv, FlagInv, FramesInv, NoNesting
<1>2. QED BY <1>1, InterruptsInvariance, PTL

\* Every request and every exception reaches the stub of its own vector, for every
\* set of devices that raise their lines (interrupt.c:26-27).
THEOREM StubsOfTheirOwn == Spec => []Routed
<1>1. IInv => Routed
  BY DEF IInv, FramesInv, RightFrame, Routed, IRQ0, IRQ7
<1>2. QED BY <1>1, InterruptsInvariance, PTL

\* interrupt_handler finds the vector and the error code where struct pt_regs has
\* them, with and without a code from the processor (interrupt.h:13-19).
THEOREM FramesReadRight == Spec => []FrameRight
<1>1. IInv => FrameRight
  <2> SUFFICES ASSUME IInv, frames # <<>>, Top.at = "dispatch"
               PROVE  /\ int_no = Top.vector
                      /\ Field("err_code") = ErrorOf(Top)
    BY DEF FrameRight, At, ErrorOf
  <2>1. Top.stub = Top.vector
    BY Running DEF RightFrame
  <2>2. QED BY <2>1, VectorRead
<1>2. QED BY <1>1, InterruptsInvariance, PTL

\* When kernel_main runs no line is left in service, in either chip
\* (interrupt.c:117-123).
THEOREM NoLineBlocked == Spec => []NothingLeftInService
<1>1. IInv => NothingLeftInService
  BY DEF IInv, ServiceInv, InService, MainRuns, NothingLeftInService
<1>2. QED BY <1>1, InterruptsInvariance, PTL

\* The counter is the number of timer interrupts delivered less the one whose
\* handler has not counted it yet, for counters of every size (pit.c:20-23).
THEOREM TicksCountedOnce == Spec => []TickExact
<1>1. IInv => TickExact
  <2> SUFFICES ASSUME IInv PROVE TickExact
    OBVIOUS
  <2>1. FramesInv /\ CountInv /\ CpuType /\ CountType
    BY DEF IInv
  <2>2. system_ticks \in Tick
    BY <2>1 DEF CountType
  <2>3. CASE OnItsWay
    <3>1. frames # <<>> /\ Top \in FrameType /\ DOMAIN frames = 1 .. Len(frames)
          /\ Len(frames) \in Nat /\ Len(frames) >= 1
      BY <2>3, Running DEF OnItsWay
    <3>2. \A i \in DOMAIN frames : i # 1 => frames[i].cause = "fault"
      BY <2>1, <3>1 DEF FramesInv
    <3>3. 1 \in DOMAIN frames /\ RightFrame(frames[1])
      BY <2>1, <3>1 DEF FramesInv
    <3>4. Uncounted = {1}
      BY <2>3, <3>2, <3>3 DEF Uncounted, OnItsWay, RightFrame
    <3>5. Cardinality(Uncounted) = 1
      BY <3>4, FS_Singleton
    <3>6. QED BY <2>1, <2>3, <3>5 DEF CountInv, Next1, TickExact
  <2>4. CASE ~OnItsWay
    <3>1. Uncounted = {}
      <4>1. \A i \in DOMAIN frames : i # 1 => frames[i].cause = "fault"
        BY <2>1 DEF FramesInv, CpuType
      <4>2. \A i \in DOMAIN frames : frames # <<>>
        BY <2>1 DEF CpuType
      <4>3. QED BY <2>4, <4>1, <4>2 DEF Uncounted, OnItsWay
    <3>2. Cardinality(Uncounted) = 0
      BY <3>1, FS_EmptySet
    <3>3. acked = system_ticks
      BY <2>1, <2>4 DEF CountInv
    <3>4. system_ticks + 0 = system_ticks
      BY <2>2, WordPositive DEF Tick
    <3>5. system_ticks % (WordSize * WordSize) = system_ticks
      <4> DEFINE R == WordSize * WordSize
      <4>1. R \in Nat \ {0} /\ system_ticks \in 0 .. R - 1
        BY <2>2, WordPositive DEF Tick
      <4> HIDE DEF R
      <4>2. system_ticks % R = system_ticks
        BY <4>1
      <4>3. QED BY <4>2 DEF R
    <3>6. QED BY <3>2, <3>3, <3>4, <3>5 DEF TickExact
  <2>5. QED BY <2>3, <2>4
<1>2. QED BY <1>1, InterruptsInvariance, PTL

\* kernel_main gets its registers and its stack back from every interrupt
\* (isr.S:15-35).
THEOREM NothingLost == Spec => []ContextKept
<1>1. IInv => ContextKept
  BY DEF IInv, StackInv, ContextKept
<1>2. QED BY <1>1, InterruptsInvariance, PTL

\* The ticks kernel_main shows grow and are ticks the counter had: with one timer
\* interrupt a round at most, its 30000000 rounds end before the low word wraps, and
\* a read in two loads is never torn, in either order of the loads.
THEOREM TicksAreTrue == Spec => []TicksAccumulate
<1>1. IInv => TicksAccumulate
  BY JoinedFits DEF IInv, TicksAccumulate
<1>2. QED BY <1>1, InterruptsInvariance, PTL

LEMMA FaultOnTop ==
  ASSUME IInv, Faulted
  PROVE  /\ frames # <<>> /\ Top.cause = "fault" /\ ~IF_ /\ IF_ \in BOOLEAN
         /\ Top.at \in {"entry", "cli", "dispatch", "halt"}
<1>1. PICK i \in DOMAIN frames : frames[i].cause = "fault"
  BY DEF Faulted
<1>2. FramesInv /\ CpuType
  BY DEF IInv
<1>3. frames # <<>>
  BY <1>1, <1>2 DEF CpuType
<1>4. /\ DOMAIN frames = 1 .. Len(frames) /\ Len(frames) \in Nat /\ Len(frames) >= 1
      /\ RightFrame(Top) /\ ~IF_
      /\ Top.cause # "fault" => Len(frames) = 1 /\ Top = frames[1]
  BY <1>3, Running
<1>5. Top.cause = "fault"
  BY <1>1, <1>4
<1>6. QED BY <1>2, <1>3, <1>4, <1>5, Zenon DEF RightFrame, CpuType

\* After an exception the kernel does nothing more, for every nesting of
\* exceptions (interrupt.c:114-115).
THEOREM NothingAfterException == Spec => ExceptionIsFinal
<1>1. IInv /\ [Next]_vars
        => [Faulted => Faulted' /\ UNCHANGED <<IF_, pc, out, system_ticks>>]_vars
  <2> SUFFICES ASSUME IInv, Next, Faulted
               PROVE  Faulted' /\ UNCHANGED <<IF_, pc, out, system_ticks>>
    OBVIOUS
  <2>1. /\ frames # <<>> /\ Top.cause = "fault" /\ ~IF_ /\ IF_ \in BOOLEAN
        /\ Top.at \in {"entry", "cli", "dispatch", "halt"}
    BY FaultOnTop
  <2>2. ~kernel_main /\ ~deliver /\ ~deliver_spurious
    BY <2>1 DEF kernel_main, interrupt_init, timer_loop, idt_init, read_first, read_second,
      register_interrupt_handlers, save_masks, outb, sti, MainRuns, deliver, deliver_spurious
  <2>3. ~pic_send_eoi /\ ~timer_handler /\ ~restore_all
    BY <2>1 DEF pic_send_eoi, timer_handler, restore_all, At
  <2>4. CASE \E irq \in Devices : raise(irq)
    BY <2>4 DEF raise, cpu, boot, Faulted
  <2>5. CASE \E v \in Faults : fault(v)
    <3>1. PICK v \in Faults : fault(v)
      BY <2>5
    <3>2. /\ IF_' = (IF_ /\ ~ClearsIF(idt[v])) /\ UNCHANGED <<boot, system_ticks>>
          /\ \E f : frames' = Append(frames, f)
      BY <3>1, Zenon DEF fault, Enter
    <3>3. IF_' = IF_
      BY <2>1, <3>2, Zenon
    <3>4. Faulted'
      <4>1. PICK f : frames' = Append(frames, f)
        BY <3>2
      <4>2. PICK i \in DOMAIN frames : frames[i].cause = "fault"
        BY DEF Faulted
      <4>3. frames \in Seq(FrameType)
        BY <2>1, Running
      <4>4. i \in DOMAIN frames' /\ frames'[i] = frames[i]
        BY <4>1, <4>2, <4>3
      <4>5. QED BY <4>2, <4>4 DEF Faulted
    <3>5. QED BY <3>2, <3>3, <3>4 DEF boot
  <2>6. CASE save_all \/ cli \/ interrupt_handler
    <3>1. /\ UNCHANGED <<boot, system_ticks>>
          /\ IF_' = IF_ \/ IF_' = FALSE
      BY <2>6, Zenon DEF save_all, cli, interrupt_handler
    <3>2. IF_' = IF_
      BY <2>1, <3>1, Zenon
    <3>3. \E s : Goto(s)
      BY <2>6, Zenon DEF save_all, cli, interrupt_handler
    <3>4. Faulted'
      <4>1. PICK s : frames' = [frames EXCEPT ![Len(frames)] = [Top EXCEPT !.at = s]]
        BY <3>3 DEF Goto, Top
      <4>2. /\ frames \in Seq(FrameType) /\ Len(frames) \in DOMAIN frames /\ Top \in FrameType
        BY <2>1, Running
      <4>3. [Top EXCEPT !.at = s].cause = Top.cause
        BY <4>2 DEF FrameType
      <4>4. Len(frames) \in DOMAIN frames' /\ frames'[Len(frames)] = [Top EXCEPT !.at = s]
        BY <4>1, <4>2
      <4>5. QED BY <2>1, <4>3, <4>4 DEF Faulted
    <3>5. QED BY <3>1, <3>2, <3>4 DEF boot
  <2>7. QED BY <2>2, <2>3, <2>4, <2>5, <2>6 DEF Next, handler
<1>2. QED BY <1>1, InterruptsInvariance, PTL DEF Spec, ExceptionIsFinal
==============================================================================
