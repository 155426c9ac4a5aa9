--------------------------------- MODULE Gdt ---------------------------------
(***************************************************************************)
(* kernel/gdt.c: what gdt_set_gate packs into a descriptor and what the    *)
(* processor reads back.  Numbers of 32 bits are pairs of 16-bit halves.   *)
(***************************************************************************)
EXTENDS Integers

Word32(hi, lo) == [hi |-> hi, lo |-> lo]
Zero  == Word32(0, 0)
Whole == Word32(65535, 65535)          \* 0xFFFFFFFF

\* Mutant: the granularity byte loses the four high bits of the limit.
gdt_set_gate_noLimit(base, limit, access, granularity) ==
  [base_low    |-> base.lo,
   base_middle |-> base.hi % 256,
   base_high   |-> base.hi \div 256,
   limit_low   |-> limit.lo,
   granularity |-> 16 * (granularity \div 16),
   access      |-> access]

gdt_set_gate(base, limit, access, granularity) ==
  [base_low    |-> base.lo,
   base_middle |-> base.hi % 256,
   base_high   |-> base.hi \div 256,
   limit_low   |-> limit.lo,
   granularity |-> (limit.hi % 16) + 16 * (granularity \div 16),
   access      |-> access]

\* Entry 5 stays what .bss made it: zero, as the null descriptor.
Descriptors ==
  [num \in 0 .. 5 |->
     CASE num = 1 -> gdt_set_gate(Zero, Whole, 154, 207)     \* kernel code
       [] num = 2 -> gdt_set_gate(Zero, Whole, 146, 207)     \* kernel data
       [] num = 3 -> gdt_set_gate(Zero, Whole, 250, 207)     \* user code
       [] num = 4 -> gdt_set_gate(Zero, Whole, 242, 207)     \* user data
       [] OTHER   -> gdt_set_gate(Zero, Zero, 0, 0)]

(***************************************************************************)
(* The processor's reading of a descriptor.                                *)
(***************************************************************************)
BitOf(byte, i) == (byte \div 2^i) % 2 = 1

Present(d)   == BitOf(d.access, 7)
Privilege(d) == (d.access \div 32) % 4
IsCode(d)    == BitOf(d.access, 4) /\ BitOf(d.access, 3) /\ BitOf(d.access, 1)
IsData(d)    == BitOf(d.access, 4) /\ ~BitOf(d.access, 3) /\ BitOf(d.access, 1)

\* Base 0, and a limit of 2^20 - 1 units of 4 KiB, with 32-bit operands.
Flat(d) ==
  /\ d.base_low = 0 /\ d.base_middle = 0 /\ d.base_high = 0
  /\ d.limit_low = 65535 /\ d.granularity % 16 = 15
  /\ BitOf(d.granularity, 7) /\ BitOf(d.granularity, 6)
==============================================================================
