--------------------------------- MODULE Pic ---------------------------------
(***************************************************************************)
(* One 8259 interrupt controller, as far as kernel/interrupt.c uses it:    *)
(* operators on a chip's state.  The chip is hardware; what a byte written *)
(* to its data port means depends on how far its initialisation has gone.  *)
(***************************************************************************)
EXTENDS Integers, FiniteSets

Line == 0 .. 7
Byte == 0 .. 255

\* icw: the initialisation word the data port expects next; 0: none, it is the mask.
Chip == [base : Byte, imr : Byte, irr : SUBSET Line, isr : SUBSET Line,
         icw : {0, 2, 3, 4}]

Bit(v, i)  == (v \div 2^i) % 2 = 1
Bits(v)    == {i \in Line : Bit(v, i)}
Highest(S) == CHOOSE l \in S : \A k \in S : l <= k      \* line 0 goes first

\* A command with bit 4 is ICW1: the chip forgets requests and mask.  0x20 is
\* the non-specific EOI: it retires the highest line in service, if any.
Command(c, v) ==
  CASE Bit(v, 4) -> [c EXCEPT !.imr = 0, !.irr = {}, !.isr = {}, !.icw = 2]
    [] v = 32 /\ c.isr # {} -> [c EXCEPT !.isr = @ \ {Highest(@)}]
    [] OTHER -> c

Data(c, v) ==
  CASE c.icw = 2 -> [c EXCEPT !.base = v, !.icw = 3]
    [] c.icw = 3 -> [c EXCEPT !.icw = 4]
    [] c.icw = 4 -> [c EXCEPT !.icw = 0]
    [] c.icw = 0 -> [c EXCEPT !.imr = v]

\* The lines that ask for service: not masked, and nothing as urgent in service.
Requests(c) ==
  {l \in c.irr \ Bits(c.imr) : c.icw = 0 /\ \A s \in c.isr : l < s}

\* The processor acknowledges line l.
Ack(c, l) == [c EXCEPT !.irr = @ \ {l}, !.isr = @ \cup {l}]
==============================================================================
