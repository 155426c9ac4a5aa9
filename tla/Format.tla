-------------------------------- MODULE Format --------------------------------
(***************************************************************************)
(* The numeric conversions of vga_vprintf_internal in kernel/vga.c.  A     *)
(* machine word is a number below Word; a converted field is a sequence of *)
(* digits, signs and spaces, each a number of its own.                     *)
(***************************************************************************)
EXTENDS Integers, Sequences, SequencesExt

CONSTANTS Word,         \* 2^32
          WordDigits    \* the hexadecimal digits of a word: 8

\* The weight of a digit with n digits behind it: base to the power n.
Weight(base, n) ==
  LET weight[k \in 0 .. n] == IF k = 0 THEN 1 ELSE base * weight[k - 1]
  IN  weight[n]

ASSUME FormatAssumption ==
  /\ WordDigits \in Nat \ {0} /\ Word = Weight(16, WordDigits)

Minus  == 16
Space  == 17
Symbol == 0 .. 17                     \* 0 to 15 are the digits

Spec_  == {"d", "u", "x", "p"}
Fields == [spec : Spec_, zero : BOOLEAN, width : Nat, arg : 0 .. Word - 1]
Field(spec, zero, width, arg) == [spec |-> spec, zero |-> zero, width |-> width, arg |-> arg]

Negative(value) == value >= Word \div 2
Signed(value)   == IF Negative(value) THEN value - Word ELSE value

\* The loop of itoa and its reversal: the digits of a number, at least one.
Digits(number, base) ==
  LET digits[n \in 0 .. number] ==
        IF n < base THEN <<n>> ELSE Append(digits[n \div base], n % base)
  IN  digits[number]

\* itoa takes a signed word and negates it for base 10 only; the negation of
\* the least number is itself, read without a sign.  The mutant does not negate.
itoa_abs(value, base) == Digits(value, base)
itoa(value, base) ==
  IF base = 10 /\ Negative(value) THEN <<Minus>> \o Digits(Word - value, base)
  ELSE Digits(value, base)

Fill(symbol, n) == [i \in 1 .. n |-> symbol]

\* Padding on the left, of whatever itoa returned, its sign included.
Padded(field, digits) ==
  Fill(IF field.zero THEN 0 ELSE Space, field.width - Len(digits)) \o digits

Pointer(digits) == Fill(0, WordDigits - Len(digits)) \o digits

\* %u goes through itoa as %d does.
Converted(field) ==
  CASE field.spec \in {"d", "u"} -> Padded(field, itoa(field.arg, 10))
    [] field.spec = "x"          -> Padded(field, itoa(field.arg, 16))
    [] field.spec = "p"          -> Pointer(itoa(field.arg, 16))

(***************************************************************************)
(* How a reader takes a field: spaces, a sign, digits.                     *)
(***************************************************************************)
Numeral(symbols) ==
  /\ \A i, j \in DOMAIN symbols : i < j /\ symbols[j] = Space => symbols[i] = Space
  /\ \A i, j \in DOMAIN symbols : i < j /\ symbols[j] = Minus => symbols[i] = Space

Taken(base, n, s) == IF s < 16 THEN n * base + s ELSE n
Dec(n, s) == Taken(10, n, s)
Hex(n, s) == Taken(16, n, s)
Magnitude(symbols, base) ==
  IF base = 16 THEN FoldLeft(Hex, 0, symbols) ELSE FoldLeft(Dec, 0, symbols)
Read(symbols, base) ==
  IF Contains(symbols, Minus) THEN -Magnitude(symbols, base) ELSE Magnitude(symbols, base)
==============================================================================
