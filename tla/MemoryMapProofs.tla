---------------------------- MODULE MemoryMapProofs ----------------------------
(***************************************************************************)
(* Proofs about MemoryMap and Format for words of any size, any Multiboot2 *)
(* information that is laid out as multiboot2.h says, and any fields that  *)
(* the other callers of kprintf print.                                     *)
(***************************************************************************)
EXTENDS MemoryMap, SequenceTheorems, FiniteSetTheorems, TLAPS

Decs  == INSTANCE Folding WITH Op <- Dec
Hexes == INSTANCE Folding WITH Op <- Hex
Lined == INSTANCE Folding WITH Op <- OfRegion

-----------------------------------------------------------------------------
(* Numerals.                                                               *)

Base  == {10, 16}
Digit == 0 .. 15

LEMMA Folds ==
  ASSUME NEW q
  PROVE  /\ FoldLeft(Dec, 0, q) = Decs!FoldLeft(Dec, 0, q)
         /\ FoldLeft(Hex, 0, q) = Hexes!FoldLeft(Hex, 0, q)
<1>1. FoldLeft(Dec, 0, q) = Decs!FoldLeft(Dec, 0, q)
  BY DEF FoldLeft, MapThenFoldSet, Max, Decs!FoldLeft, Decs!MapThenFoldSet, Decs!Max
<1>2. FoldLeft(Hex, 0, q) = Hexes!FoldLeft(Hex, 0, q)
  BY DEF FoldLeft, MapThenFoldSet, Max, Hexes!FoldLeft, Hexes!MapThenFoldSet, Hexes!Max
<1>3. QED BY <1>1, <1>2

\* One symbol more: a digit moves the others one place up, a space or a sign does not.
LEMMA MagnitudeMore ==
  ASSUME NEW base \in Base, NEW q \in Seq(Symbol), NEW s \in Symbol
  PROVE  /\ Magnitude(Append(q, s), base) = Taken(base, Magnitude(q, base), s)
         /\ Magnitude(<<>>, base) = 0
<1>1. CASE base = 16
  <2>1. /\ Hexes!FoldLeft(Hex, 0, Append(q, s)) = Hex(Hexes!FoldLeft(Hex, 0, q), s)
        /\ Hexes!FoldLeft(Hex, 0, <<>>) = 0
    BY Hexes!FoldAppend
  <2>2. \A p : Hexes!FoldLeft(Hex, 0, p) = Magnitude(p, base)
    BY <1>1, Folds DEF Magnitude
  <2>3. QED BY <1>1, <2>1, <2>2 DEF Hex
<1>2. CASE base = 10
  <2>1. /\ Decs!FoldLeft(Dec, 0, Append(q, s)) = Dec(Decs!FoldLeft(Dec, 0, q), s)
        /\ Decs!FoldLeft(Dec, 0, <<>>) = 0
    BY Decs!FoldAppend
  <2>2. \A p : Decs!FoldLeft(Dec, 0, p) = Magnitude(p, base)
    BY <1>2, Folds DEF Magnitude
  <2>3. QED BY <1>2, <2>1, <2>2 DEF Dec
<1>3. QED BY <1>1, <1>2 DEF Base

LEMMA MagnitudeNone ==
  ASSUME NEW base \in Base
  PROVE  Magnitude(<<>>, base) = 0
<1>1. <<>> \in Seq(Symbol) /\ 0 \in Symbol
  BY DEF Symbol
<1>2. QED BY <1>1, MagnitudeMore

\* What one symbol more keeps, every numeral has.
LEMMA Grown ==
  ASSUME NEW T, NEW q \in Seq(T), NEW J, <<>> \in J,
         \A p \in J : \A s \in T : Append(p, s) \in J
  PROVE  q \in J
<1>1. \A j \in 1 .. Len(q) : q[j] \in T
  OBVIOUS
<1>2. \A j \in 1 .. Len(q) : SubSeq(q, 1, j - 1) \in J => Append(SubSeq(q, 1, j - 1), q[j]) \in J
  BY <1>1
<1>3. QED BY <1>2, Decs!PrefixInduction

LEMMA MagnitudeType ==
  ASSUME NEW base \in Base, NEW q \in Seq(Symbol)
  PROVE  Magnitude(q, base) \in Nat
<1> DEFINE J == {p \in Seq(Symbol) : Magnitude(p, base) \in Nat}
<1>1. <<>> \in J
  BY MagnitudeMore DEF Symbol
<1>2. ASSUME NEW p \in J, NEW s \in Symbol PROVE Append(p, s) \in J
  <2>1. Magnitude(Append(p, s), base) = Taken(base, Magnitude(p, base), s)
    BY MagnitudeMore
  <2>2. Taken(base, Magnitude(p, base), s) \in Nat
    BY <1>2 DEF Taken, Base, Symbol
  <2>3. QED BY <2>1, <2>2
<1> HIDE DEF J
<1>3. q \in J
  BY <1>1, <1>2, Grown
<1>4. QED BY <1>3 DEF J

\* Zeros, spaces and signs are worth nothing, whatever stands before them is not.
Padding == {0, Minus, Space}

LEMMA PaddingIsNothing ==
  ASSUME NEW base \in Base, NEW q \in Seq(Padding)
  PROVE  q \in Seq(Symbol) /\ Magnitude(q, base) = 0
<1> DEFINE J == {p \in Seq(Symbol) : Magnitude(p, base) = 0}
<1>1. <<>> \in J
  <2>1. Magnitude(<<>>, base) = 0
    BY MagnitudeNone, Zenon
  <2>2. QED BY <2>1
<1>2. ASSUME NEW p \in J, NEW s \in Padding PROVE Append(p, s) \in J
  <2>1. s \in Symbol
    BY DEF Padding, Symbol, Minus, Space
  <2>2. Magnitude(Append(p, s), base) = Taken(base, Magnitude(p, base), s)
    BY <2>1, MagnitudeMore
  <2>3. Taken(base, 0, s) = 0
    BY DEF Taken, Base, Padding, Minus, Space
  <2>4. Append(p, s) \in Seq(Symbol)
    BY <2>1
  <2>5. QED BY <2>2, <2>3, <2>4
<1> HIDE DEF J
<1>3. q \in J
  BY <1>1, <1>2, Grown
<1>4. QED BY <1>3 DEF J

LEMMA DigitIs ==
  ASSUME NEW s \in Digit
  PROVE  s \in Symbol /\ s \in Nat /\ s < 16 /\ s # Minus /\ s # Space
BY DEF Digit, Symbol, Minus, Space

\* The weights of a base.
Weights(w, base, n) ==
  /\ w \in [0 .. n -> Nat] /\ w[0] = 1
  /\ \A k \in 1 .. n : w[k] = base * w[k - 1]

\* A numeral of two parts: the first one counts the weight of the second one's length.
LEMMA MagnitudeJoined ==
  ASSUME NEW base \in Base, NEW a \in Seq(Symbol), NEW b \in Seq(Digit),
         NEW n \in Nat, NEW w, Weights(w, base, n), Len(b) <= n
  PROVE  /\ a \o b \in Seq(Symbol) /\ b \in Seq(Symbol)
         /\ Magnitude(a \o b, base) = Magnitude(a, base) * w[Len(b)] + Magnitude(b, base)
<1> DEFINE J == {p \in Seq(Digit) : Len(p) <= n =>
                   Magnitude(a \o p, base) = Magnitude(a, base) * w[Len(p)] + Magnitude(p, base)}
<1>0. \A p \in Seq(Digit) : p \in Seq(Symbol) /\ a \o p \in Seq(Symbol)
  BY DEF Digit, Symbol
<1>1. <<>> \in J
  <2>1. a \o <<>> = a /\ Len(<<>>) = 0
    OBVIOUS
  <2>2. Magnitude(a, base) \in Nat
    BY MagnitudeType
  <2>3. Magnitude(<<>>, base) = 0
    BY MagnitudeNone, Zenon
  <2>4. w[0] = 1
    BY DEF Weights
  <2>5. Magnitude(a, base) = Magnitude(a, base) * 1 + 0
    BY <2>2
  <2>6. <<>> \in Seq(Digit)
    OBVIOUS
  <2>7. QED BY <2>1, <2>3, <2>4, <2>5, <2>6
<1>2. ASSUME NEW p \in J, NEW s \in Digit PROVE Append(p, s) \in J
  <2>1. p \in Seq(Digit) /\ Append(p, s) \in Seq(Digit) /\ Len(Append(p, s)) = Len(p) + 1 /\ Len(p) \in Nat
    OBVIOUS
  <2>2. SUFFICES ASSUME Len(p) + 1 <= n
                 PROVE  Magnitude(a \o Append(p, s), base)
                          = Magnitude(a, base) * w[Len(p) + 1] + Magnitude(Append(p, s), base)
    BY <2>1
  <2>3. PICK t \in Nat, v \in Nat, k \in Nat :
          t = Magnitude(a, base) /\ v = Magnitude(p, base) /\ k = Len(p)
    BY <1>0, <2>1, MagnitudeType
  <2>4. Magnitude(a \o p, base) = t * w[k] + v
    BY <2>1, <2>2, <2>3
  <2>5. k \in 0 .. n /\ k + 1 \in 1 .. n /\ (k + 1) - 1 = k
    BY <2>2, <2>3
  <2>6. PICK x \in Nat : x = w[k] /\ w[k + 1] = base * x
    BY <2>5 DEF Weights
  <2>7. a \o Append(p, s) = Append(a \o p, s)
    BY <1>0, <2>1
  <2>8. s \in Symbol /\ s \in Nat /\ s < 16
    BY DigitIs, Zenon
  <2>9. Magnitude(Append(a \o p, s), base) = (t * x + v) * base + s
    <3>1. Magnitude(Append(a \o p, s), base) = Taken(base, Magnitude(a \o p, base), s)
      BY <1>0, <2>1, <2>8, MagnitudeMore
    <3>2. QED BY <2>4, <2>6, <2>8, <3>1 DEF Taken
  <2>10. Magnitude(Append(p, s), base) = v * base + s
    <3>1. Magnitude(Append(p, s), base) = Taken(base, Magnitude(p, base), s)
      BY <1>0, <2>1, <2>8, MagnitudeMore
    <3>2. QED BY <2>3, <2>8, <3>1 DEF Taken
  <2>11. (t * x + v) * base + s = t * (base * x) + (v * base + s)
    <3>1. PICK y \in Nat : y = t * x
      OBVIOUS
    <3>2. (y + v) * base + s = y * base + (v * base + s)
      BY <2>8 DEF Base
    <3>3. y * base = t * (base * x)
      BY <3>1 DEF Base
    <3>4. QED BY <3>1, <3>2, <3>3
  <2>12. QED BY <2>3, <2>6, <2>7, <2>9, <2>10, <2>11
<1> HIDE DEF J
<1>3. b \in J
  BY <1>1, <1>2, Grown
<1>4. QED BY <1>0, <1>3 DEF J

-----------------------------------------------------------------------------
(* itoa.                                                                   *)

\* The digits of all numbers up to n.
DigitSteps(f, base, n) ==
  f = [m \in 0 .. n |-> IF m < base THEN <<m>> ELSE Append(f[m \div base], m % base)]

LEMMA Quotient ==
  ASSUME NEW base \in Base, NEW m \in Nat
  PROVE  /\ m \div base \in Nat /\ m % base \in 0 .. base - 1
         /\ m = (m \div base) * base + (m % base)
         /\ ~(m < base) => m \div base < m /\ m \div base > 0
<1>1. CASE base = 10
  BY <1>1
<1>2. CASE base = 16
  BY <1>2
<1>3. QED BY <1>1, <1>2 DEF Base

LEMMA DigitsExist ==
  ASSUME NEW base \in Base, NEW n \in Nat
  PROVE  \E f : DigitSteps(f, base, n)
<1> DEFINE Missing == {k \in Nat : ~\E f : DigitSteps(f, base, k)}
<1> SUFFICES ASSUME Missing # {} PROVE FALSE
  OBVIOUS
<1>1. PICK k \in Missing : \A j \in Missing : k <= j
  <2>1. Missing \in SUBSET Nat
    OBVIOUS
  <2>2. QED BY <2>1, Decs!LeastExists
<1>2. k \in Nat /\ ~\E f : DigitSteps(f, base, k)
  BY <1>1
<1>3. PICK g : k # 0 => DigitSteps(g, base, k - 1)
  <2>1. CASE k = 0
    BY <2>1
  <2>2. CASE k # 0
    <3>1. k - 1 \in Nat /\ ~(k <= k - 1)
      BY <1>2, <2>2
    <3>2. k - 1 \notin Missing
      BY <1>1, <3>1
    <3>3. QED BY <3>1, <3>2
  <2>3. QED BY <2>1, <2>2
<1> DEFINE Next_(h, m) == IF m < base THEN <<m>> ELSE Append(h[m \div base], m % base)
           f == [m \in 0 .. k |-> IF m < k THEN g[m] ELSE Next_(g, m)]
<1>4. ASSUME NEW m \in 0 .. k PROVE f[m] = Next_(f, m)
  <2>1. m \in Nat /\ m \div base \in Nat /\ (~(m < base) => m \div base < m)
    BY <1>2, Quotient
  <2>2. ~(m < base) => m \div base \in 0 .. k /\ m \div base < k /\ f[m \div base] = g[m \div base]
    BY <1>2, <2>1
  <2>3. CASE m < k
    <3>1. k # 0 /\ m \in 0 .. k - 1
      BY <1>2, <2>1, <2>3
    <3>2. g[m] = Next_(g, m)
      BY <1>3, <3>1 DEF DigitSteps
    <3>3. f[m] = g[m]
      BY <2>3
    <3> HIDE DEF f
    <3>4. QED BY <2>2, <3>2, <3>3
  <2>4. CASE ~(m < k)
    <3>1. f[m] = Next_(g, m)
      BY <2>4
    <3> HIDE DEF f
    <3>2. QED BY <2>2, <3>1
  <2>5. QED BY <2>3, <2>4
<1>5. f = [m \in 0 .. k |-> f[m]]
  OBVIOUS
<1>6. f = [m \in 0 .. k |-> Next_(f, m)]
  <2> HIDE DEF f
  <2>1. [m \in 0 .. k |-> f[m]] = [m \in 0 .. k |-> Next_(f, m)]
    BY <1>4
  <2>2. QED BY <1>5, <2>1
<1>7. DigitSteps(f, base, k)
  <2> HIDE DEF f
  <2>1. QED BY <1>6 DEF DigitSteps
<1>8. QED BY <1>2, <1>7

\* Digits returns what its recursion says, for its argument and what it passes on.
LEMMA DigitsAre ==
  ASSUME NEW base \in Base, NEW n \in Nat
  PROVE  \E f : DigitSteps(f, base, n) /\ Digits(n, base) = f[n]
<1> DEFINE f == CHOOSE f : DigitSteps(f, base, n)
<1>1. DigitSteps(f, base, n)
  BY DigitsExist
<1>2. Digits(n, base) = f[n]
  BY DEF Digits, DigitSteps
<1> HIDE DEF f
<1>3. QED BY <1>1, <1>2

\* The digits of a number read back as the number, and a number below the weight of k
\* places has k digits at most.
LEMMA DigitsRead ==
  ASSUME NEW base \in Base, NEW n \in Nat, NEW places \in Nat, NEW w, Weights(w, base, places)
  PROVE  /\ Digits(n, base) \in Seq(Digit) /\ Len(Digits(n, base)) > 0
         /\ Magnitude(Digits(n, base), base) = n
         /\ \A k \in 1 .. places : n < w[k] => Len(Digits(n, base)) <= k
<1> DEFINE Right(d, m) == /\ d \in Seq(Digit) /\ Len(d) > 0 /\ Magnitude(d, base) = m
                          /\ \A k \in 1 .. places : m < w[k] => Len(d) <= k
<1>1. PICK f : DigitSteps(f, base, n) /\ Digits(n, base) = f[n]
  BY DigitsAre
<1> DEFINE Wrong == {m \in 0 .. n : ~Right(f[m], m)}
<1>2. Wrong = {}
  <2> SUFFICES ASSUME Wrong # {} PROVE FALSE
    OBVIOUS
  <2>1. PICK m \in Wrong : \A j \in Wrong : m <= j
    <3>1. Wrong \in SUBSET Nat
      OBVIOUS
    <3> HIDE DEF Wrong
    <3>2. QED BY <3>1, Decs!LeastExists
  <2>2. m \in 0 .. n /\ m \in Nat
    BY <2>1
  <2>3. f[m] = IF m < base THEN <<m>> ELSE Append(f[m \div base], m % base)
    BY <1>1, <2>2 DEF DigitSteps
  <2>4. CASE m < base
    <3>1. f[m] = <<m>> /\ m \in Digit
      <4>1. m \in 0 .. 15
        BY <2>2, <2>4 DEF Base
      <4>2. QED BY <2>3, <2>4, <4>1, Zenon DEF Digit
    <3>2. <<m>> \in Seq(Digit) /\ Len(<<m>>) = 1
      BY <3>1
    <3>3. Magnitude(<<m>>, base) = m
      <4>1. <<>> \in Seq(Symbol) /\ m \in Symbol /\ m < 16
        BY <3>1, DigitIs
      <4>2. Magnitude(Append(<<>>, m), base) = Taken(base, 0, m)
        BY <4>1, MagnitudeMore, MagnitudeNone
      <4>3. Taken(base, 0, m) = m
        BY <2>2, <4>1 DEF Taken, Base
      <4>4. Append(<<>>, m) = <<m>>
        OBVIOUS
      <4>5. QED BY <4>2, <4>3, <4>4
    <3>4. Right(f[m], m)
      BY <3>1, <3>2, <3>3
    <3>5. QED BY <2>1, <3>4
  <2>5. CASE ~(m < base)
    <3>1. PICK q \in Nat, r \in 0 .. base - 1 :
             /\ q = m \div base /\ r = m % base /\ m = q * base + r /\ q < m /\ q > 0
      BY <2>2, <2>5, Quotient
    <3>2. q \in 0 .. n /\ q \notin Wrong
      BY <2>1, <2>2, <3>1
    <3>3. Right(f[q], q)
      BY <3>2
    <3>4. PICK d \in Seq(Digit) : d = f[q]
      BY <3>3
    <3>5. r \in Digit
      BY <3>1 DEF Base, Digit
    <3>6. f[m] = Append(d, r)
      BY <2>3, <2>5, <3>1, <3>4
    <3>7. Append(d, r) \in Seq(Digit) /\ Len(Append(d, r)) = Len(d) + 1 /\ Len(d) \in Nat
      BY <3>5
    <3>8. Magnitude(Append(d, r), base) = m
      <4>1. d \in Seq(Symbol) /\ r \in Symbol /\ r < 16 /\ r \in Nat
        <5>1. \A j \in 1 .. Len(d) : d[j] \in Symbol
          BY DigitIs
        <5>2. QED BY <3>5, <5>1, DigitIs
      <4>2. Magnitude(Append(d, r), base) = Taken(base, q, r)
        BY <3>3, <3>4, <4>1, MagnitudeMore
      <4>3. QED BY <3>1, <4>1, <4>2 DEF Taken
    <3>9. ASSUME NEW k \in 1 .. places, m < w[k] PROVE Len(d) + 1 <= k
      <4>1. k - 1 \in 0 .. places /\ w[k] = base * w[k - 1] /\ w[k - 1] \in Nat
        BY DEF Weights
      <4>2. PICK x \in Nat : x = w[k - 1] /\ w[k] = base * x
        BY <4>1
      <4>3. q < x
        BY <3>1, <3>9, <4>2 DEF Base
      <4>4. k # 1
        <5>1. k = 1 => x = 1
          BY <4>2 DEF Weights
        <5>2. QED BY <3>1, <4>3, <5>1
      <4>5. k - 1 \in 1 .. places
        BY <4>4
      <4>6. Len(d) <= k - 1
        BY <3>3, <3>4, <4>2, <4>3, <4>5
      <4>7. QED BY <3>7, <4>6
    <3>10. Right(f[m], m)
      BY <3>6, <3>7, <3>8, <3>9
    <3>11. QED BY <2>1, <3>10
  <2>6. QED BY <2>4, <2>5
<1>3. Right(f[n], n)
  BY <1>2
<1>4. QED BY <1>1, <1>3

LEMMA WeightsExist ==
  ASSUME NEW base \in Base, NEW n \in Nat
  PROVE  \E w : Weights(w, base, n) /\ Weight(base, n) = w[n]
<1> DEFINE Steps(f, k) == f = [m \in 0 .. k |-> IF m = 0 THEN 1 ELSE base * f[m - 1]]
           Missing == {k \in Nat : ~\E f : f \in [0 .. k -> Nat] /\ Steps(f, k)}
<1>1. Missing = {}
  <2> SUFFICES ASSUME Missing # {} PROVE FALSE
    OBVIOUS
  <2>1. PICK k \in Missing : \A j \in Missing : k <= j
    <3>1. Missing \in SUBSET Nat
      OBVIOUS
    <3> HIDE DEF Missing
    <3>2. QED BY <3>1, Decs!LeastExists
  <2>2. k \in Nat /\ ~\E f : f \in [0 .. k -> Nat] /\ Steps(f, k)
    BY <2>1
  <2>3. CASE k = 0
    <3> DEFINE f == [m \in 0 .. 0 |-> 1]
    <3>1. f \in [0 .. k -> Nat] /\ Steps(f, k)
      BY <2>3
    <3>2. QED BY <2>2, <3>1
  <2>4. CASE k # 0
    <3>1. k - 1 \in Nat /\ ~(k <= k - 1)
      BY <2>2, <2>4
    <3>2. PICK g : g \in [0 .. k - 1 -> Nat] /\ Steps(g, k - 1)
      BY <2>1, <3>1
    <3> DEFINE f == [m \in 0 .. k |-> IF m < k THEN g[m] ELSE base * g[k - 1]]
    <3>3. f \in [0 .. k -> Nat]
      <4>1. g[k - 1] \in Nat /\ base * g[k - 1] \in Nat
        <5>1. k - 1 \in 0 .. k - 1 /\ g \in [0 .. k - 1 -> Nat]
          BY <3>1, <3>2
        <5>2. g[k - 1] \in Nat
          BY <5>1, Zenon
        <5>3. QED BY <5>2 DEF Base
      <4>2. \A m \in 0 .. k : m < k => g[m] \in Nat
        BY <2>2, <3>2
      <4>3. QED BY <4>1, <4>2
    <3>4. ASSUME NEW m \in 0 .. k PROVE f[m] = IF m = 0 THEN 1 ELSE base * f[m - 1]
      <4>1. CASE m = k
        <5>1. f[m] = base * g[k - 1] /\ f[m - 1] = g[k - 1]
          BY <2>2, <2>4, <4>1
        <5> HIDE DEF f
        <5>2. QED BY <2>4, <4>1, <5>1
      <4>2. CASE m # k
        <5>1. m \in 0 .. k - 1 /\ f[m] = g[m] /\ (m # 0 => f[m - 1] = g[m - 1])
          BY <2>2, <2>4, <4>2
        <5>2. g[m] = IF m = 0 THEN 1 ELSE base * g[m - 1]
          BY <3>2, <5>1
        <5> HIDE DEF f
        <5>3. QED BY <5>1, <5>2
      <4>3. QED BY <4>1, <4>2
    <3> HIDE DEF f
    <3>5. f = [m \in 0 .. k |-> f[m]]
      BY <3>3
    <3>6. Steps(f, k)
      <4>1. [m \in 0 .. k |-> f[m]] = [m \in 0 .. k |-> IF m = 0 THEN 1 ELSE base * f[m - 1]]
        BY <3>4
      <4>2. QED BY <3>5, <4>1
    <3>7. QED BY <2>2, <3>3, <3>6
  <2>5. QED BY <2>3, <2>4
<1> DEFINE w == CHOOSE f : Steps(f, n)
<1>2. Steps(w, n)
  <2>1. \E f : Steps(f, n)
    BY <1>1
  <2>2. QED BY <2>1
<1>3. Weight(base, n) = w[n]
  BY DEF Weight
<1> HIDE DEF w
<1>4. \A k \in 0 .. n : w[k] = IF k = 0 THEN 1 ELSE base * w[k - 1]
  BY <1>2
<1>5. \A k \in 0 .. n : w[k] \in Nat
  <2> DEFINE I == {k \in 0 .. n : w[k] \in Nat}
  <2>1. 0 \in I
    BY <1>4
  <2>2. ASSUME NEW k \in 1 .. n, k - 1 \in I PROVE k \in I
    <3>1. w[k - 1] \in Nat /\ w[k] = base * w[k - 1]
      BY <1>4, <2>2
    <3>2. QED BY <3>1 DEF Base
  <2> HIDE DEF I
  <2>3. \A k \in 0 .. n : k \in I
    BY <2>1, <2>2, Decs!LoopInduction
  <2>4. QED BY <2>3 DEF I
<1>6. Weights(w, base, n)
  <2>1. w \in [0 .. n -> Nat]
    BY <1>2, <1>5
  <2>2. QED BY <1>4, <2>1 DEF Weights
<1>7. QED BY <1>3, <1>6

LEMMA FillIs ==
  ASSUME NEW symbol, NEW n \in Int
  PROVE  /\ Fill(symbol, n) \in Seq({symbol})
         /\ Len(Fill(symbol, n)) = IF n > 0 THEN n ELSE 0
<1>1. PICK k \in Nat : k = (IF n > 0 THEN n ELSE 0) /\ 1 .. n = 1 .. k
  <2>1. ~(n > 0) => 1 .. n = {} /\ 1 .. 0 = {}
    OBVIOUS
  <2>2. QED BY <2>1
<1>2. Fill(symbol, n) = [j \in 1 .. k |-> symbol]
  BY <1>1 DEF Fill
<1>3. QED BY <1>1, <1>2

\* Spaces or zeros, a sign perhaps, and digits: what a reader takes from them.
LEMMA TextRead ==
  ASSUME NEW base \in Base, NEW symbol \in {0, Space}, NEW pad \in Seq({symbol}),
         NEW sign \in Seq({Minus}), Len(sign) <= 1, NEW d \in Seq(Digit)
  PROVE  LET text == (pad \o sign) \o d
         IN  /\ text \in Seq(Symbol) /\ Len(text) = Len(pad) + Len(sign) + Len(d)
             /\ Magnitude(text, base) = Magnitude(d, base)
             /\ Contains(text, Minus) <=> Len(sign) = 1
             /\ Len(sign) = 0 \/ symbol = Space => Numeral(text)
<1>1. PICK k \in Nat, m \in Nat, n \in Nat : k = Len(pad) /\ m = Len(sign) /\ n = Len(d)
  OBVIOUS
<1>2. (m = 0 \/ m = 1) /\ (m = 1 => sign[1] = Minus)
  BY <1>1
<1>3. \A j \in 1 .. k : pad[j] = symbol
  BY <1>1
<1>4. \A j \in 1 .. n : d[j] \in Digit
  BY <1>1
<1>5. PICK pre, text : pre = pad \o sign /\ text = pre \o d
  OBVIOUS
<1>6. pre \in Seq(Padding) /\ Len(pre) = k + m
  <2>1. pad \in Seq(Padding) /\ sign \in Seq(Padding)
    BY <1>2 DEF Padding
  <2>2. QED BY <1>1, <1>5, <2>1
<1>7. \A j \in 1 .. k : pre[j] = symbol
  BY <1>1, <1>2, <1>3, <1>5
<1>8. m = 1 => pre[k + 1] = Minus
  <2>1. pad \in Seq(Symbol) /\ sign \in Seq(Symbol)
    BY DEF Symbol, Space, Minus
  <2>2. \A j \in 1 .. Len(pad) + Len(sign) :
           (pad \o sign)[j] = IF j <= Len(pad) THEN pad[j] ELSE sign[j - Len(pad)]
    BY <2>1, ConcatProperties, Zenon
  <2>3. \A j \in 1 .. k + m : pre[j] = IF j <= k THEN pad[j] ELSE sign[j - k]
    BY <1>1, <1>5, <2>2, Zenon
  <2>4. m = 1 => k + 1 \in 1 .. k + m /\ ~(k + 1 <= k) /\ (k + 1) - k = 1
    OBVIOUS
  <2>5. QED BY <1>2, <2>3, <2>4, Zenon
<1>9. pre \in Seq(Symbol) /\ Magnitude(pre, base) = 0
  BY <1>6, PaddingIsNothing
<1>10. /\ text \in Seq(Symbol) /\ Len(text) = k + m + n
       /\ Magnitude(text, base) = Magnitude(d, base)
  <2>1. PICK w : Weights(w, base, n)
    BY WeightsExist
  <2>2. /\ text \in Seq(Symbol) /\ d \in Seq(Symbol)
        /\ Magnitude(text, base) = Magnitude(pre, base) * w[n] + Magnitude(d, base)
    <3>1. Len(d) <= n /\ Len(d) = n
      BY <1>1
    <3>2. /\ pre \o d \in Seq(Symbol) /\ d \in Seq(Symbol)
          /\ Magnitude(pre \o d, base) = Magnitude(pre, base) * w[Len(d)] + Magnitude(d, base)
      <4>1. n \in Nat /\ pre \in Seq(Symbol) /\ Weights(w, base, n) /\ Len(d) <= n
        BY <1>9, <2>1, <3>1
      <4>2. QED BY <4>1, MagnitudeJoined
    <3>3. QED BY <1>5, <3>1, <3>2, Zenon
  <2>3. w[n] \in Nat
    BY <2>1 DEF Weights
  <2>4. Magnitude(d, base) \in Nat
    BY <2>2, MagnitudeType
  <2>5. Len(text) = k + m + n
    BY <1>1, <1>5, <1>6, <1>9
  <2>6. 0 * w[n] + Magnitude(d, base) = Magnitude(d, base)
    BY <2>3, <2>4
  <2>7. QED BY <1>9, <2>2, <2>5, <2>6
<1>11. \A j \in 1 .. k + m : text[j] = pre[j]
  BY <1>1, <1>5, <1>6, <1>9
<1>12. \A j \in k + m + 1 .. k + m + n : text[j] \in Digit
  <2>1. \A j \in k + m + 1 .. k + m + n : text[j] = d[j - (k + m)] /\ j - (k + m) \in 1 .. n
    BY <1>1, <1>5, <1>6, <1>9
  <2>2. QED BY <1>4, <2>1
<1>13. Minus = 16 /\ Space = 17 /\ \A s \in Digit : s # Minus /\ s # Space /\ symbol # Minus
  BY DEF Minus, Space, Digit
<1>14. ASSUME NEW j \in 1 .. k + m + n
       PROVE  /\ text[j] = Minus <=> m = 1 /\ j = k + 1
              /\ text[j] = Space <=> symbol = Space /\ j <= k
  <2>1. CASE j <= k
    <3>1. text[j] = symbol
      BY <1>7, <1>11, <2>1
    <3>2. QED BY <1>13, <2>1, <3>1
  <2>2. CASE j = k + 1 /\ m = 1
    <3>1. text[j] = Minus
      BY <1>8, <1>11, <2>2
    <3>2. QED BY <1>13, <2>2, <3>1
  <2>3. CASE j > k + m
    <3>1. text[j] \in Digit
      BY <1>12, <2>3
    <3>2. QED BY <1>13, <2>3, <3>1
  <2>4. QED BY <1>2, <2>1, <2>2, <2>3
<1>15. Contains(text, Minus) <=> m = 1
  <2>1. DOMAIN text = 1 .. k + m + n
    BY <1>10
  <2>2. m = 1 => k + 1 \in 1 .. k + m + n
    OBVIOUS
  <2>3. QED BY <1>2, <1>14, <2>1, <2>2 DEF Contains
<1>16. m = 0 \/ symbol = Space => Numeral(text)
  <2>1. DOMAIN text = 1 .. k + m + n
    BY <1>10
  <2>2. QED BY <1>14, <2>1 DEF Numeral
<1>17. QED BY <1>1, <1>5, <1>10, <1>15, <1>16, Zenon

LEMMA WordIs == Word \in Nat /\ Word > 0 /\ WordDigits \in Nat \ {0}
<1>1. WordDigits \in Nat \ {0} /\ Word = Weight(16, WordDigits) /\ WordDigits \in 0 .. WordDigits
  BY FormatAssumption
<1>2. PICK w : Weights(w, 16, WordDigits) /\ Word = w[WordDigits]
  BY <1>1, WeightsExist DEF Base
<1>3. Word \in Nat
  BY <1>1, <1>2 DEF Weights
<1> DEFINE I == {k \in 0 .. WordDigits : w[k] > 0}
<1>4. 0 \in I
  BY <1>1, <1>2 DEF Weights
<1>5. ASSUME NEW k \in 1 .. WordDigits, k - 1 \in I PROVE k \in I
  <2>1. w[k] = 16 * w[k - 1] /\ w[k - 1] \in Nat /\ w[k - 1] > 0
    BY <1>1, <1>2, <1>5 DEF Weights
  <2>2. w[k] > 0 /\ k \in 0 .. WordDigits
    BY <2>1
  <2>3. QED BY <2>2
<1> HIDE DEF I
<1>6. \A k \in 0 .. WordDigits : k \in I
  BY <1>1, <1>4, <1>5, Decs!LoopInduction
<1>7. w[WordDigits] > 0
  BY <1>1, <1>6 DEF I
<1>8. QED BY <1>1, <1>2, <1>3, <1>7

\* itoa gives a sign in base 10 only, and then the digits of what is left.
LEMMA ItoaIs ==
  ASSUME NEW base \in Base, NEW arg \in 0 .. Word - 1
  PROVE  \E sign \in Seq({Minus}), number \in Nat :
           /\ Len(sign) = IF base = 10 /\ Negative(arg) THEN 1 ELSE 0
           /\ number = IF base = 10 /\ Negative(arg) THEN Word - arg ELSE arg
           /\ itoa(arg, base) = sign \o Digits(number, base)
<1>1. arg \in Nat /\ Word - arg \in Nat
  BY WordIs
<1>2. CASE base = 10 /\ Negative(arg)
  <2>1. itoa(arg, base) = <<Minus>> \o Digits(Word - arg, base)
    BY <1>2 DEF itoa
  <2>2. <<Minus>> \in Seq({Minus}) /\ Len(<<Minus>>) = 1
    OBVIOUS
  <2>3. QED BY <1>1, <1>2, <2>1, <2>2
<1>3. CASE ~(base = 10 /\ Negative(arg))
  <2>1. itoa(arg, base) = Digits(arg, base)
    BY <1>3 DEF itoa
  <2>2. PICK d \in Seq(Digit) : d = Digits(arg, base)
    <3>1. PICK w : Weights(w, base, 0)
      BY WeightsExist
    <3>2. QED BY <1>1, <3>1, DigitsRead
  <2>3. PICK none \in Seq({Minus}) : Len(none) = 0 /\ none \o d = d
    <3>1. <<>> \in Seq({Minus}) /\ Len(<<>>) = 0 /\ <<>> \o d = d
      OBVIOUS
    <3>2. QED BY <3>1
  <2>4. QED BY <1>1, <1>3, <2>1, <2>2, <2>3
<1>4. QED BY <1>2, <1>3

\* What stands before the digits of a field, and their number.
LEMMA ConvertedIs ==
  ASSUME NEW field \in Fields
  PROVE  \E base \in Base, symbol \in {0, Space}, sign \in Seq({Minus}), number \in Nat :
           \E pad \in Seq({symbol}) :
             /\ base = IF field.spec \in {"d", "u"} THEN 10 ELSE 16
             /\ symbol = IF field.spec = "p" \/ field.zero THEN 0 ELSE Space
             /\ Len(sign) = IF base = 10 /\ Negative(field.arg) THEN 1 ELSE 0
             /\ number = IF base = 10 /\ Negative(field.arg) THEN Word - field.arg ELSE field.arg
             /\ Converted(field) = (pad \o sign) \o Digits(number, base)
             /\ Len(pad) + Len(sign) + Len(Digits(number, base))
                  >= IF field.spec = "p" THEN WordDigits ELSE field.width
<1>1. /\ field.spec \in {"d", "u", "x", "p"} /\ field.zero \in BOOLEAN
      /\ field.width \in Nat /\ field.arg \in 0 .. Word - 1
  BY DEF Fields, Spec_
<1>2. PICK base \in Base : base = IF field.spec \in {"d", "u"} THEN 10 ELSE 16
  BY DEF Base
<1>3. PICK symbol \in {0, Space} : symbol = IF field.spec = "p" \/ field.zero THEN 0 ELSE Space
  OBVIOUS
<1>4. PICK width \in Nat : width = IF field.spec = "p" THEN WordDigits ELSE field.width
  BY <1>1, WordIs
<1>5. PICK sign \in Seq({Minus}), number \in Nat :
           /\ Len(sign) = IF base = 10 /\ Negative(field.arg) THEN 1 ELSE 0
           /\ number = IF base = 10 /\ Negative(field.arg) THEN Word - field.arg ELSE field.arg
           /\ itoa(field.arg, base) = sign \o Digits(number, base)
  BY <1>1, ItoaIs
<1>6. PICK d \in Seq(Digit) : d = Digits(number, base)
  <2>1. PICK w : Weights(w, base, 0)
    BY WeightsExist
  <2>2. QED BY <2>1, DigitsRead
<1>7. PICK t \in Seq(Symbol) : t = sign \o d /\ Len(t) = Len(sign) + Len(d)
  <2>1. sign \in Seq(Symbol) /\ d \in Seq(Symbol)
    BY DEF Symbol, Minus, Digit
  <2>2. sign \o d \in Seq(Symbol) /\ Len(sign \o d) = Len(sign) + Len(d)
    BY <2>1, ConcatProperties, Zenon
  <2>3. QED BY <2>2, Zenon
<1>8. PICK pad \in Seq({symbol}) : /\ pad = Fill(symbol, width - Len(t))
                                   /\ Len(pad) = IF width - Len(t) > 0 THEN width - Len(t) ELSE 0
  <2>1. width - Len(t) \in Int
    OBVIOUS
  <2>2. QED BY <2>1, FillIs
<1>9. Converted(field) = pad \o t
  <2>1. itoa(field.arg, base) = t
    BY <1>5, <1>6, <1>7, Zenon
  <2>2. CASE field.spec = "p"
    <3>1. Converted(field) = Pointer(t)
      BY <1>2, <2>1, <2>2 DEF Converted
    <3>2. QED BY <1>3, <1>4, <1>8, <2>2, <3>1 DEF Pointer
  <2>3. CASE field.spec # "p"
    <3>1. Converted(field) = Padded(field, t)
      BY <1>1, <1>2, <2>1, <2>3 DEF Converted
    <3>2. QED BY <1>3, <1>4, <1>8, <2>3, <3>1 DEF Padded
  <2>4. QED BY <2>2, <2>3
<1>10. pad \o t = (pad \o sign) \o d
  <2>1. pad \in Seq(Symbol) /\ sign \in Seq(Symbol) /\ d \in Seq(Symbol)
    BY DEF Symbol, Minus, Space, Digit
  <2>2. QED BY <1>7, <2>1
<1>11. Len(pad) + Len(sign) + Len(d) >= width
  BY <1>7, <1>8
<1>12. QED BY <1>2, <1>3, <1>4, <1>5, <1>6, <1>8, <1>9, <1>10, <1>11, Zenon

\* A field reads back as FieldsExact says, and is as wide as it was asked to be.
LEMMA FieldReads ==
  ASSUME NEW field \in Fields
  PROVE  /\ Faithful(field, Converted(field))
         /\ Len(Converted(field)) >= IF field.spec = "p" THEN WordDigits ELSE field.width
         /\ Converted(field) \in Seq(Symbol)
<1>1. /\ field.spec \in {"d", "u", "x", "p"} /\ field.zero \in BOOLEAN
      /\ field.width \in Nat /\ field.arg \in 0 .. Word - 1
  BY DEF Fields, Spec_
<1>2. PICK base \in Base, symbol \in {0, Space}, sign \in Seq({Minus}), number \in Nat :
           \E pad \in Seq({symbol}) :
             /\ base = IF field.spec \in {"d", "u"} THEN 10 ELSE 16
             /\ symbol = IF field.spec = "p" \/ field.zero THEN 0 ELSE Space
             /\ Len(sign) = IF base = 10 /\ Negative(field.arg) THEN 1 ELSE 0
             /\ number = IF base = 10 /\ Negative(field.arg) THEN Word - field.arg ELSE field.arg
             /\ Converted(field) = (pad \o sign) \o Digits(number, base)
             /\ Len(pad) + Len(sign) + Len(Digits(number, base))
                  >= IF field.spec = "p" THEN WordDigits ELSE field.width
  BY ConvertedIs
<1>3. PICK pad \in Seq({symbol}) :
             /\ Converted(field) = (pad \o sign) \o Digits(number, base)
             /\ Len(pad) + Len(sign) + Len(Digits(number, base))
                  >= IF field.spec = "p" THEN WordDigits ELSE field.width
  BY <1>2
<1>4. Digits(number, base) \in Seq(Digit) /\ Magnitude(Digits(number, base), base) = number
  <2>1. PICK w : Weights(w, base, 0)
    BY WeightsExist
  <2>2. QED BY <2>1, DigitsRead
<1>5. Len(sign) <= 1
  BY <1>2
<1>6. PICK text : text = Converted(field)
  OBVIOUS
<1>7. /\ text \in Seq(Symbol) /\ Len(text) = Len(pad) + Len(sign) + Len(Digits(number, base))
      /\ Magnitude(text, base) = number
      /\ Contains(text, Minus) <=> Len(sign) = 1
      /\ Len(sign) = 0 \/ symbol = Space => Numeral(text)
  <2>1. PICK d \in Seq(Digit) : d = Digits(number, base)
    BY <1>4
  <2>2. /\ (pad \o sign) \o d \in Seq(Symbol)
        /\ Len((pad \o sign) \o d) = Len(pad) + Len(sign) + Len(d)
        /\ Magnitude((pad \o sign) \o d, base) = Magnitude(d, base)
        /\ Contains((pad \o sign) \o d, Minus) <=> Len(sign) = 1
        /\ Len(sign) = 0 \/ symbol = Space => Numeral((pad \o sign) \o d)
    BY <1>5, TextRead
  <2>3. text = (pad \o sign) \o d
    BY <1>3, <1>6, <2>1, Zenon
  <2>4. QED BY <1>4, <2>1, <2>2, <2>3, Zenon
<1>8. Len(sign) = 0 => Numeral(text) /\ Read(text, base) = field.arg
  <2>1. Len(sign) = 0 => number = field.arg
    BY <1>2
  <2>2. QED BY <1>7, <2>1 DEF Read
<1>9. Len(sign) = 1 => Read(text, base) = Signed(field.arg) /\ base = 10 /\ Negative(field.arg)
  <2>1. Len(sign) = 1 => base = 10 /\ Negative(field.arg)
    <3>1. ~(base = 10 /\ Negative(field.arg)) => Len(sign) = 0
      BY <1>2, Zenon
    <3>2. Len(sign) = 0 => Len(sign) # 1
      OBVIOUS
    <3>3. QED BY <3>1, <3>2, Zenon
  <2>2. Len(sign) = 1 => number = Word - field.arg
    BY <1>2, <2>1, Zenon
  <2>3. Negative(field.arg) => -(Word - field.arg) = Signed(field.arg)
    BY <1>1, WordIs DEF Signed
  <2>4. QED BY <1>7, <2>1, <2>2, <2>3 DEF Read
<1>10. Faithful(field, text)
  <2>1. CASE field.spec \in {"x", "p"}
    <3>1. base = 16 /\ Len(sign) = 0
      BY <1>2, <2>1
    <3>2. QED BY <1>8, <2>1, <3>1 DEF Faithful
  <2>2. CASE field.spec = "d"
    <3>1. base = 10
      BY <1>2, <2>2
    <3>2. ~Negative(field.arg) => Len(sign) = 0 /\ Signed(field.arg) = field.arg
      BY <1>2 DEF Signed
    <3>3. Negative(field.arg) => Len(sign) = 1
      BY <1>2, <3>1
    <3>4. Negative(field.arg) /\ ~field.zero => symbol = Space
      BY <1>2, <2>2
    <3>5. QED BY <1>7, <1>8, <1>9, <2>2, <3>1, <3>2, <3>3, <3>4 DEF Faithful
  <2>3. CASE field.spec = "u"
    <3>1. base = 10 /\ (~Negative(field.arg) => Len(sign) = 0)
      BY <1>2, <2>3
    <3>2. QED BY <1>8, <2>3, <3>1 DEF Faithful
  <2>4. QED BY <1>1, <2>1, <2>2, <2>3
<1>11. QED BY <1>3, <1>6, <1>7, <1>10, Zenon

-----------------------------------------------------------------------------
(* Numbers of two words.                                                   *)

LEMMA Division ==
  ASSUME NEW d \in Nat, d > 0, NEW v \in Nat
  PROVE  /\ v \div d \in Nat /\ v % d \in 0 .. d - 1
         /\ v = (v \div d) * d + (v % d)
         /\ \A b \in Nat : v < b * d => v \div d < b
<1>1. v \div d \in Nat /\ v % d \in 0 .. d - 1
  OBVIOUS
<1>2. v = (v \div d) * d + (v % d)
  OBVIOUS
<1>3. ASSUME NEW b \in Nat, v < b * d PROVE v \div d < b
  <2>1. PICK q \in Nat : q = v \div d /\ q * d <= v
    BY <1>1, <1>2
  <2>2. q >= b => q * d >= b * d
    OBVIOUS
  <2>3. QED BY <1>3, <2>1, <2>2
<1>4. QED BY <1>1, <1>2, <1>3

LEMMA Multiple ==
  ASSUME NEW d \in Nat, d > 0, NEW b \in Nat
  PROVE  (b * d) \div d = b /\ (d * b) \div d = b
<1>1. PICK v \in Nat : v = b * d /\ v = d * b
  OBVIOUS
<1>2. PICK q \in Nat, r \in Nat : q = v \div d /\ r = v % d /\ r < d /\ v = q * d + r
  BY <1>1, Division
<1>3. q < b + 1
  <2>1. v < (b + 1) * d
    BY <1>1
  <2>2. QED BY <1>2, <2>1, Division
<1>4. ~(q < b)
  <2>1. q < b => (q + 1) * d <= b * d
    OBVIOUS
  <2>2. (q + 1) * d = q * d + d
    OBVIOUS
  <2>3. QED BY <1>1, <1>2, <2>1, <2>2
<1>5. q = b
  BY <1>3, <1>4
<1>6. QED BY <1>1, <1>2, <1>5

\* The digits of a word: no more than WordDigits, and with zeros as many.
LEMMA WordText ==
  ASSUME NEW arg \in 0 .. Word - 1
  PROVE  /\ Digits(arg, 16) \in Seq(Digit) /\ Magnitude(Digits(arg, 16), 16) = arg
         /\ Len(Digits(arg, 16)) \in 1 .. WordDigits
<1>1. arg \in Nat /\ WordDigits \in 1 .. WordDigits /\ 16 \in Base
  BY WordIs DEF Base
<1>2. PICK w : Weights(w, 16, WordDigits) /\ Word = w[WordDigits]
  BY <1>1, WordIs, WeightsExist, FormatAssumption
<1>3. /\ Digits(arg, 16) \in Seq(Digit) /\ Len(Digits(arg, 16)) > 0
      /\ Magnitude(Digits(arg, 16), 16) = arg
      /\ \A k \in 1 .. WordDigits : arg < w[k] => Len(Digits(arg, 16)) <= k
  BY <1>1, <1>2, WordIs, DigitsRead
<1>4. Len(Digits(arg, 16)) <= WordDigits
  <2>1. arg < w[WordDigits]
    BY <1>2, WordIs
  <2>2. QED BY <1>1, <1>3, <2>1
<1>5. QED BY <1>3, <1>4, WordIs

\* A number of two words, printed as memory.c:95-99 does, reads back.
LEMMA HalvesRead ==
  ASSUME NEW value \in 0 .. Wide - 1
  PROVE  \E high \in Fields, low \in Fields :
           /\ Halves(value) = <<high, low>>
           /\ Numeral(Converted(high) \o Converted(low))
           /\ Read(Converted(high) \o Converted(low), 16) = value
<1>1. PICK h, l : h = value \div Word /\ l = value % Word
  OBVIOUS
<1>2. h \in 0 .. Word - 1 /\ l \in 0 .. Word - 1 /\ value = h * Word + l
  <2>1. value \in Nat /\ value < Word * Word
    BY WordIs DEF Wide
  <2>2. h \in Nat /\ l \in 0 .. Word - 1 /\ value = h * Word + l /\ h < Word
    BY <1>1, <2>1, WordIs, Division
  <2>3. QED BY <2>2, WordIs
<1>3. PICK high \in Fields, low \in Fields :
          high = Field("x", FALSE, 0, h) /\ low = Field("x", TRUE, WordDigits, l)
  BY <1>2, WordIs DEF Field, Fields, Spec_
<1>4. Halves(value) = <<high, low>>
  BY <1>1, <1>3 DEF Halves
<1>5. PICK a \in Seq(Digit), b \in Seq(Digit) : a = Digits(h, 16) /\ b = Digits(l, 16)
  BY <1>2, WordText
<1>6. Magnitude(a, 16) = h /\ Magnitude(b, 16) = l /\ Len(a) > 0 /\ Len(b) <= WordDigits
  BY <1>2, <1>5, WordText
<1>7. Converted(high) = a
  <2>1. Converted(high) = Padded(high, a)
    BY <1>3, <1>5 DEF Converted, Field, itoa
  <2>2. PICK none \in Seq({Space}) : none = Fill(Space, 0 - Len(a)) /\ Len(none) = 0
    <3>1. 0 - Len(a) \in Int /\ ~(0 - Len(a) > 0)
      BY <1>6
    <3>2. Fill(Space, 0 - Len(a)) \in Seq({Space}) /\ Len(Fill(Space, 0 - Len(a))) = 0
      BY <3>1, FillIs
    <3>3. QED BY <3>2, Zenon
  <2>3. Padded(high, a) = none \o a
    BY <1>3, <2>2 DEF Padded, Field
  <2>4. none \o a = a
    BY <2>2
  <2>5. QED BY <2>1, <2>3, <2>4
<1>8. PICK zeros \in Seq({0}) : /\ Converted(low) = zeros \o b
                                /\ Len(zeros) = WordDigits - Len(b)
  <2>1. Converted(low) = Padded(low, b)
    BY <1>3, <1>5 DEF Converted, Field, itoa
  <2>2. PICK zeros \in Seq({0}) : /\ zeros = Fill(0, WordDigits - Len(b))
                                  /\ Len(zeros) = WordDigits - Len(b)
    <3>1. PICK n \in Nat : n = WordDigits - Len(b)
      <4>1. Len(b) \in Nat /\ WordDigits \in Nat /\ Len(b) <= WordDigits
        BY <1>6, WordIs
      <4>2. WordDigits - Len(b) \in Nat
        BY <4>1
      <4>3. QED BY <4>2
    <3>2. Fill(0, n) \in Seq({0}) /\ Len(Fill(0, n)) = n
      BY FillIs
    <3>3. QED BY <3>1, <3>2, Zenon
  <2>3. Padded(low, b) = zeros \o b
    BY <1>3, <2>2 DEF Padded, Field
  <2>4. QED BY <2>1, <2>2, <2>3
<1>9. PICK c \in Seq(Digit) : c = zeros \o b /\ Len(c) = WordDigits
  <2>1. zeros \in Seq(Digit)
    BY DEF Digit
  <2>2. zeros \o b \in Seq(Digit) /\ Len(zeros \o b) = Len(zeros) + Len(b)
    BY <2>1, ConcatProperties, Zenon
  <2>3. Len(zeros) + Len(b) = WordDigits
    BY <1>6, <1>8, WordIs
  <2>4. QED BY <2>2, <2>3, Zenon
<1>10. Magnitude(c, 16) = l
  <2>1. Magnitude(zeros \o b, 16) = Magnitude(b, 16)
    <3>1. PICK none \in Seq({Minus}) : Len(none) = 0 /\ zeros \o none = zeros
      <4>1. <<>> \in Seq({Minus}) /\ Len(<<>>) = 0 /\ zeros \o <<>> = zeros
        OBVIOUS
      <4>2. QED BY <4>1
    <3>2. Magnitude((zeros \o none) \o b, 16) = Magnitude(b, 16)
      <4>1. 16 \in Base /\ Len(none) <= 1
        BY <3>1 DEF Base
      <4>2. QED BY <4>1, TextRead
    <3>3. QED BY <3>1, <3>2
  <2>2. QED BY <1>6, <1>9, <2>1
<1>11. PICK w : Weights(w, 16, WordDigits) /\ Word = w[WordDigits]
  BY WordIs, WeightsExist, FormatAssumption DEF Base
<1>12. a \in Seq(Symbol) /\ Magnitude(a \o c, 16) = value /\ a \o c \in Seq(Digit)
  <2>1. a \in Seq(Symbol) /\ a \o c \in Seq(Digit)
    BY DEF Symbol, Digit
  <2>2. Magnitude(a \o c, 16) = Magnitude(a, 16) * w[Len(c)] + Magnitude(c, 16)
    <3>1. 16 \in Base /\ WordDigits \in Nat /\ Len(c) <= WordDigits
      BY <1>9, WordIs DEF Base
    <3>2. QED BY <1>11, <2>1, <3>1, MagnitudeJoined
  <2>3. QED BY <1>2, <1>6, <1>9, <1>10, <1>11, <2>1, <2>2
<1>13. Numeral(a \o c) /\ ~Contains(a \o c, Minus)
  <2>1. PICK t \in Seq(Digit) : t = a \o c
    BY <1>12
  <2>2. \A j \in DOMAIN t : t[j] \in Digit
    OBVIOUS
  <2>3. \A j \in DOMAIN t : t[j] # Minus /\ t[j] # Space
    BY <2>2, DigitIs, Zenon
  <2>4. Numeral(t) /\ ~Contains(t, Minus)
    BY <2>3 DEF Numeral, Contains
  <2>5. QED BY <2>1, <2>4
<1>14. Read(a \o c, 16) = value
  BY <1>12, <1>13, Zenon DEF Read
<1>15. QED BY <1>4, <1>7, <1>8, <1>9, <1>13, <1>14, Zenon

-----------------------------------------------------------------------------
(* Lines.                                                                  *)

Label == Memory \cup {"other", "lower", "upper", "count"}
ALine == {Line(label, fields) : label \in Label, fields \in Seq(Fields)}

LEMMA LineIs ==
  ASSUME NEW label, NEW fields \in Seq(Fields), NEW line, line = Line(label, fields)
  PROVE  /\ line.label = label /\ DOMAIN line.fields = DOMAIN fields
         /\ \A n \in DOMAIN fields : line.fields[n].field = fields[n]
                                     /\ line.fields[n].text = Converted(fields[n])
BY DEF Line, Shown

LEMMA LinesAreExact ==
  ASSUME lines \in Seq(ALine)
  PROVE  FieldsExact
<1> SUFFICES ASSUME NEW n \in DOMAIN lines, NEW k \in DOMAIN lines[n].fields
             PROVE  LET shown == lines[n].fields[k]
                    IN  /\ Faithful(shown.field, shown.text)
                        /\ Len(shown.text) >= IF shown.field.spec = "p" THEN WordDigits
                                              ELSE shown.field.width
  BY DEF FieldsExact
<1>1. lines[n] \in ALine
  OBVIOUS
<1>2. PICK label \in Label, fields \in Seq(Fields) : lines[n] = Line(label, fields)
  BY <1>1 DEF ALine
<1>3. k \in DOMAIN fields /\ lines[n].fields[k].field = fields[k]
      /\ lines[n].fields[k].text = Converted(fields[k])
  <2>1. /\ DOMAIN lines[n].fields = DOMAIN fields
        /\ \A j \in DOMAIN fields : lines[n].fields[j].field = fields[j]
                                    /\ lines[n].fields[j].text = Converted(fields[j])
    BY <1>2, LineIs
  <2>2. QED BY <2>1, Zenon
<1>4. fields[k] \in Fields
  BY <1>3
<1>5. QED BY <1>3, <1>4, FieldReads, Zenon

LEMMA UIs ==
  ASSUME NEW value \in Nat
  PROVE  u(value) \in Fields /\ u(value) = Field("u", FALSE, 0, value % Word)
<1>1. value % Word \in 0 .. Word - 1
  BY WordIs
<1>2. QED BY <1>1 DEF u, Field, Fields, Spec_

\* The line of a region says what the region is.
LEMMA RegionLine ==
  ASSUME NEW n \in Nat, NEW region \in Region, region.addr + region.len < Wide
  PROVE  /\ RegionFields(n, region) \in Seq(Fields)
         /\ Line(region.type, RegionFields(n, region)) \in ALine
         /\ Told(Line(region.type, RegionFields(n, region)), region)
<1>1. PICK addr \in Nat, len \in Nat : addr = region.addr /\ len = region.len
  BY DEF Region
<1>2. PICK end \in Nat : end = addr + len
  OBVIOUS
<1>3. /\ region.type \in Label /\ addr \in 0 .. Wide - 1 /\ end \in 0 .. Wide - 1
      /\ end % Wide = end
  <2>1. Wide \in Nat
    BY WordIs DEF Wide
  <2>2. region.type \in Label
    BY DEF Region, Label
  <2>3. end < Wide /\ addr < Wide
    <3>1. addr + len < Wide
      BY <1>1, Zenon
    <3>2. QED BY <1>2, <2>1, <3>1
  <2>4. end % Wide = end
    BY <2>1, <2>3
  <2>5. QED BY <2>1, <2>2, <2>3, <2>4
<1>4. PICK high \in Fields, low \in Fields :
           /\ Halves(addr) = <<high, low>>
           /\ Numeral(Converted(high) \o Converted(low))
           /\ Read(Converted(high) \o Converted(low), 16) = addr
  BY <1>3, HalvesRead, Zenon
<1>5. PICK above \in Fields, below \in Fields :
           /\ Halves(end) = <<above, below>>
           /\ Numeral(Converted(above) \o Converted(below))
           /\ Read(Converted(above) \o Converted(below), 16) = end
  BY <1>3, HalvesRead, Zenon
<1>6. PICK no \in Fields, size \in Fields : no = u(n + 1) /\ size = u(len)
  <2>1. n + 1 \in Nat
    OBVIOUS
  <2>2. QED BY <2>1, UIs
<1>7. PICK fields \in Seq(Fields) : fields = RegionFields(n, region)
          /\ DOMAIN fields = 1 .. 6 /\ fields[2] = high /\ fields[3] = low
          /\ fields[4] = size /\ fields[5] = above /\ fields[6] = below
  <2>1. PICK fields \in Seq(Fields) :
          /\ fields = <<no, high, low, size, above, below>>
          /\ Len(fields) = 6 /\ fields[2] = high /\ fields[3] = low
          /\ fields[4] = size /\ fields[5] = above /\ fields[6] = below
    <3>1. <<no, high, low, size, above, below>> \in Seq(Fields)
      OBVIOUS
    <3>2. QED BY <3>1
  <2>2. /\ Halves(addr)[1] = high /\ Halves(addr)[2] = low
        /\ Halves(end)[1] = above /\ Halves(end)[2] = below
    BY <1>4, <1>5
  <2>3. RegionFields(n, region) = fields
    BY <1>1, <1>2, <1>3, <1>6, <2>1, <2>2, Zenon DEF RegionFields
  <2>4. DOMAIN fields = 1 .. 6
    BY <2>1
  <2>5. QED BY <2>1, <2>3, <2>4, Zenon
<1>8. PICK line : line = Line(region.type, fields)
  OBVIOUS
<1>9. /\ line.label = region.type
      /\ line.fields[2].text = Converted(high) /\ line.fields[3].text = Converted(low)
      /\ line.fields[4].text = Converted(size)
      /\ line.fields[5].text = Converted(above) /\ line.fields[6].text = Converted(below)
  <2>1. 2 \in 1 .. 6 /\ 3 \in 1 .. 6 /\ 4 \in 1 .. 6 /\ 5 \in 1 .. 6 /\ 6 \in 1 .. 6
    OBVIOUS
  <2>2. line.label = region.type /\ \A j \in DOMAIN fields : line.fields[j].text = Converted(fields[j])
    BY <1>8, LineIs
  <2>3. QED BY <1>7, <2>1, <2>2, Zenon
<1>10. len < Word \div 2 => Read(Converted(size), 10) = len
  <2>1. SUFFICES ASSUME len < Word \div 2 PROVE Read(Converted(size), 10) = len
    OBVIOUS
  <2>2. len % Word = len /\ ~(len >= Word \div 2) /\ len \in Nat
    BY <2>1, WordIs
  <2>3. size = Field("u", FALSE, 0, len)
    BY <1>6, <2>2, UIs
  <2>4. size.spec = "u" /\ size.arg = len
    BY <2>3 DEF Field
  <2>5. ~Negative(size.arg)
    BY <2>2, <2>4 DEF Negative
  <2>6. Faithful(size, Converted(size))
    BY FieldReads
  <2>7. QED BY <2>4, <2>5, <2>6 DEF Faithful
<1>11. Told(line, region)
  <2>1. 2 + 1 = 3 /\ 5 + 1 = 6
    OBVIOUS
  <2>2. Joined(line, 2) = addr /\ Joined(line, 5) = end
    BY <1>4, <1>5, <1>9, <2>1, Zenon DEF Joined
  <2>3. Numeral(line.fields[2].text \o line.fields[3].text)
    BY <1>4, <1>9, Zenon
  <2>4. region.len < Word \div 2 => Read(line.fields[4].text, 10) = region.len
    BY <1>1, <1>9, <1>10, Zenon
  <2>5. QED BY <1>1, <1>2, <1>9, <2>2, <2>3, <2>4, Zenon DEF Told
<1>12. line \in ALine
  BY <1>3, <1>8 DEF ALine
<1>13. QED BY <1>7, <1>8, <1>11, <1>12, Zenon

\* The lines of regions among those printed.
PrintedOf(ls) == FoldLeft(OfRegion, <<>>, ls)

LEMMA PrintedMore ==
  ASSUME NEW ls \in Seq(ALine), NEW line \in ALine
  PROVE  PrintedOf(Append(ls, line)) = OfRegion(PrintedOf(ls), line) /\ PrintedOf(<<>>) = <<>>
<1>1. /\ Lined!FoldLeft(OfRegion, <<>>, Append(ls, line))
           = OfRegion(Lined!FoldLeft(OfRegion, <<>>, ls), line)
      /\ Lined!FoldLeft(OfRegion, <<>>, <<>>) = <<>>
  BY Lined!FoldAppend
<1>2. \A s : Lined!FoldLeft(OfRegion, <<>>, s) = FoldLeft(OfRegion, <<>>, s)
  BY DEF FoldLeft, MapThenFoldSet, Max, Lined!FoldLeft, Lined!MapThenFoldSet, Lined!Max
<1>3. QED BY <1>1, <1>2, Zenon DEF PrintedOf

LEMMA PrintedType ==
  ASSUME NEW ls \in Seq(ALine)
  PROVE  PrintedOf(ls) \in Seq(ALine)
<1> DEFINE J == {p \in Seq(ALine) : PrintedOf(p) \in Seq(ALine)}
<1>1. <<>> \in J
  <2>1. PICK line \in ALine : TRUE
    <3>1. <<>> \in Seq(Fields) /\ "other" \in Label
      BY DEF Label
    <3>2. PICK none \in Seq(Fields) : TRUE
      BY <3>1, Zenon
    <3>3. Line("other", none) \in ALine
      BY <3>1 DEF ALine
    <3>4. QED BY <3>3
  <2>2. <<>> \in Seq(ALine)
    OBVIOUS
  <2>3. PrintedOf(<<>>) = <<>>
    BY <2>1, <2>2, PrintedMore
  <2>4. QED BY <2>2, <2>3
<1>2. ASSUME NEW p \in J, NEW line \in ALine PROVE Append(p, line) \in J
  <2>1. PrintedOf(Append(p, line)) = OfRegion(PrintedOf(p), line) /\ Append(p, line) \in Seq(ALine)
    BY PrintedMore
  <2>2. OfRegion(PrintedOf(p), line) \in Seq(ALine)
    <3>1. PrintedOf(p) \in Seq(ALine) /\ Append(PrintedOf(p), line) \in Seq(ALine)
      OBVIOUS
    <3>2. QED BY <3>1, Zenon DEF OfRegion
  <2>3. QED BY <2>1, <2>2
<1> HIDE DEF J
<1>3. ls \in J
  BY <1>1, <1>2, Grown
<1>4. QED BY <1>3 DEF J

-----------------------------------------------------------------------------
(* Where tags and entries are.                                             *)

LEMMA InfoIs ==
  ASSUME NEW info \in Infos
  PROVE  /\ info \in Seq(TagType) /\ Len(info) \in Nat \ {0} /\ DOMAIN info = 1 .. Len(info)
         /\ \A k \in 1 .. Len(info) :
              /\ info[k] \in TagType /\ info[k].size \in Nat /\ info[k].size >= 8
              /\ info[k].lower \in Nat /\ info[k].upper \in Nat
              /\ info[k].type = "end" <=> k = Len(info)
              /\ info[k].type = "mmap" =>
                   /\ info[k].entry_size \in Nat /\ info[k].entry_size >= 24
                   /\ info[k].entries \in Seq(Region)
                   /\ info[k].size = 16 + info[k].entry_size * Len(info[k].entries)
                   /\ \A n \in 1 .. Len(info[k].entries) :
                        info[k].entries[n].addr + info[k].entries[n].len < Wide
<1>1. info \in Seq(TagType) /\ info # <<>>
  BY MemoryMapAssumption
<1>2. Len(info) \in Nat \ {0} /\ DOMAIN info = 1 .. Len(info) /\ \A k \in 1 .. Len(info) : info[k] \in TagType
  BY <1>1
<1>3. ASSUME NEW k \in 1 .. Len(info)
      PROVE  /\ info[k].size \in Nat /\ info[k].lower \in Nat /\ info[k].upper \in Nat
             /\ info[k].entry_size \in Nat /\ info[k].entries \in Seq(Region)
             /\ DOMAIN info[k].entries = 1 .. Len(info[k].entries)
  <2>1. info[k] \in TagType
    BY <1>2
  <2>2. QED BY <2>1 DEF TagType
<1>4. \A k \in DOMAIN info :
            /\ info[k].size >= 8
            /\ info[k].type = "end" <=> k = Len(info)
            /\ info[k].type = "mmap" =>
                 /\ info[k].entry_size >= 24
                 /\ info[k].size = 16 + info[k].entry_size * Len(info[k].entries)
                 /\ \A n \in DOMAIN info[k].entries :
                      info[k].entries[n].addr + info[k].entries[n].len < Wide
  BY MemoryMapAssumption, Zenon
<1>5. QED BY <1>1, <1>2, <1>3, <1>4, Zenon

\* Only one tag is the memory map.
LEMMA OneMap ==
  ASSUME NEW info \in Infos, NEW k \in DOMAIN info, NEW j \in DOMAIN info,
         info[k].type = "mmap", info[j].type = "mmap"
  PROVE  k = j
<1> DEFINE S == {m \in DOMAIN info : info[m].type = "mmap"}
<1>1. Cardinality(S) <= 1 /\ "mmap" \in {"basic", "mmap"}
  BY MemoryMapAssumption
<1>2. IsFiniteSet(S)
  <2>1. DOMAIN info = 1 .. Len(info) /\ Len(info) \in Nat
    BY InfoIs
  <2>2. IsFiniteSet(DOMAIN info)
    BY <2>1, FS_Interval
  <2>3. S \subseteq DOMAIN info
    OBVIOUS
  <2>4. QED BY <2>2, <2>3, FS_Subset
<1>3. k \in S /\ j \in S
  OBVIOUS
<1> HIDE DEF S
<1>4. Cardinality(S) \in Nat
  BY <1>2, FS_CardinalityType
<1>5. Cardinality(S) # 0
  BY <1>2, <1>3, FS_EmptySet
<1>6. \E x : S = {x}
  <2>1. Cardinality(S) = 1
    BY <1>1, <1>4, <1>5
  <2>2. QED BY <1>2, <2>1, FS_Singleton, Zenon
<1>7. QED BY <1>3, <1>6

StartSteps(f, info) ==
  f = [k \in 1 .. Len(info) |-> IF k = 1 THEN 8 ELSE f[k - 1] + RoundUp(info[k - 1].size)]

LEMMA RoundedUp ==
  ASSUME NEW size \in Nat, size >= 8
  PROVE  RoundUp(size) \in Nat /\ RoundUp(size) >= size
BY DEF RoundUp

LEMMA StartsExist ==
  ASSUME NEW info \in Infos
  PROVE  \E f : StartSteps(f, info)
<1> DEFINE Steps(f, n) ==
      f = [k \in 1 .. n |-> IF k = 1 THEN 8 ELSE f[k - 1] + RoundUp(info[k - 1].size)]
<1> DEFINE I == {n \in 0 .. Len(info) : \E f : Steps(f, n)}
<1>1. Len(info) \in Nat
  BY InfoIs
<1>2. 0 \in I
  <2> DEFINE f == [k \in 1 .. 0 |-> 8]
  <2>1. f = [k \in 1 .. 0 |-> IF k = 1 THEN 8 ELSE f[k - 1] + RoundUp(info[k - 1].size)]
    OBVIOUS
  <2> HIDE DEF f
  <2>2. \E g : Steps(g, 0)
    BY <2>1, Zenon
  <2>3. 0 \in 0 .. Len(info)
    BY <1>1
  <2>4. QED BY <2>2, <2>3, Zenon
<1>3. ASSUME NEW n \in 1 .. Len(info), n - 1 \in I PROVE n \in I
  <2>1. PICK g : Steps(g, n - 1)
    BY <1>3
  <2> DEFINE Value(k) == IF k = 1 THEN 8 ELSE g[k - 1] + RoundUp(info[k - 1].size)
             f == [k \in 1 .. n |-> Value(k)]
  <2>2. ASSUME NEW k \in 1 .. n PROVE f[k] = IF k = 1 THEN 8 ELSE f[k - 1] + RoundUp(info[k - 1].size)
    <3>1. f[k] = Value(k)
      OBVIOUS
    <3>2. CASE k = 1
      BY <3>1, <3>2
    <3>3. CASE k # 1
      <4>1. k - 1 \in 1 .. n - 1 /\ k - 1 \in 1 .. n
        BY <3>3
      <4>2. g[k - 1] = Value(k - 1)
        BY <2>1, <4>1
      <4>3. f[k - 1] = Value(k - 1)
        BY <4>1
      <4> HIDE DEF f
      <4>4. f[k - 1] = g[k - 1]
        BY <4>2, <4>3, Zenon
      <4>5. QED BY <3>1, <3>3, <4>4
    <3>4. QED BY <3>2, <3>3
  <2>3. f = [k \in 1 .. n |-> f[k]]
    OBVIOUS
  <2> HIDE DEF f
  <2>4. [k \in 1 .. n |-> f[k]] = [k \in 1 .. n |-> IF k = 1 THEN 8 ELSE f[k - 1] + RoundUp(info[k - 1].size)]
    BY <2>2
  <2>5. Steps(f, n)
    BY <2>3, <2>4, Zenon
  <2>6. n \in 0 .. Len(info)
    BY <1>1
  <2>7. QED BY <2>5, <2>6
<1> HIDE DEF I
<1>4. Len(info) \in I
  <2>1. \A n \in 0 .. Len(info) : n \in I
    BY <1>1, <1>2, <1>3, Decs!LoopInduction, Zenon
  <2>2. Len(info) \in 0 .. Len(info)
    BY <1>1
  <2>3. QED BY <2>1, <2>2, Zenon
<1>5. QED BY <1>4, Zenon DEF I, StartSteps

\* The first tag is at 8, every other one behind the one before it, and no two are at
\* the same place.
LEMMA StartsAre ==
  ASSUME NEW info \in Infos
  PROVE  /\ Starts(info)[1] = 8
         /\ \A k \in 1 .. Len(info) : Starts(info)[k] \in Nat /\ Starts(info)[k] >= 8
         /\ \A k \in 1 .. Len(info) : k + 1 <= Len(info) =>
              Starts(info)[k + 1] = Starts(info)[k] + RoundUp(info[k].size)
         /\ \A k \in 1 .. Len(info), j \in 1 .. Len(info) :
              j < k => Starts(info)[j] < Starts(info)[k]
<1>1. Len(info) \in Nat \ {0} /\ \A k \in 1 .. Len(info) : info[k].size \in Nat /\ info[k].size >= 8
  BY InfoIs
<1> DEFINE s == CHOOSE f : StartSteps(f, info)
<1>2. StartSteps(s, info)
  BY StartsExist
<1>3. Starts(info) = s
  BY DEF Starts, StartSteps
<1> HIDE DEF s
<1>4. \A k \in 1 .. Len(info) : s[k] = IF k = 1 THEN 8 ELSE s[k - 1] + RoundUp(info[k - 1].size)
  BY <1>2 DEF StartSteps
<1>5. s[1] = 8
  BY <1>1, <1>4
<1>6. \A k \in 1 .. Len(info) : k + 1 <= Len(info) => s[k + 1] = s[k] + RoundUp(info[k].size)
  <2>1. ASSUME NEW k \in 1 .. Len(info), k + 1 <= Len(info) PROVE s[k + 1] = s[k] + RoundUp(info[k].size)
    <3>1. k + 1 \in 1 .. Len(info) /\ k + 1 # 1 /\ (k + 1) - 1 = k
      BY <1>1, <2>1
    <3>2. QED BY <1>4, <3>1
  <2>2. QED BY <2>1
<1> DEFINE I == {n \in 0 .. Len(info) :
      \A k \in 1 .. n : s[k] \in Nat /\ s[k] >= 8 /\ \A j \in 1 .. n : j < k => s[j] < s[k]}
<1>7. 0 \in I
  BY <1>1
<1>8. ASSUME NEW n \in 1 .. Len(info), n - 1 \in I PROVE n \in I
  <2>1. n \in 0 .. Len(info) /\ n \in Nat
    BY <1>1
  <2>2. \A k \in 1 .. n - 1 : s[k] \in Nat /\ s[k] >= 8 /\ \A j \in 1 .. n - 1 : j < k => s[j] < s[k]
    BY <1>8
  <2>3. s[n] \in Nat /\ s[n] >= 8 /\ \A j \in 1 .. n - 1 : s[j] < s[n]
    <3>1. CASE n = 1
      BY <1>5, <3>1
    <3>2. CASE n # 1
      <4>1. n - 1 \in 1 .. n - 1 /\ n - 1 \in 1 .. Len(info)
        BY <2>1, <1>1, <3>2
      <4>2. PICK r \in Nat : r = RoundUp(info[n - 1].size) /\ r >= 8
        <5>1. PICK size \in Nat : size = info[n - 1].size /\ size >= 8
          BY <1>1, <4>1
        <5>2. RoundUp(size) \in Nat /\ RoundUp(size) >= 8
          BY <5>1, RoundedUp
        <5>3. QED BY <5>1, <5>2
      <4>3. s[n] = s[n - 1] + r
        BY <1>4, <3>2, <4>2
      <4>4. PICK b \in Nat : b = s[n - 1] /\ b >= 8
        BY <2>2, <4>1
      <4>5. \A j \in 1 .. n - 1 : s[j] \in Nat /\ s[j] <= b
        <5>1. ASSUME NEW j \in 1 .. n - 1 PROVE s[j] \in Nat /\ s[j] <= b
          <6>1. s[j] \in Nat /\ (j < n - 1 => s[j] < s[n - 1])
            BY <2>2, <4>1
          <6>2. j = n - 1 \/ j < n - 1
            BY <2>1
          <6>3. QED BY <4>4, <6>1, <6>2
        <5>2. QED BY <5>1
      <4>6. QED BY <4>2, <4>3, <4>4, <4>5
    <3>3. QED BY <3>1, <3>2
  <2>4. ASSUME NEW k \in 1 .. n
        PROVE  s[k] \in Nat /\ s[k] >= 8 /\ \A j \in 1 .. n : j < k => s[j] < s[k]
    <3>1. k = n \/ k \in 1 .. n - 1
      BY <2>1
    <3>2. \A j \in 1 .. n : j < k => j \in 1 .. n - 1
      BY <2>1
    <3>3. QED BY <2>2, <2>3, <3>1, <3>2, Zenon
  <2>5. QED BY <2>1, <2>4
<1> HIDE DEF I
<1>9. Len(info) \in I
  <2>1. \A n \in 0 .. Len(info) : n \in I
    BY <1>1, <1>7, <1>8, Decs!LoopInduction, Zenon
  <2>2. Len(info) \in 0 .. Len(info)
    BY <1>1
  <2>3. QED BY <2>1, <2>2, Zenon
<1>10. \A k \in 1 .. Len(info) : s[k] \in Nat /\ s[k] >= 8
                                 /\ \A j \in 1 .. Len(info) : j < k => s[j] < s[k]
  BY <1>9, Zenon DEF I
<1>11. QED BY <1>3, <1>5, <1>6, <1>10, Zenon

\* A tag is found where it starts, and the next one behind it.
LEMMA TagIs ==
  ASSUME mbi \in Infos, NEW k \in 1 .. Len(mbi)
  PROVE  /\ OnTag(Start[k]) /\ Tag(Start[k]) = mbi[k]
         /\ Start[k] \in Nat /\ Start[k] >= 8 /\ Start[1] = 8
         /\ k + 1 <= Len(mbi) => /\ NextTag(Start[k]) = Start[k + 1]
                                /\ PmmNextTag(Start[k]) = Start[k + 1]
<1>1. DOMAIN mbi = 1 .. Len(mbi) /\ Start = Starts(mbi)
  BY InfoIs DEF Start
<1>2. OnTag(Start[k])
  BY <1>1 DEF OnTag
<1>3. ASSUME NEW j \in DOMAIN mbi, Start[j] = Start[k] PROVE j = k
  <2>1. j \in 1 .. Len(mbi) /\ Start[j] \in Nat /\ Start[k] \in Nat
    BY <1>1, StartsAre
  <2>2. ~(j < k)
    <3>1. j < k => Start[j] < Start[k]
      BY <1>1, <2>1, StartsAre
    <3>2. QED BY <1>3, <2>1, <3>1
  <2>3. ~(k < j)
    <3>1. k < j => Start[k] < Start[j]
      BY <1>1, <2>1, StartsAre
    <3>2. QED BY <1>3, <2>1, <3>1
  <2>4. QED BY <2>1, <2>2, <2>3
<1>4. TagNo(Start[k]) = k
  BY <1>1, <1>3 DEF TagNo
<1>5. Tag(Start[k]) = mbi[k]
  BY <1>4 DEF Tag
<1>6. k + 1 <= Len(mbi) => /\ NextTag(Start[k]) = Start[k + 1]
                           /\ PmmNextTag(Start[k]) = Start[k + 1]
  <2>1. /\ NextTag(Start[k]) = Start[k] + RoundUp(mbi[k].size)
        /\ PmmNextTag(Start[k]) = Start[k] + RoundUp(mbi[k].size)
    BY <1>5 DEF NextTag, PmmNextTag, RoundUp
  <2>2. QED BY <1>1, <2>1, StartsAre
<1>7. QED BY <1>1, <1>2, <1>5, <1>6, StartsAre

NoMapBefore(k) == \A j \in 1 .. k - 1 : mbi[j].type # "mmap"
MapFoundBefore(k) ==
  \/ mmap_tag = 0 /\ NoMapBefore(k)
  \/ \E j \in MapTags : j < k /\ mmap_tag = Start[j]

\* After n entries of the map in tag k.
Behind(k, n) ==
  /\ k \in MapTags /\ mmap_tag = Start[k] /\ n \in 0 .. Len(mbi[k].entries)
  /\ entry = mmap_tag + 16 + n * mbi[k].entry_size

\* The number of entries is what the size of the tag says, and each one is found at its
\* place.
LEMMA EntryIs ==
  ASSUME mbi \in Infos, NEW k, NEW n, Behind(k, n)
  PROVE  /\ mbi[k].entries \in Seq(Region) /\ Tag(mmap_tag) = mbi[k] /\ n \in Nat
         /\ EntryCount(Tag(mmap_tag)) = Len(mbi[k].entries)
         /\ PmmCount(Tag(mmap_tag)) = Len(mbi[k].entries)
         /\ n < Len(mbi[k].entries) =>
              /\ Entry(entry) = mbi[k].entries[n + 1] /\ mbi[k].entries[n + 1] \in Region
              /\ mbi[k].entries[n + 1].addr + mbi[k].entries[n + 1].len < Wide
              /\ n + 1 \in 0 .. Len(mbi[k].entries)
              /\ entry + Stride(Tag(mmap_tag)) = mmap_tag + 16 + (n + 1) * mbi[k].entry_size
              /\ PmmNextEntry(entry) = mmap_tag + 16 + (n + 1) * mbi[k].entry_size
<1>1. k \in 1 .. Len(mbi) /\ mbi[k].type = "mmap" /\ mmap_tag = Start[k]
  BY InfoIs DEF Behind, MapTags
<1>2. Tag(mmap_tag) = mbi[k] /\ mmap_tag \in Nat
  BY <1>1, TagIs
<1>3. PICK es \in Nat, entries \in Seq(Region) :
         /\ es = mbi[k].entry_size /\ entries = mbi[k].entries /\ es >= 24
         /\ mbi[k].size = 16 + es * Len(entries)
         /\ \A m \in 1 .. Len(entries) : entries[m].addr + entries[m].len < Wide
  BY <1>1, InfoIs
<1>4. PICK total \in Nat : total = Len(entries)
  OBVIOUS
<1>5. EntryCount(mbi[k]) = total
  <2>1. (es * total) \div es = total /\ es * total \in Nat
    <3>1. es > 0
      BY <1>3
    <3>2. es * total \in Nat
      OBVIOUS
    <3>3. QED BY <3>1, <3>2, Multiple, Zenon
  <2>2. (16 + es * total) - 16 = es * total
    BY <2>1
  <2>3. QED BY <1>3, <1>4, <2>1, <2>2, Zenon DEF EntryCount
<1>6. n \in 0 .. total /\ n \in Nat /\ entry = mmap_tag + 16 + n * es
  BY <1>3, <1>4 DEF Behind
<1>7. Entry(entry) = entries[n + 1]
  <2>1. (n * es) \div es = n /\ n * es \in Nat
    <3>1. es > 0 /\ n \in Nat
      BY <1>3, <1>6
    <3>2. n * es \in Nat
      BY <3>1
    <3>3. QED BY <3>1, <3>2, Multiple, Zenon
  <2>2. entry - mmap_tag - 16 = n * es
    BY <1>2, <1>6, <2>1
  <2>3. QED BY <1>2, <1>3, <2>1, <2>2, Zenon DEF Entry
<1>8. entry + es = mmap_tag + 16 + (n + 1) * es
  <2>1. (n + 1) * es = n * es + es /\ n * es \in Nat
    BY <1>6
  <2>2. QED BY <1>2, <1>6, <2>1
<1>9. n < total => n + 1 \in 0 .. total /\ n + 1 \in 1 .. total /\ entries[n + 1] \in Region
  BY <1>4, <1>6
<1>10. /\ Stride(Tag(mmap_tag)) = es /\ PmmNextEntry(entry) = entry + es
       /\ PmmCount(Tag(mmap_tag)) = total /\ EntryCount(Tag(mmap_tag)) = total
  BY <1>2, <1>3, <1>5 DEF Stride, PmmNextEntry, EntryCount, PmmCount
<1>11. QED BY <1>2, <1>3, <1>4, <1>6, <1>7, <1>8, <1>9, <1>10, Zenon

RegionsTold == /\ Len(Printed) = Len(Entries)
               /\ \A n \in 1 .. Len(Entries) : Told(Printed[n], Entries[n])

WalkInv ==
  /\ pc \in {"start", "elsewhere", "walk", "basic", "region", "pmm", "pmm_region", "done"}
  /\ pc = "start" => meminfo = 0 /\ mmap_tag = 0
  /\ pc \in {"start", "walk", "basic"} => lines = <<>>
  /\ pc \in {"start", "walk", "basic", "region", "pmm"} => mmap = <<>>
  /\ pc \in {"start", "walk", "basic", "pmm"} => i = 0
  /\ pc \notin {"start", "elsewhere"} =>
       mbi \in Infos /\ (meminfo = 0 \/ \E j \in DOMAIN mbi : meminfo = Start[j])
  /\ pc = "walk" => \E k \in DOMAIN mbi : at = Start[k] /\ MapFoundBefore(k)
  /\ pc = "basic" => MapFoundBefore(Len(mbi))
  /\ pc = "region" =>
       \E k \in DOMAIN mbi :
         Behind(k, i) /\ Len(Printed) = i
         /\ \A n \in 1 .. i : Told(Printed[n], mbi[k].entries[n])
  /\ pc \in {"pmm", "pmm_region", "done"} => RegionsTold
  /\ pc = "pmm" => \E k \in DOMAIN mbi : at = Start[k] /\ NoMapBefore(k)
  /\ pc = "pmm_region" =>
       \E k \in DOMAIN mbi :
         Behind(k, i) /\ Len(mmap) = i /\ \A n \in 1 .. i : mmap[n] = mbi[k].entries[n]
  /\ pc = "done" => /\ Len(mmap) = Len(Entries)
                    /\ \A n \in 1 .. Len(Entries) : mmap[n] = Entries[n]

TypeInv == lines \in Seq(ALine) /\ mmap \in Seq(Region)

MemoryMapInv == TypeInv /\ WalkInv

LEMMA SameInfo ==
  ASSUME mbi' = mbi
  PROVE  /\ Start' = Start /\ MapTags' = MapTags /\ Entries' = Entries
         /\ \A k : NoMapBefore(k)' = NoMapBefore(k)
BY DEF Start, MapTags, Entries, NoMapBefore

LEMMA PrintedIs ==
  /\ Printed = PrintedOf(lines) /\ Printed' = PrintedOf(lines')
  /\ lines' = lines => Printed' = Printed
BY DEF Printed, PrintedOf

LEMMA EntriesAre ==
  ASSUME mbi \in Infos
  PROVE  /\ \A k \in MapTags : Entries = mbi[k].entries
         /\ MapTags = {} => Entries = <<>>
<1>1. ASSUME NEW k \in MapTags PROVE Entries = mbi[k].entries
  <2> DEFINE c == CHOOSE j \in MapTags : TRUE
  <2>1. c \in MapTags
    BY <1>1
  <2>2. Entries = mbi[c].entries
    BY <1>1 DEF Entries
  <2> HIDE DEF c
  <2>3. c = k
    BY <2>1, OneMap DEF MapTags
  <2>4. QED BY <2>2, <2>3
<1>2. MapTags = {} => Entries = <<>>
  BY DEF Entries
<1>3. QED BY <1>1, <1>2

LEMMA EntriesType ==
  ASSUME mbi \in Infos
  PROVE  DOMAIN Entries = 1 .. Len(Entries)
<1>1. CASE MapTags = {}
  <2>1. Entries = <<>>
    BY <1>1, EntriesAre
  <2>2. QED BY <2>1
<1>2. CASE MapTags # {}
  <2>1. PICK k \in MapTags : TRUE
    BY <1>2
  <2>2. k \in 1 .. Len(mbi) /\ mbi[k].type = "mmap"
    BY InfoIs DEF MapTags
  <2>3. PICK entries \in Seq(Region) : Entries = entries
    BY <2>1, <2>2, InfoIs, EntriesAre
  <2>4. QED BY <2>3
<1>3. QED BY <1>1, <1>2

\* No map before the last tag is no map at all.
LEMMA NoMap ==
  ASSUME mbi \in Infos, NoMapBefore(Len(mbi))
  PROVE  MapTags = {}
<1> SUFFICES ASSUME NEW k \in MapTags PROVE FALSE
  OBVIOUS
<1>1. k \in 1 .. Len(mbi) /\ mbi[k].type = "mmap" /\ Len(mbi) \in Nat
  BY InfoIs DEF MapTags
<1>2. k # Len(mbi)
  <2>1. k = Len(mbi) => mbi[k].type = "end"
    BY <1>1, InfoIs
  <2>2. QED BY <1>1, <2>1
<1>3. k \in 1 .. Len(mbi) - 1
  BY <1>1, <1>2
<1>4. QED BY <1>1, <1>3 DEF NoMapBefore

LEMMA NonePrinted == PrintedOf(<<>>) = <<>> /\ <<>> \in Seq(ALine)
<1>1. PICK none \in Seq(Fields) : TRUE
  <2>1. <<>> \in Seq(Fields)
    OBVIOUS
  <2>2. QED BY <2>1
<1>2. Line("other", none) \in ALine
  <2>1. "other" \in Label
    BY DEF Label
  <2>2. QED BY <2>1 DEF ALine
<1>3. <<>> \in Seq(ALine)
  OBVIOUS
<1>4. QED BY <1>2, <1>3, PrintedMore

\* A line of one number is no line of a region.
LEMMA NumberLine ==
  ASSUME NEW label \in Label, NEW field \in Fields
  PROVE  /\ Line(label, <<field>>) \in ALine
         /\ Line(label, <<field>>).label = label
<1>1. PICK fields \in Seq(Fields) : fields = <<field>>
  <2>1. <<field>> \in Seq(Fields)
    OBVIOUS
  <2>2. QED BY <2>1
<1>2. Line(label, fields) \in ALine
  BY DEF ALine
<1>3. Line(label, fields).label = label
  BY DEF Line
<1>4. QED BY <1>1, <1>2, <1>3

LEMMA OneOrTwo ==
  ASSUME NEW T, NEW a \in T, NEW b \in T
  PROVE  /\ <<a>> \in Seq(T) /\ Append(<<>>, a) = <<a>>
         /\ <<a, b>> \in Seq(T) /\ Append(<<a>>, b) = <<a, b>>
<1>1. <<a>> \in Seq(T) /\ <<a, b>> \in Seq(T)
  OBVIOUS
<1>2. Append(<<>>, a) = <<a>>
  OBVIOUS
<1>3. Append(<<a>>, b) = <<a, b>>
  <2>1. PICK p \in Seq(T) : p = <<a>> /\ Len(p) = 1 /\ p[1] = a
    BY <1>1
  <2>2. PICK q \in Seq(T) : q = <<a, b>> /\ Len(q) = 2 /\ q[1] = a /\ q[2] = b
    BY <1>1
  <2>3. PICK r \in Seq(T) : r = Append(p, b) /\ Len(r) = 2 /\ r[1] = a /\ r[2] = b
    <3>1. Append(p, b) \in Seq(T) /\ Len(Append(p, b)) = Len(p) + 1
      OBVIOUS
    <3>2. Append(p, b)[Len(p) + 1] = b /\ \A j \in 1 .. Len(p) : Append(p, b)[j] = p[j]
      OBVIOUS
    <3>3. Len(p) + 1 = 2 /\ 1 \in 1 .. Len(p)
      BY <2>1
    <3>4. QED BY <2>1, <3>1, <3>2, <3>3, Zenon
  <2>4. \A j \in 1 .. Len(q) : r[j] = q[j]
    BY <2>2, <2>3
  <2>5. r = q
    BY <2>2, <2>3, <2>4, SeqEqual
  <2>6. QED BY <2>1, <2>2, <2>3, <2>5, Zenon
<1>4. QED BY <1>1, <1>2, <1>3

LEMMA BasicLinesAre ==
  ASSUME mbi \in Infos, meminfo = 0 \/ \E j \in DOMAIN mbi : meminfo = Start[j]
  PROVE  BasicLines \in Seq(ALine) /\ PrintedOf(BasicLines) = <<>>
<1>1. CASE meminfo = 0
  BY <1>1, NonePrinted DEF BasicLines
<1>2. CASE meminfo # 0
  <2>1. PICK j \in 1 .. Len(mbi) : meminfo = Start[j] /\ Tag(meminfo) = mbi[j]
    BY <1>2, InfoIs, TagIs
  <2>2. mbi[j].lower \in Nat /\ mbi[j].upper \in Nat /\ Kilo \in Nat
    BY InfoIs, MemoryMapAssumption
  <2>3. mbi[j].lower * Kilo \in Nat /\ mbi[j].upper * Kilo \in Nat
    BY <2>2
  <2>4. PICK lower \in ALine, upper \in ALine :
             /\ lower = Line("lower", <<u(mbi[j].lower * Kilo)>>)
             /\ upper = Line("upper", <<u(mbi[j].upper * Kilo)>>)
             /\ lower.label = "lower" /\ upper.label = "upper"
    <3>1. u(mbi[j].lower * Kilo) \in Fields /\ u(mbi[j].upper * Kilo) \in Fields
      BY <2>3, UIs
    <3>2. "lower" \in Label /\ "upper" \in Label
      BY DEF Label
    <3>3. QED BY <3>1, <3>2, NumberLine
  <2>5. "lower" \notin Memory /\ "upper" \notin Memory
    BY DEF Memory
  <2>6. OfRegion(<<>>, lower) = <<>> /\ OfRegion(<<>>, upper) = <<>>
    BY <2>4, <2>5, Zenon DEF OfRegion
  <2>7. PICK none \in Seq(ALine) : none = <<>>
    BY NonePrinted
  <2>8. PICK one \in Seq(ALine) : one = Append(none, lower) /\ one = <<lower>>
    BY <2>7, OneOrTwo, Zenon
  <2>9. PICK two \in Seq(ALine) : two = Append(one, upper) /\ two = <<lower, upper>>
    BY <2>8, OneOrTwo, Zenon
  <2>10. PrintedOf(one) = <<>>
    BY <2>6, <2>7, <2>8, NonePrinted, PrintedMore, Zenon
  <2>11. PrintedOf(two) = <<>>
    BY <2>6, <2>9, <2>10, PrintedMore, Zenon
  <2>12. BasicLines = two
    BY <1>2, <2>1, <2>4, <2>9, Zenon DEF BasicLines
  <2>13. QED BY <2>11, <2>12
<1>3. QED BY <1>1, <1>2

-----------------------------------------------------------------------------
(* The invariant.                                                          *)

LEMMA InitHolds == Init => MemoryMapInv
<1> SUFFICES ASSUME Init PROVE MemoryMapInv
  OBVIOUS
<1>1. <<>> \in Seq(ALine) /\ <<>> \in Seq(Region)
  OBVIOUS
<1>2. QED BY <1>1 DEF Init, MemoryMapInv, TypeInv, WalkInv

LEMMA OtherLine ==
  ASSUME MemoryMapInv, NEW field \in Others, kprintf(field)
  PROVE  MemoryMapInv'
<1>1. field \in Fields
  BY MemoryMapAssumption
<1>2. "other" \in Label
  BY DEF Label
<1>3. Line("other", <<field>>) \in ALine
  BY <1>1, <1>2, NumberLine
<1>4. <<Line("other", <<field>>)>> \in Seq(ALine)
  BY <1>3
<1>5. TypeInv'
  BY <1>4, Zenon DEF MemoryMapInv, TypeInv, kprintf
<1>6. WalkInv'
  BY DEF MemoryMapInv, WalkInv, kprintf
<1>7. QED BY <1>5, <1>6 DEF MemoryMapInv

LEMMA PrintingStarts ==
  ASSUME MemoryMapInv, NEW info \in Infos, memory_print_map(info)
  PROVE  MemoryMapInv'
<1>1. /\ pc' = "walk" /\ mbi' = info /\ at' = 8
      /\ meminfo' = 0 /\ mmap_tag' = 0 /\ lines' = <<>> /\ mmap' = <<>> /\ i' = 0
      /\ lines' = lines /\ mmap' = mmap
  BY DEF MemoryMapInv, WalkInv, memory_print_map, found
<1>2. Start'[1] = 8 /\ 1 \in DOMAIN mbi'
  BY <1>1, StartsAre, InfoIs DEF Start
<1>3. MapFoundBefore(1)'
  BY <1>1 DEF MapFoundBefore, NoMapBefore
<1>4. TypeInv'
  BY <1>1 DEF MemoryMapInv, TypeInv
<1>5. WalkInv'
  BY <1>1, <1>2, <1>3 DEF WalkInv
<1>6. QED BY <1>4, <1>5 DEF MemoryMapInv

LEMMA TagsWalked ==
  ASSUME MemoryMapInv, walk_tags
  PROVE  MemoryMapInv'
<1>1. /\ pc = "walk" /\ mbi \in Infos /\ mbi' = mbi /\ lines' = lines /\ mmap' = mmap /\ i' = i
      /\ lines = <<>> /\ mmap = <<>> /\ i = 0
  BY DEF MemoryMapInv, WalkInv, walk_tags
<1>2. PICK k \in 1 .. Len(mbi) : at = Start[k] /\ MapFoundBefore(k)
  BY <1>1, InfoIs DEF MemoryMapInv, WalkInv
<1>3. DOMAIN mbi = 1 .. Len(mbi) /\ Len(mbi) \in Nat /\ Tag(at) = mbi[k]
  BY <1>1, <1>2, InfoIs, TagIs
<1>4. TypeInv'
  BY <1>1 DEF MemoryMapInv, TypeInv
<1>5. Start' = Start /\ MapTags' = MapTags /\ \A j : NoMapBefore(j)' = NoMapBefore(j)
  BY <1>1, SameInfo
<1>6. meminfo' = 0 \/ \E j \in DOMAIN mbi : meminfo' = Start[j]
  <2>1. meminfo' = meminfo \/ meminfo' = at
    BY DEF walk_tags, found
  <2>2. QED BY <1>1, <1>2, <1>3, <2>1 DEF MemoryMapInv, WalkInv
<1>7. CASE Tag(at).type = "end"
  <2>1. k = Len(mbi)
    BY <1>1, <1>3, <1>7, InfoIs
  <2>2. pc' = "basic" /\ mmap_tag' = mmap_tag
    BY <1>7 DEF walk_tags, found
  <2>3. MapFoundBefore(Len(mbi))'
    BY <1>1, <1>2, <1>5, <2>1, <2>2 DEF MapFoundBefore
  <2>4. WalkInv'
    BY <1>1, <1>5, <1>6, <2>2, <2>3 DEF WalkInv
  <2>5. QED BY <1>4, <2>4 DEF MemoryMapInv
<1>8. CASE Tag(at).type # "end"
  <2>1. k + 1 \in 1 .. Len(mbi)
    <3>1. k # Len(mbi)
      BY <1>1, <1>3, <1>8, InfoIs
    <3>2. PICK n \in Nat : n = Len(mbi)
      BY <1>3
    <3>3. k \in 1 .. n /\ k # n
      BY <3>1, <3>2
    <3>4. k + 1 \in 1 .. n
      BY <3>3
    <3>5. QED BY <3>2, <3>4
  <2>2. /\ pc' = "walk" /\ at' = NextTag(at)
        /\ mmap_tag' = IF mbi[k].type = "mmap" THEN at ELSE mmap_tag
    BY <1>1, <1>3, <1>8 DEF walk_tags
  <2>3. at' = Start[k + 1]
    BY <1>1, <1>2, <2>1, <2>2, TagIs
  <2>4. MapFoundBefore(k + 1)'
    <3>1. CASE mbi[k].type = "mmap"
      <4>1. k \in MapTags /\ k < k + 1 /\ mmap_tag' = Start[k]
        BY <1>2, <1>3, <2>2, <3>1 DEF MapTags
      <4>2. QED BY <1>5, <4>1 DEF MapFoundBefore
    <3>2. CASE mbi[k].type # "mmap"
      <4>1. mmap_tag' = mmap_tag
        BY <2>2, <3>2
      <4>2. NoMapBefore(k) => NoMapBefore(k + 1)
        <5>1. \A j \in 1 .. (k + 1) - 1 : j = k \/ j \in 1 .. k - 1
          OBVIOUS
        <5>2. QED BY <3>2, <5>1 DEF NoMapBefore
      <4>3. \A j \in MapTags : j < k => j < k + 1
        BY <1>3 DEF MapTags
      <4>4. QED BY <1>2, <1>5, <4>1, <4>2, <4>3 DEF MapFoundBefore
    <3>3. QED BY <3>1, <3>2
  <2>5. WalkInv'
    BY <1>1, <1>3, <1>5, <1>6, <2>1, <2>2, <2>3, <2>4 DEF WalkInv
  <2>6. QED BY <1>4, <2>5 DEF MemoryMapInv
<1>9. QED BY <1>7, <1>8

LEMMA BasicPrinted ==
  ASSUME MemoryMapInv, print_basic
  PROVE  MemoryMapInv'
<1>1. /\ pc = "basic" /\ mbi \in Infos /\ mbi' = mbi /\ mmap' = mmap /\ mmap = <<>> /\ i' = 0
      /\ meminfo' = meminfo /\ mmap_tag' = mmap_tag /\ MapFoundBefore(Len(mbi))
      /\ meminfo = 0 \/ \E j \in DOMAIN mbi : meminfo = Start[j]
  BY DEF MemoryMapInv, WalkInv, print_basic, found
<1>2. BasicLines \in Seq(ALine) /\ PrintedOf(BasicLines) = <<>>
  BY <1>1, BasicLinesAre
<1>3. /\ Start' = Start /\ MapTags' = MapTags /\ Entries' = Entries
      /\ \A j : NoMapBefore(j)' = NoMapBefore(j)
  BY <1>1, SameInfo
<1>4. DOMAIN mbi = 1 .. Len(mbi) /\ Len(mbi) \in Nat \ {0}
  BY <1>1, InfoIs
<1>5. CASE mmap_tag = 0
  <2>1. lines' = BasicLines /\ pc' = "pmm" /\ at' = 8
    BY <1>5 DEF print_basic
  <2>2. NoMapBefore(Len(mbi))
    <3>1. \A j \in MapTags : mmap_tag # Start[j]
      <4>1. ASSUME NEW j \in MapTags PROVE Start[j] # 0
        <5>1. j \in 1 .. Len(mbi)
          BY <1>4 DEF MapTags
        <5>2. Start[j] \in Nat /\ Start[j] >= 8
          BY <1>1, <5>1, TagIs
        <5>3. QED BY <5>2
      <4>2. QED BY <1>5, <4>1
    <3>2. QED BY <1>1, <3>1 DEF MapFoundBefore
  <2>3. Entries = <<>>
    BY <1>1, <2>2, NoMap, EntriesAre
  <2>4. Printed' = <<>>
    BY <1>2, <2>1, PrintedIs
  <2>5. RegionsTold'
    BY <1>3, <2>3, <2>4 DEF RegionsTold
  <2>6. 1 \in DOMAIN mbi /\ at' = Start[1] /\ NoMapBefore(1)
    BY <1>1, <1>4, <2>1, TagIs DEF NoMapBefore
  <2>7. TypeInv'
    BY <1>1, <1>2, <2>1 DEF MemoryMapInv, TypeInv
  <2>8. WalkInv'
    BY <1>1, <1>3, <2>1, <2>5, <2>6 DEF WalkInv
  <2>9. QED BY <2>7, <2>8 DEF MemoryMapInv
<1>6. CASE mmap_tag # 0
  <2>1. /\ lines' = Append(BasicLines, Line("count", <<u(EntryCount(Tag(mmap_tag)))>>))
        /\ entry' = mmap_tag + 16 /\ pc' = "region"
    BY <1>6 DEF print_basic
  <2>2. PICK k \in MapTags : mmap_tag = Start[k]
    BY <1>1, <1>6 DEF MapFoundBefore
  <2>3. k \in 1 .. Len(mbi) /\ mbi[k].type = "mmap"
    BY <1>4, <2>2 DEF MapTags
  <2>4. PICK es \in Nat, total \in Nat :
            /\ es = mbi[k].entry_size /\ total = Len(mbi[k].entries) /\ es >= 24
            /\ mbi[k].size = 16 + es * total
    BY <1>1, <2>3, InfoIs
  <2>5. EntryCount(Tag(mmap_tag)) \in Nat
    <3>1. Tag(mmap_tag) = mbi[k]
      BY <1>1, <2>2, <2>3, TagIs
    <3>2. es * total \in Nat /\ (16 + es * total) - 16 = es * total /\ es > 0
      <4>1. es * total \in Nat
        OBVIOUS
      <4>2. (16 + es * total) - 16 = es * total
        BY <4>1
      <4>3. QED BY <2>4, <4>1, <4>2
    <3>3. (es * total) \div es = total
      BY <3>2, Multiple
    <3>4. EntryCount(Tag(mmap_tag)) = total
      BY <2>4, <3>1, <3>2, <3>3, Zenon DEF EntryCount
    <3>5. QED BY <3>4
  <2>6. PICK line \in ALine : lines' = Append(BasicLines, line) /\ line.label = "count"
    <3>1. u(EntryCount(Tag(mmap_tag))) \in Fields /\ "count" \in Label
      BY <2>5, UIs DEF Label
    <3>2. QED BY <2>1, <3>1, NumberLine
  <2>7. Printed' = <<>>
    <3>1. "count" \notin Memory
      BY DEF Memory
    <3>2. OfRegion(<<>>, line) = <<>>
      BY <2>6, <3>1, Zenon DEF OfRegion
    <3>3. QED BY <1>2, <2>6, <3>2, PrintedMore, PrintedIs, Zenon
  <2>8. lines' \in Seq(ALine)
    BY <1>2, <2>6
  <2>9. Behind(k, 0)'
    <3>1. entry' = mmap_tag + 16 + 0 * es
      <4>1. mmap_tag \in Nat
        BY <1>1, <2>2, <2>3, TagIs
      <4>2. QED BY <2>1, <4>1
    <3>2. 0 \in 0 .. total
      OBVIOUS
    <3>3. QED BY <1>1, <1>3, <2>2, <2>4, <3>1, <3>2 DEF Behind
  <2>10. Len(Printed') = 0
    BY <2>7
  <2>11. TypeInv'
    BY <1>1, <2>8 DEF MemoryMapInv, TypeInv
  <2>12. WalkInv'
    BY <1>1, <1>3, <1>4, <2>1, <2>3, <2>9, <2>10 DEF WalkInv
  <2>13. QED BY <2>11, <2>12 DEF MemoryMapInv
<1>7. QED BY <1>5, <1>6

LEMMA RegionPrinted ==
  ASSUME MemoryMapInv, print_region
  PROVE  MemoryMapInv'
<1>1. /\ pc = "region" /\ mbi \in Infos /\ mbi' = mbi /\ mmap' = mmap /\ mmap = <<>>
      /\ meminfo' = meminfo
      /\ meminfo = 0 \/ \E j \in DOMAIN mbi : meminfo = Start[j]
  BY DEF MemoryMapInv, WalkInv, print_region
<1>2. /\ Start' = Start /\ MapTags' = MapTags /\ Entries' = Entries
      /\ \A j : NoMapBefore(j)' = NoMapBefore(j)
  BY <1>1, SameInfo
<1>3. PICK k \in DOMAIN mbi :
           /\ Behind(k, i) /\ Len(Printed) = i
           /\ \A n \in 1 .. i : Told(Printed[n], mbi[k].entries[n])
  BY <1>1 DEF MemoryMapInv, WalkInv
<1>4. PICK entries \in Seq(Region), total \in Nat : entries = mbi[k].entries /\ total = Len(entries)
  <2>1. mbi[k].entries \in Seq(Region)
    BY <1>1, <1>3, EntryIs
  <2>2. Len(mbi[k].entries) \in Nat
    BY <2>1
  <2>3. QED BY <2>1, <2>2
<1>5. /\ EntryCount(Tag(mmap_tag)) = total /\ i \in Nat /\ i \in 0 .. total
      /\ Tag(mmap_tag) = mbi[k]
  BY <1>1, <1>3, <1>4, EntryIs DEF Behind
<1>6. CASE i < EntryCount(Tag(mmap_tag))
  <2>1. /\ lines' = Append(lines, Line(Entry(entry).type, RegionFields(i, Entry(entry))))
        /\ entry' = entry + Stride(Tag(mmap_tag))
        /\ i' = i + 1 /\ pc' = pc /\ at' = at /\ mmap_tag' = mmap_tag
    BY <1>5, <1>6 DEF print_region
  <2>2. PICK region \in Region :
             /\ region = Entry(entry) /\ region = entries[i + 1]
             /\ region.addr + region.len < Wide
    BY <1>1, <1>3, <1>4, <1>5, <1>6, EntryIs
  <2>3. PICK line \in ALine :
             line = Line(region.type, RegionFields(i, region)) /\ Told(line, region)
    BY <1>5, <2>2, RegionLine
  <2>4. lines' = Append(lines, line) /\ lines \in Seq(ALine)
    BY <2>1, <2>2, <2>3, Zenon DEF MemoryMapInv, TypeInv
  <2>5. lines' \in Seq(ALine)
    BY <2>4
  <2>6. line.label \in Memory
    <3>1. line.label = region.type
      BY <2>3, Zenon DEF Told
    <3>2. QED BY <3>1 DEF Region
  <2>7. PICK old \in Seq(ALine) : old = Printed /\ Printed' = Append(old, line) /\ Len(old) = i
    <3>1. PrintedOf(lines) \in Seq(ALine) /\ PrintedOf(lines') = OfRegion(PrintedOf(lines), line)
      BY <2>4, PrintedMore, PrintedType, Zenon
    <3>2. PrintedOf(lines') = Append(PrintedOf(lines), line)
      BY <2>6, <3>1, Zenon DEF OfRegion
    <3>3. QED BY <1>3, <3>1, <3>2, PrintedIs, Zenon
  <2>8. PICK new \in Seq(ALine) : new = Printed' /\ new = Append(old, line)
    <3>1. Append(old, line) \in Seq(ALine)
      OBVIOUS
    <3>2. QED BY <2>7, <3>1
  <2>9. Len(new) = i + 1 /\ new[i + 1] = line /\ \A n \in 1 .. i : new[n] = old[n]
    BY <2>7, <2>8
  <2>10. \A n \in 1 .. i + 1 : Told(new[n], entries[n])
    <3>1. \A n \in 1 .. i + 1 : n = i + 1 \/ n \in 1 .. i
      BY <1>5
    <3>2. Told(new[i + 1], entries[i + 1])
      BY <2>2, <2>3, <2>9, Zenon
    <3>3. ASSUME NEW n \in 1 .. i PROVE Told(new[n], entries[n])
      BY <1>3, <1>4, <2>7, <2>9, Zenon
    <3>4. QED BY <3>1, <3>2, <3>3, Zenon
  <2>11. Behind(k, i)'
    <3>1. /\ i + 1 \in 0 .. Len(mbi[k].entries)
          /\ entry + Stride(Tag(mmap_tag)) = mmap_tag + 16 + (i + 1) * mbi[k].entry_size
      BY <1>1, <1>3, <1>4, <1>5, <1>6, EntryIs
    <3>2. k \in MapTags /\ mmap_tag = Start[k]
      BY <1>3 DEF Behind
    <3>3. QED BY <1>1, <1>2, <2>1, <3>1, <3>2, Zenon DEF Behind
  <2>12. /\ Len(Printed') = i'
         /\ \A n \in 1 .. i' : Told(Printed'[n], mbi'[k].entries[n])
    BY <1>1, <1>4, <2>1, <2>8, <2>9, <2>10, Zenon
  <2>13. \A l, r : Told(l, r)' = Told(l, r)
    BY DEF Told, Joined
  <2>14. TypeInv'
    BY <1>1, <2>5, Zenon DEF MemoryMapInv, TypeInv
  <2>15. WalkInv'
    BY <1>1, <1>2, <2>1, <2>11, <2>12, <2>13, Zenon DEF WalkInv
  <2>16. QED BY <2>14, <2>15 DEF MemoryMapInv
<1>7. CASE i = EntryCount(Tag(mmap_tag))
  <2>1. pc' = "pmm" /\ at' = 8 /\ i' = 0 /\ lines' = lines
    BY <1>5, <1>7 DEF print_region
  <2>2. Entries = entries
    BY <1>1, <1>3, <1>4, EntriesAre DEF Behind
  <2>3. RegionsTold'
    <3>1. Printed' = Printed
      BY <2>1, PrintedIs
    <3>2. Len(Printed) = Len(Entries) /\ \A n \in 1 .. Len(Entries) : Told(Printed[n], Entries[n])
      BY <1>3, <1>4, <1>5, <1>7, <2>2, Zenon
    <3>3. QED BY <1>2, <3>1, <3>2, Zenon DEF RegionsTold
  <2>4. 1 \in DOMAIN mbi /\ at' = Start[1] /\ NoMapBefore(1)
    <3>1. Len(mbi) \in Nat \ {0} /\ DOMAIN mbi = 1 .. Len(mbi)
      BY <1>1, InfoIs
    <3>2. 1 \in 1 .. Len(mbi)
      BY <3>1
    <3>3. QED BY <1>1, <2>1, <3>1, <3>2, TagIs DEF NoMapBefore
  <2>5. TypeInv'
    BY <1>1, <2>1 DEF MemoryMapInv, TypeInv
  <2>6. WalkInv'
    BY <1>1, <1>2, <2>1, <2>3, <2>4 DEF WalkInv
  <2>7. QED BY <2>5, <2>6 DEF MemoryMapInv
<1>8. QED BY <1>5, <1>6, <1>7 DEF print_region

LEMMA MapSought ==
  ASSUME MemoryMapInv, pmm_find_mmap
  PROVE  MemoryMapInv'
<1>1. /\ pc = "pmm" /\ mbi \in Infos /\ mbi' = mbi /\ lines' = lines /\ mmap' = mmap
      /\ i' = i /\ i = 0 /\ mmap = <<>> /\ RegionsTold /\ meminfo' = meminfo
      /\ meminfo = 0 \/ \E j \in DOMAIN mbi : meminfo = Start[j]
  BY DEF MemoryMapInv, WalkInv, pmm_find_mmap
<1>2. PICK k \in 1 .. Len(mbi) : at = Start[k] /\ NoMapBefore(k)
  BY <1>1, InfoIs DEF MemoryMapInv, WalkInv
<1>3. /\ DOMAIN mbi = 1 .. Len(mbi) /\ Len(mbi) \in Nat /\ Tag(at) = mbi[k]
      /\ at \in Nat
      /\ mbi[k].type = "end" <=> k = Len(mbi)
  BY <1>1, <1>2, InfoIs, TagIs
<1>4. TypeInv'
  BY <1>1 DEF MemoryMapInv, TypeInv
<1>5. /\ Start' = Start /\ MapTags' = MapTags /\ Entries' = Entries
      /\ \A j : NoMapBefore(j)' = NoMapBefore(j)
  BY <1>1, SameInfo
<1>6. RegionsTold'
  BY <1>1, <1>5, PrintedIs DEF RegionsTold
<1>7. CASE Tag(at).type = "end"
  <2>1. pc' = "done"
    BY <1>7 DEF pmm_find_mmap
  <2>2. Entries = <<>>
    <3>1. k = Len(mbi)
      BY <1>3, <1>7
    <3>2. NoMapBefore(Len(mbi))
      BY <1>2, <3>1
    <3>3. QED BY <1>1, <3>2, NoMap, EntriesAre
  <2>3. Len(mmap') = Len(Entries') /\ \A n \in 1 .. Len(Entries') : mmap'[n] = Entries'[n]
    BY <1>1, <1>5, <2>2
  <2>4. WalkInv'
    BY <1>1, <1>5, <1>6, <2>1, <2>3 DEF WalkInv
  <2>5. QED BY <1>4, <2>4 DEF MemoryMapInv
<1>8. CASE Tag(at).type = "mmap"
  <2>1. pc' = "pmm_region" /\ mmap_tag' = at /\ entry' = at + 16
    BY <1>8 DEF pmm_find_mmap
  <2>2. k \in MapTags
    BY <1>3, <1>8 DEF MapTags
  <2>3. PICK es \in Nat, total \in Nat : es = mbi[k].entry_size /\ total = Len(mbi[k].entries)
    <3>1. mbi[k].entry_size \in Nat /\ mbi[k].entries \in Seq(Region)
      BY <1>1, <1>2, <1>3, <1>8, InfoIs
    <3>2. Len(mbi[k].entries) \in Nat
      BY <3>1
    <3>3. QED BY <3>1, <3>2
  <2>4. Behind(k, 0)'
    <3>1. entry' = at + 16 + 0 * es /\ 0 \in 0 .. total
      <4>1. at \in Nat /\ entry' = at + 16
        BY <1>3, <2>1
      <4>2. 0 * es = 0 /\ 0 \in 0 .. total
        OBVIOUS
      <4>3. QED BY <4>1, <4>2
    <3>2. QED BY <1>1, <1>2, <1>5, <2>1, <2>2, <2>3, <3>1 DEF Behind
  <2>5. Behind(k, i)' /\ Len(mmap') = i' /\ \A n \in 1 .. i' : mmap'[n] = mbi'[k].entries[n]
    BY <1>1, <2>4 DEF Behind
  <2>6. WalkInv'
    BY <1>1, <1>3, <1>5, <1>6, <2>1, <2>5 DEF WalkInv
  <2>7. QED BY <1>4, <2>6 DEF MemoryMapInv
<1>9. CASE Tag(at).type \notin {"end", "mmap"}
  <2>1. pc' = "pmm" /\ at' = PmmNextTag(at)
    BY <1>1, <1>9 DEF pmm_find_mmap
  <2>2. k + 1 \in 1 .. Len(mbi) /\ k + 1 <= Len(mbi)
    <3>1. PICK n \in Nat : n = Len(mbi)
      BY <1>3
    <3>2. k \in 1 .. n /\ k # n
      BY <1>3, <1>9, <3>1
    <3>3. k + 1 \in 1 .. n /\ k + 1 <= n
      BY <3>2
    <3>4. QED BY <3>1, <3>3
  <2>3. at' = Start[k + 1]
    BY <1>1, <1>2, <2>1, <2>2, TagIs
  <2>4. NoMapBefore(k + 1)
    <3>1. \A j \in 1 .. (k + 1) - 1 : j = k \/ j \in 1 .. k - 1
      OBVIOUS
    <3>2. mbi[k].type # "mmap"
      BY <1>3, <1>9
    <3>3. QED BY <1>2, <3>1, <3>2 DEF NoMapBefore
  <2>5. WalkInv'
    BY <1>1, <1>3, <1>5, <1>6, <2>1, <2>2, <2>3, <2>4 DEF WalkInv
  <2>6. QED BY <1>4, <2>5 DEF MemoryMapInv
<1>10. QED BY <1>7, <1>8, <1>9

LEMMA RegionRead ==
  ASSUME MemoryMapInv, pmm_init
  PROVE  MemoryMapInv'
<1>1. /\ pc = "pmm_region" /\ mbi \in Infos /\ mbi' = mbi /\ lines' = lines
      /\ meminfo' = meminfo /\ mmap_tag' = mmap_tag /\ RegionsTold
      /\ meminfo = 0 \/ \E j \in DOMAIN mbi : meminfo = Start[j]
  BY DEF MemoryMapInv, WalkInv, pmm_init, found
<1>2. /\ Start' = Start /\ MapTags' = MapTags /\ Entries' = Entries
      /\ \A j : NoMapBefore(j)' = NoMapBefore(j)
  BY <1>1, SameInfo
<1>3. RegionsTold'
  BY <1>1, <1>2, PrintedIs DEF RegionsTold
<1>4. PICK k \in DOMAIN mbi :
           Behind(k, i) /\ Len(mmap) = i /\ \A n \in 1 .. i : mmap[n] = mbi[k].entries[n]
  BY <1>1 DEF MemoryMapInv, WalkInv
<1>5. PICK entries \in Seq(Region), total \in Nat : entries = mbi[k].entries /\ total = Len(entries)
  <2>1. mbi[k].entries \in Seq(Region)
    BY <1>1, <1>4, EntryIs
  <2>2. Len(mbi[k].entries) \in Nat
    BY <2>1
  <2>3. QED BY <2>1, <2>2
<1>6. /\ PmmCount(Tag(mmap_tag)) = total /\ i \in Nat /\ i \in 0 .. total
  BY <1>1, <1>4, <1>5, EntryIs DEF Behind
<1>7. PICK old \in Seq(Region) : old = mmap
  BY DEF MemoryMapInv, TypeInv
<1>8. CASE i < PmmCount(Tag(mmap_tag))
  <2>1. /\ mmap' = Append(mmap, Entry(entry)) /\ entry' = PmmNextEntry(entry)
        /\ i' = i + 1 /\ pc' = pc
    BY <1>6, <1>8 DEF pmm_init
  <2>2. PICK region \in Region : region = Entry(entry) /\ region = entries[i + 1]
    BY <1>1, <1>4, <1>5, <1>6, <1>8, EntryIs
  <2>3. PICK new \in Seq(Region) : new = mmap' /\ new = Append(old, region)
    <3>1. Append(old, region) \in Seq(Region)
      OBVIOUS
    <3>2. QED BY <1>7, <2>1, <2>2, <3>1, Zenon
  <2>4. Len(old) = i /\ \A n \in 1 .. i : old[n] = entries[n]
    BY <1>4, <1>5, <1>7
  <2>5. Len(new) = i + 1 /\ \A n \in 1 .. i + 1 : new[n] = entries[n]
    BY <1>6, <2>2, <2>3, <2>4
  <2>6. Behind(k, i)'
    <3>1. /\ i + 1 \in 0 .. Len(mbi[k].entries)
          /\ PmmNextEntry(entry) = mmap_tag + 16 + (i + 1) * mbi[k].entry_size
      BY <1>1, <1>4, <1>5, <1>6, <1>8, EntryIs
    <3>2. k \in MapTags /\ mmap_tag = Start[k]
      BY <1>4 DEF Behind
    <3>3. QED BY <1>1, <1>2, <2>1, <3>1, <3>2, Zenon DEF Behind
  <2>7. Behind(k, i)' /\ Len(mmap') = i' /\ \A n \in 1 .. i' : mmap'[n] = mbi'[k].entries[n]
    BY <1>1, <1>5, <2>1, <2>3, <2>5, <2>6, Zenon
  <2>8. TypeInv'
    BY <1>1, <2>3, Zenon DEF MemoryMapInv, TypeInv
  <2>9. WalkInv'
    BY <1>1, <1>2, <1>3, <2>1, <2>7, Zenon DEF WalkInv
  <2>10. QED BY <2>8, <2>9 DEF MemoryMapInv
<1>9. CASE i = PmmCount(Tag(mmap_tag))
  <2>1. pc' = "done" /\ mmap' = mmap
    BY <1>6, <1>9 DEF pmm_init
  <2>2. Entries = entries
    BY <1>1, <1>4, <1>5, EntriesAre DEF Behind
  <2>3. Len(mmap') = Len(Entries') /\ \A n \in 1 .. Len(Entries') : mmap'[n] = Entries'[n]
    BY <1>2, <1>4, <1>5, <1>6, <1>9, <2>1, <2>2, Zenon
  <2>4. TypeInv'
    BY <1>1, <2>1 DEF MemoryMapInv, TypeInv
  <2>5. WalkInv'
    BY <1>1, <1>2, <1>3, <2>1, <2>3 DEF WalkInv
  <2>6. QED BY <2>4, <2>5 DEF MemoryMapInv
<1>10. QED BY <1>6, <1>8, <1>9 DEF pmm_init

LEMMA NothingDone ==
  ASSUME MemoryMapInv, UNCHANGED vars
  PROVE  MemoryMapInv'
<1>1. /\ mbi' = mbi /\ pc' = pc /\ at' = at /\ meminfo' = meminfo /\ mmap_tag' = mmap_tag
      /\ entry' = entry /\ i' = i /\ lines' = lines /\ mmap' = mmap
  BY DEF vars
<1>2. Printed' = Printed
  BY <1>1, PrintedIs
<1>3. TypeInv'
  BY <1>1 DEF MemoryMapInv, TypeInv
<1>4. WalkInv'
  BY <1>1, <1>2, SameInfo
     DEF MemoryMapInv, WalkInv, MapFoundBefore, NoMapBefore, Behind, RegionsTold
<1>5. QED BY <1>3, <1>4 DEF MemoryMapInv

-----------------------------------------------------------------------------
(* The theorems.                                                           *)

\* While the tags are walked, what either walk has found, printed and read is what
\* the tags behind it say (memory.c:47-106, pmm.c:100-135).
THEOREM MemoryMapInvariance == Spec => []MemoryMapInv
<1>1. Init => MemoryMapInv
  BY InitHolds
<1>2. MemoryMapInv /\ [Next]_vars => MemoryMapInv'
  <2> SUFFICES ASSUME MemoryMapInv, [Next]_vars PROVE MemoryMapInv'
    OBVIOUS
  <2>1. CASE walk_tags
    BY <2>1, TagsWalked
  <2>2. CASE print_basic
    BY <2>2, BasicPrinted
  <2>3. CASE print_region
    BY <2>3, RegionPrinted
  <2>4. CASE pmm_find_mmap
    BY <2>4, MapSought
  <2>5. CASE pmm_init
    BY <2>5, RegionRead
  <2>6. ASSUME NEW info \in Infos, memory_print_map(info) PROVE MemoryMapInv'
    BY <2>6, PrintingStarts
  <2>7. ASSUME NEW field \in Others, kprintf(field) PROVE MemoryMapInv'
    BY <2>7, OtherLine
  <2>8. CASE UNCHANGED vars
    BY <2>8, NothingDone
  <2>9. QED BY <2>1, <2>2, <2>3, <2>4, <2>5, <2>6, <2>7, <2>8, Zenon DEF Next, Reading
<1>3. QED BY <1>1, <1>2, PTL DEF Spec

\* Every field on the screen reads back as the number it was given, for every number
\* of a word and every width: itoa's digits, its sign and kprintf's padding
\* (vga.c:165-209, 264-345).
THEOREM FieldsReadBack == Spec => []FieldsExact
<1>1. MemoryMapInv => FieldsExact
  BY LinesAreExact DEF MemoryMapInv, TypeInv
<1>2. QED BY <1>1, MemoryMapInvariance, PTL

\* Once the memory map is printed, the lines say what its tag says, region by region
\* and in full (memory.c:84-103).
THEOREM RegionsTrue == Spec => []RegionsExact
<1>1. MemoryMapInv => RegionsExact
  <2> SUFFICES ASSUME MemoryMapInv, pc \in {"pmm", "pmm_region", "done"}
               PROVE  Len(Printed) = Len(Entries) /\ \A n \in DOMAIN Entries : Told(Printed[n], Entries[n])
    BY DEF RegionsExact
  <2>1. RegionsTold /\ mbi \in Infos
    BY DEF MemoryMapInv, WalkInv
  <2>2. DOMAIN Entries = 1 .. Len(Entries)
    BY <2>1, EntriesType
  <2>3. QED BY <2>1, <2>2 DEF RegionsTold
<1>2. QED BY <1>1, MemoryMapInvariance, PTL

\* The regions pmm_init works with are the ones that were printed: a walk to the end
\* of the tags and a walk to the first match find the same map (memory.c:58, pmm.c:100).
THEOREM SameMapForPmm == Spec => []PmmSeesThePrintedMap
<1>1. MemoryMapInv => PmmSeesThePrintedMap
  <2> SUFFICES ASSUME MemoryMapInv, pc = "done"
               PROVE  Len(mmap) = Len(Printed) /\ \A n \in DOMAIN mmap : Told(Printed[n], mmap[n])
    BY DEF PmmSeesThePrintedMap
  <2>1. /\ RegionsTold /\ mmap \in Seq(Region)
        /\ Len(mmap) = Len(Entries) /\ \A n \in 1 .. Len(Entries) : mmap[n] = Entries[n]
    BY DEF MemoryMapInv, WalkInv, TypeInv
  <2>2. DOMAIN mmap = 1 .. Len(mmap)
    BY <2>1
  <2>3. QED BY <2>1, <2>2, Zenon DEF RegionsTold
<1>2. QED BY <1>1, MemoryMapInvariance, PTL
==============================================================================
