------------------------------- MODULE Folding -------------------------------
(***************************************************************************)
(* Induction, and what FoldLeft computes.  A set of natural numbers that   *)
(* is not empty has a least member: it follows from the well-foundedness   *)
(* of strict inclusion on finite sets, applied to the intervals from 0.    *)
(* What the steps of a loop keep, and what every further element of a      *)
(* sequence keeps, follow from that.  A fold, for any operator, is the     *)
(* last of a row of values, each obtained from the one before it and the   *)
(* next element.                                                           *)
(***************************************************************************)
EXTENDS Integers, Sequences, SequencesExt, FiniteSets, FiniteSetTheorems, WellFoundedInduction, TLAPS

CONSTANT Op(_, _)

\* A scan that runs upwards and stops at the first hit finds the least of all
\* hits (pmm.c:234-241).
LEMMA LeastExists ==
  ASSUME NEW S \in SUBSET Nat, S # {}
  PROVE  \E f \in S : \A g \in S : f <= g
<1> DEFINE R == StrictSubsetOrdering(Nat)
           T == {0 .. f : f \in S}
<1>1. \A f \in S : 0 .. f \in FiniteSubsetsOf(Nat)
  BY FS_Interval DEF FiniteSubsetsOf
<1>2. PICK t \in T : \A u \in T : ~ (<<u, t>> \in R)
  <2>1. T \subseteq FiniteSubsetsOf(Nat) /\ T # {}
    BY <1>1
  <2>2. IsWellFoundedOn(R, FiniteSubsetsOf(Nat))
    BY FS_StrictSubsetOrderingWellFounded
  <2> HIDE DEF R, T
  <2>3. QED BY <2>1, <2>2, WFMin
<1>3. PICK f \in S : t = 0 .. f
  BY <1>2
<1>4. ASSUME NEW g \in S, g < f PROVE FALSE
  <2>1. 0 .. g \subseteq 0 .. f
    BY <1>4
  <2>2. f \in 0 .. f /\ f \notin 0 .. g
    BY <1>4
  <2>3. <<0 .. g, 0 .. f>> \in R
    BY <2>1, <2>2 DEF StrictSubsetOrdering
  <2>4. QED BY <2>3, <1>2, <1>3
<1>5. \A g \in S : f <= g
  BY <1>4
<1>6. QED BY <1>5

\* Induction along a loop counter: what holds before the first of n steps and is
\* kept by each of them holds after the last.
LEMMA LoopInduction ==
  ASSUME NEW n \in Nat, NEW I, 0 \in I,
         \A i \in 1 .. n : i - 1 \in I => i \in I
  PROVE  \A i \in 0 .. n : i \in I
<1> DEFINE Missing == {i \in 0 .. n : i \notin I}
<1> SUFFICES ASSUME Missing # {} PROVE FALSE
  OBVIOUS
<1>1. PICK m \in Missing : \A j \in Missing : m <= j
  <2>1. Missing \in SUBSET Nat
    OBVIOUS
  <2>2. QED BY <2>1, LeastExists
<1>2. m \in 1 .. n /\ m - 1 \in 0 .. n /\ ~(m <= m - 1)
  <2>1. m # 0 /\ m \in 0 .. n
    BY <1>1
  <2>2. QED BY <2>1
<1>3. m - 1 \in I
  BY <1>1, <1>2
<1>4. QED BY <1>1, <1>2, <1>3

\* The prefixes of a sequence, one element longer at a time.
LEMMA PrefixSteps ==
  ASSUME NEW T, NEW q \in Seq(T)
  PROVE  /\ Len(q) \in Nat /\ SubSeq(q, 1, 0) = <<>> /\ SubSeq(q, 1, Len(q)) = q
         /\ \A i \in 1 .. Len(q) : /\ q[i] \in T /\ SubSeq(q, 1, i - 1) \in Seq(T)
                                   /\ SubSeq(q, 1, i) = Append(SubSeq(q, 1, i - 1), q[i])
OBVIOUS

\* The prefixes of a sequence inherit what every element more preserves.
LEMMA PrefixInduction ==
  ASSUME NEW T, NEW q \in Seq(T), NEW J, <<>> \in J,
         \A i \in 1 .. Len(q) : SubSeq(q, 1, i - 1) \in J => Append(SubSeq(q, 1, i - 1), q[i]) \in J
  PROVE  q \in J
<1> DEFINE I == {i \in 0 .. Len(q) : SubSeq(q, 1, i) \in J}
<1>1. Len(q) \in Nat /\ Len(q) \in 0 .. Len(q) /\ 0 \in 0 .. Len(q)
  BY PrefixSteps
<1>2. 0 \in I
  <2>1. SubSeq(q, 1, 0) \in J
    BY PrefixSteps, Zenon
  <2>2. QED BY <1>1, <2>1
<1>3. ASSUME NEW i \in 1 .. Len(q), i - 1 \in I PROVE i \in I
  <2>1. Append(SubSeq(q, 1, i - 1), q[i]) \in J /\ i \in 0 .. Len(q)
    BY <1>3
  <2>2. SubSeq(q, 1, i) = Append(SubSeq(q, 1, i - 1), q[i])
    BY PrefixSteps, Zenon
  <2>3. SubSeq(q, 1, i) \in J
    BY <2>1, <2>2, Zenon
  <2>4. QED BY <2>1, <2>3
<1> HIDE DEF I
<1>4. Len(q) \in I
  BY <1>1, <1>2, <1>3, LoopInduction
<1>5. SubSeq(q, 1, Len(q)) \in J
  BY <1>4 DEF I
<1>6. SubSeq(q, 1, Len(q)) = q
  BY PrefixSteps, Zenon
<1>7. QED BY <1>5, <1>6, Zenon
-----------------------------------------------------------------------------
\* v holds the intermediate results of the fold over the first n elements.
FoldSteps(v, base, seq, n) ==
  /\ v[0] = base
  /\ \A i \in 1 .. n : v[i] = Op(v[i - 1], seq[i])

\* The recursion of MapThenFoldSet over the subsets of 1 .. k.
Iterates(h, base, seq, k) ==
  h = [s \in SUBSET (1 .. k) |->
         IF s = {} THEN base ELSE Op(h[s \ {Max(s)}], seq[Max(s)])]

LEMMA MaxIs ==
  ASSUME NEW k \in Nat, NEW s \in SUBSET (1 .. k), NEW m \in s, \A y \in s : m >= y
  PROVE  Max(s) = m
<1>1. Max(s) \in s /\ \A y \in s : Max(s) >= y
  BY DEF Max
<1>2. Max(s) \in 1 .. k /\ m \in 1 .. k
  BY <1>1
<1>3. QED BY <1>1, <1>2

LEMMA IteratesExists ==
  ASSUME NEW base, NEW seq, NEW n \in Nat
  PROVE  \E h : Iterates(h, base, seq, n)
<1> DEFINE Missing == {k \in Nat : ~\E h : Iterates(h, base, seq, k)}
<1> SUFFICES ASSUME Missing # {} PROVE FALSE
  OBVIOUS
<1>1. PICK k \in Missing : \A j \in Missing : k <= j
  <2>1. Missing \in SUBSET Nat
    OBVIOUS
  <2>2. QED BY <2>1, LeastExists
<1>2. CASE k = 0
  <2> DEFINE h == [s \in SUBSET (1 .. 0) |-> base]
  <2>1. \A s \in SUBSET (1 .. 0) : s = {}
    OBVIOUS
  <2>2. Iterates(h, base, seq, 0)
    BY <2>1 DEF Iterates
  <2>3. QED BY <1>1, <1>2, <2>2
<1>3. CASE k # 0
  <2>1. k - 1 \in Nat /\ ~(k <= k - 1) /\ k \in Nat
    BY <1>3
  <2>2. PICK g : Iterates(g, base, seq, k - 1)
    BY <1>1, <2>1
  <2> DEFINE h == [s \in SUBSET (1 .. k) |-> IF k \in s THEN Op(g[s \ {k}], seq[k]) ELSE g[s]]
  <2>3. ASSUME NEW s \in SUBSET (1 .. k), k \in s
        PROVE  /\ s # {} /\ Max(s) = k
               /\ s \ {k} \in SUBSET (1 .. k) /\ k \notin s \ {k}
    <3>1. \A y \in s : k >= y
      BY <2>1
    <3>2. Max(s) = k
      BY <2>1, <2>3, <3>1, MaxIs
    <3>3. QED BY <2>3, <3>2
  <2>4. ASSUME NEW s \in SUBSET (1 .. k), k \notin s
        PROVE  /\ s \in SUBSET (1 .. k - 1)
               /\ s \ {Max(s)} \in SUBSET (1 .. k) /\ k \notin s \ {Max(s)}
    <3>1. \A y \in s : y \in 1 .. k /\ y # k
      BY <2>4
    <3>2. \A y \in 1 .. k : y # k => y \in 1 .. k - 1
      BY <2>1
    <3>3. QED BY <3>1, <3>2
  <2>5. ASSUME NEW s \in SUBSET (1 .. k)
        PROVE  h[s] = IF s = {} THEN base ELSE Op(h[s \ {Max(s)}], seq[Max(s)])
    <3>1. CASE k \in s
      <4>1. h[s \ {k}] = g[s \ {k}]
        BY <2>3, <3>1
      <4>2. h[s] = Op(g[s \ {k}], seq[k])
        BY <3>1
      <4> HIDE DEF h
      <4>3. QED BY <2>3, <3>1, <4>1, <4>2
    <3>2. CASE k \notin s
      <4>1. h[s] = g[s]
        BY <3>2
      <4>2. s # {} => h[s \ {Max(s)}] = g[s \ {Max(s)}]
        BY <2>4, <3>2
      <4>3. g[s] = IF s = {} THEN base ELSE Op(g[s \ {Max(s)}], seq[Max(s)])
        BY <2>2, <2>4, <3>2 DEF Iterates
      <4> HIDE DEF h
      <4>4. QED BY <4>1, <4>2, <4>3
    <3>3. QED BY <3>1, <3>2
  <2>6. Iterates(h, base, seq, k)
    BY <2>5 DEF Iterates
  <2>7. QED BY <1>1, <2>6
<1>4. QED BY <1>2, <1>3

\* The intermediate results exist, and the last one is what FoldLeft returns.
LEMMA FoldTrace ==
  ASSUME NEW base, NEW seq, NEW n \in Nat, DOMAIN seq = 1 .. n
  PROVE  \E v : FoldSteps(v, base, seq, n) /\ FoldLeft(Op, base, seq) = v[n]
<1> DEFINE F == CHOOSE h : Iterates(h, base, seq, n)
           v == [i \in 0 .. n |-> F[1 .. i]]
<1>1. Iterates(F, base, seq, n)
  BY IteratesExists
<1>2. FoldLeft(Op, base, seq) = F[1 .. n]
  BY DEF FoldLeft, MapThenFoldSet, Iterates
<1> HIDE DEF F
<1>3. v[0] = base
  <2>1. 1 .. 0 = {} /\ {} \in SUBSET (1 .. n)
    OBVIOUS
  <2>2. QED BY <1>1, <2>1 DEF Iterates
<1>4. ASSUME NEW i \in 1 .. n PROVE v[i] = Op(v[i - 1], seq[i])
  <2>1. 1 .. i \in SUBSET (1 .. n) /\ i \in 1 .. i /\ \A y \in 1 .. i : i >= y
    OBVIOUS
  <2>2. Max(1 .. i) = i
    BY <2>1, MaxIs
  <2>3. (1 .. i) \ {i} = 1 .. i - 1
    OBVIOUS
  <2>4. F[1 .. i] = Op(F[(1 .. i) \ {i}], seq[i])
    BY <1>1, <2>1, <2>2 DEF Iterates
  <2>5. v[i] = F[1 .. i] /\ v[i - 1] = F[1 .. i - 1]
    OBVIOUS
  <2> HIDE DEF v
  <2>6. QED BY <2>3, <2>4, <2>5
<1>5. FoldSteps(v, base, seq, n)
  BY <1>3, <1>4 DEF FoldSteps
<1> HIDE DEF v
<1>6. FoldLeft(Op, base, seq) = v[n]
  BY <1>2 DEF v
<1>7. QED BY <1>5, <1>6

\* There is one way to fold.
LEMMA StepsUnique ==
  ASSUME NEW base, NEW seq, NEW n \in Nat, NEW v, NEW u,
         FoldSteps(v, base, seq, n), FoldSteps(u, base, seq, n)
  PROVE  v[n] = u[n]
<1> DEFINE I == {i \in 0 .. n : v[i] = u[i]}
<1>1. 0 \in I
  BY DEF FoldSteps
<1>2. ASSUME NEW i \in 1 .. n, i - 1 \in I PROVE i \in I
  <2>1. v[i - 1] = u[i - 1] /\ i \in 0 .. n
    BY <1>2
  <2>2. v[i] = Op(v[i - 1], seq[i]) /\ u[i] = Op(u[i - 1], seq[i])
    BY DEF FoldSteps
  <2>3. v[i] = u[i]
    BY <2>1, <2>2
  <2>4. QED BY <2>1, <2>3
<1> HIDE DEF I
<1>3. n \in 0 .. n /\ n \in I
  BY <1>1, <1>2, LoopInduction
<1>4. QED BY <1>3 DEF I

\* Folding one element more.
LEMMA FoldAppend ==
  ASSUME NEW base, NEW S, NEW seq \in Seq(S), NEW x \in S
  PROVE  /\ FoldLeft(Op, base, Append(seq, x)) = Op(FoldLeft(Op, base, seq), x)
         /\ FoldLeft(Op, base, <<>>) = base
<1>1. PICK n \in Nat : n = Len(seq)
  OBVIOUS
<1>2. PICK more : more = Append(seq, x)
  OBVIOUS
<1>3. /\ DOMAIN seq = 1 .. n /\ DOMAIN more = 1 .. n + 1 /\ n + 1 \in Nat
      /\ more[n + 1] = x /\ \A i \in 1 .. n : more[i] = seq[i]
  BY <1>1, <1>2
<1>4. PICK v : FoldSteps(v, base, more, n + 1) /\ FoldLeft(Op, base, more) = v[n + 1]
  BY <1>3, FoldTrace
<1>5. PICK u : FoldSteps(u, base, seq, n) /\ FoldLeft(Op, base, seq) = u[n]
  BY <1>3, FoldTrace
<1>6. FoldSteps(v, base, seq, n)
  <2>1. \A i \in 1 .. n : i \in 1 .. n + 1
    OBVIOUS
  <2>2. QED BY <1>3, <1>4, <2>1 DEF FoldSteps
<1>7. v[n] = u[n]
  BY <1>5, <1>6, StepsUnique
<1>8. v[n + 1] = Op(v[n], x)
  <2>1. n + 1 \in 1 .. n + 1 /\ (n + 1) - 1 = n
    OBVIOUS
  <2>2. QED BY <1>3, <1>4, <2>1 DEF FoldSteps
<1>9. FoldLeft(Op, base, <<>>) = base
  <2>1. PICK none : none = <<>>
    OBVIOUS
  <2>2. DOMAIN none = 1 .. 0
    BY <2>1
  <2>3. PICK w : FoldSteps(w, base, none, 0) /\ FoldLeft(Op, base, none) = w[0]
    BY <2>2, FoldTrace
  <2>4. QED BY <2>1, <2>3 DEF FoldSteps
<1>10. QED BY <1>2, <1>4, <1>5, <1>7, <1>8, <1>9
==============================================================================
