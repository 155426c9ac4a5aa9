----------------------------- MODULE ConsoleProofs -----------------------------
(***************************************************************************)
(* Proofs about Console for every screen, every text, panic and cursor     *)
(* position and every message of the exception handlers: nothing but a     *)
(* backspace stores beyond the screen, COM1 sends what is printed, an      *)
(* exception's line is shown in one piece, and the screen holds the last   *)
(* lines of the text.                                                      *)
(***************************************************************************)
EXTENDS Console, SequenceTheorems, FiniteSetTheorems, TLAPS

Copied  == INSTANCE Folding WITH Op <- CopyRow
Put     == INSTANCE Folding WITH Op <- vga_putc
Written == INSTANCE Folding WITH Op <- UartWritten
Seen    == INSTANCE Folding WITH Op <- Visible
Lined   == INSTANCE Folding WITH Op <- Extended
Kept    == INSTANCE Folding WITH Op <- Filled

-----------------------------------------------------------------------------
(* What FlattenSeq returns: the sequences of a sequence, joined.  f holds  *)
(* the results of its recursion for the first k of them.                   *)

Flattens(q, k, f) ==
  \A i \in 1 .. k : f[i] = IF i = 1 THEN q[i] ELSE f[i - 1] \o q[i]

LEMMA FlattenExists ==
  ASSUME NEW S, NEW q \in Seq(Seq(S))
  PROVE  \A k \in 0 .. Len(q) : \E f \in [1 .. k -> Seq(S)] : Flattens(q, k, f)
<1> DEFINE Missing == {k \in 0 .. Len(q) : ~\E f \in [1 .. k -> Seq(S)] : Flattens(q, k, f)}
<1> SUFFICES ASSUME Missing # {} PROVE FALSE
  OBVIOUS
<1>1. PICK k \in Missing : \A j \in Missing : k <= j
  <2>1. Missing \in SUBSET Nat
    OBVIOUS
  <2>2. QED BY <2>1, Copied!LeastExists
<1>2. k \in 0 .. Len(q) /\ Len(q) \in Nat
  OBVIOUS
<1>3. CASE k = 0
  <2>1. [i \in 1 .. 0 |-> <<>>] \in [1 .. 0 -> Seq(S)] /\ Flattens(q, 0, [i \in 1 .. 0 |-> <<>>])
    BY DEF Flattens
  <2>2. QED BY <1>1, <1>3, <2>1
<1>4. CASE k # 0
  <2>1. k - 1 \in 0 .. Len(q) /\ ~(k <= k - 1)
    BY <1>2, <1>4
  <2>2. k - 1 \notin Missing
    BY <1>1, <2>1
  <2>3. PICK f \in [1 .. k - 1 -> Seq(S)] : Flattens(q, k - 1, f)
    BY <2>1, <2>2
  <2> DEFINE g == [i \in 1 .. k |-> IF i < k THEN f[i] ELSE IF k = 1 THEN q[k] ELSE f[k - 1] \o q[k]]
  <2>4. q[k] \in Seq(S) /\ (k # 1 => f[k - 1] \in Seq(S))
    BY <1>2, <1>4, <2>3
  <2>5. \A i \in 1 .. k : i < k => i \in 1 .. k - 1
    BY <1>2
  <2>6. g \in [1 .. k -> Seq(S)]
    <3>1. (IF k = 1 THEN q[k] ELSE f[k - 1] \o q[k]) \in Seq(S)
      BY <2>4
    <3>2. QED BY <2>5, <3>1
  <2>7. Flattens(q, k, g)
    <3>1. \A i \in 1 .. k : i - 1 < k /\ (i # 1 => i - 1 \in 1 .. k)
      BY <1>2
    <3>2. ASSUME NEW i \in 1 .. k PROVE g[i] = IF i = 1 THEN q[i] ELSE g[i - 1] \o q[i]
      <4>1. CASE i < k
        BY <2>3, <2>5, <3>1, <4>1 DEF Flattens
      <4>2. CASE i = k
        BY <1>2, <3>1, <4>2
      <4>3. QED BY <1>2, <4>1, <4>2
    <3>3. QED BY <3>2 DEF Flattens
  <2>8. QED BY <1>1, <2>6, <2>7
<1>5. QED BY <1>3, <1>4

LEMMA FlattenUnique ==
  ASSUME NEW q, NEW k \in Nat, NEW f, NEW g, Flattens(q, k, f), Flattens(q, k, g)
  PROVE  \A i \in 1 .. k : f[i] = g[i]
<1> DEFINE Differ == {i \in 1 .. k : f[i] # g[i]}
<1> SUFFICES ASSUME Differ # {} PROVE FALSE
  OBVIOUS
<1>1. PICK i \in Differ : \A j \in Differ : i <= j
  <2>1. Differ \in SUBSET Nat
    OBVIOUS
  <2>2. QED BY <2>1, Copied!LeastExists
<1>2. i # 1 => i - 1 \in 1 .. k /\ f[i - 1] = g[i - 1]
  BY <1>1
<1>3. QED BY <1>1, <1>2 DEF Flattens

LEMMA FlattenLast ==
  ASSUME NEW S, NEW q \in Seq(Seq(S)), Len(q) # 0, NEW f, Flattens(q, Len(q), f)
  PROVE  FlattenSeq(q) = f[Len(q)]
<1> DEFINE Body(h) == [i \in 1 .. Len(q) |-> IF i = 1 THEN q[i] ELSE h[i - 1] \o q[i]]
           F == CHOOSE h : h = Body(h)
<1>1. PICK g \in [1 .. Len(q) -> Seq(S)] : Flattens(q, Len(q), g)
  BY FlattenExists
<1>2. g = Body(g)
  BY <1>1 DEF Flattens
<1>3. F = Body(F)
  BY <1>2
<1>4. FlattenSeq(q) = F[Len(q)]
  BY DEF FlattenSeq
<1>5. Flattens(q, Len(q), F)
  <2> HIDE DEF F
  <2>1. QED BY <1>3 DEF Flattens
<1>6. Len(q) \in Nat /\ Len(q) \in 1 .. Len(q)
  OBVIOUS
<1> HIDE DEF F
<1>7. QED BY <1>4, <1>5, <1>6, FlattenUnique

LEMMA FlattenAppend ==
  ASSUME NEW S, NEW q \in Seq(Seq(S)), NEW x \in Seq(S)
  PROVE  /\ FlattenSeq(q) \in Seq(S)
         /\ FlattenSeq(Append(q, x)) = FlattenSeq(q) \o x
<1> PICK r : r = Append(q, x)
  OBVIOUS
<1> PICK n : n = Len(q)
  OBVIOUS
<1>1. /\ r \in Seq(Seq(S)) /\ Len(r) = n + 1 /\ n \in Nat /\ r[n + 1] = x
      /\ \A i \in 1 .. n : r[i] = q[i]
  OBVIOUS
<1>2. PICK f \in [1 .. n + 1 -> Seq(S)] : Flattens(r, n + 1, f)
  <2>1. n + 1 \in 0 .. Len(r)
    BY <1>1
  <2>2. QED BY <1>1, <2>1, FlattenExists
<1>3. FlattenSeq(r) = f[n + 1]
  <2>1. Len(r) # 0 /\ Flattens(r, Len(r), f)
    BY <1>1, <1>2
  <2>2. QED BY <1>1, <2>1, FlattenLast
<1>4. CASE n = 0
  <2>1. q = <<>>
    BY <1>4, EmptySeq
  <2>2. FlattenSeq(<<>>) = <<>>
    BY DEF FlattenSeq
  <2>3. f[1] = x
    BY <1>1, <1>2, <1>4 DEF Flattens
  <2>4. FlattenSeq(r) = x
    BY <1>3, <1>4, <2>3
  <2>5. <<>> \in Seq(S) /\ x = <<>> \o x
    OBVIOUS
  <2>6. QED BY <2>1, <2>2, <2>4, <2>5
<1>5. CASE n # 0
  <2>1. \A i \in 1 .. n : i \in 1 .. n + 1 /\ (i # 1 => i - 1 \in 1 .. n)
    BY <1>1
  <2>2. \A i \in 1 .. n + 1 : f[i] = IF i = 1 THEN r[i] ELSE f[i - 1] \o r[i]
    BY <1>2 DEF Flattens
  <2>3. Flattens(q, n, f)
    BY <1>1, <2>1, <2>2 DEF Flattens
  <2>4. FlattenSeq(q) = f[n] /\ n \in 1 .. n + 1
    BY <1>1, <1>5, <2>3, FlattenLast
  <2>5. f[n + 1] = f[n] \o x
    <3>1. n + 1 \in 1 .. n + 1 /\ n + 1 # 1 /\ (n + 1) - 1 = n
      BY <1>1, <1>5
    <3>2. QED BY <1>1, <2>2, <3>1
  <2>6. QED BY <1>2, <1>3, <2>4, <2>5
<1>6. QED BY <1>4, <1>5

-----------------------------------------------------------------------------
(* The screen: what its operations do to the cursor and to spilled.        *)

LEMMA ScreenSize == Width \in Nat \ {0} /\ Height \in Nat /\ Height >= 2
<1>1. Height \in Nat \ {0, 1} /\ Width \in Nat \ {0}
  BY ScreenAssumption
<1>2. Height # 0 /\ Height # 1 /\ Height \in Nat
  BY <1>1
<1>3. Height >= 2
  BY <1>2
<1>4. QED BY <1>1, <1>2, <1>3

ScreenOK(s) ==
  /\ s = [cell |-> s.cell, x |-> s.x, y |-> s.y, colour |-> s.colour, spilled |-> s.spilled]
  /\ s.x \in Nat /\ s.y \in Nat /\ s.spilled \in BOOLEAN

LEMMA FieldsSet ==
  ASSUME NEW s, ScreenOK(s), NEW v
  PROVE  /\ v \in Nat => /\ ScreenOK([s EXCEPT !.x = v]) /\ [s EXCEPT !.x = v].x = v
                         /\ [s EXCEPT !.x = v].y = s.y /\ [s EXCEPT !.x = v].spilled = s.spilled
         /\ v \in Nat => /\ ScreenOK([s EXCEPT !.y = v]) /\ [s EXCEPT !.y = v].y = v
                         /\ [s EXCEPT !.y = v].x = s.x /\ [s EXCEPT !.y = v].spilled = s.spilled
         /\ /\ ScreenOK([s EXCEPT !.cell = v]) /\ [s EXCEPT !.cell = v].x = s.x
            /\ [s EXCEPT !.cell = v].y = s.y /\ [s EXCEPT !.cell = v].spilled = s.spilled
         /\ /\ ScreenOK([s EXCEPT !.colour = v]) /\ [s EXCEPT !.colour = v].x = s.x
            /\ [s EXCEPT !.colour = v].y = s.y /\ [s EXCEPT !.colour = v].spilled = s.spilled
<1>1. ASSUME v \in Nat
      PROVE  /\ ScreenOK([s EXCEPT !.x = v]) /\ [s EXCEPT !.x = v].x = v
             /\ [s EXCEPT !.x = v].y = s.y /\ [s EXCEPT !.x = v].spilled = s.spilled
  BY <1>1 DEF ScreenOK
<1>2. ASSUME v \in Nat
      PROVE  /\ ScreenOK([s EXCEPT !.y = v]) /\ [s EXCEPT !.y = v].y = v
             /\ [s EXCEPT !.y = v].x = s.x /\ [s EXCEPT !.y = v].spilled = s.spilled
  BY <1>2 DEF ScreenOK
<1>3. /\ ScreenOK([s EXCEPT !.cell = v]) /\ [s EXCEPT !.cell = v].x = s.x
      /\ [s EXCEPT !.cell = v].y = s.y /\ [s EXCEPT !.cell = v].spilled = s.spilled
  BY DEF ScreenOK
<1>4. /\ ScreenOK([s EXCEPT !.colour = v]) /\ [s EXCEPT !.colour = v].x = s.x
      /\ [s EXCEPT !.colour = v].y = s.y /\ [s EXCEPT !.colour = v].spilled = s.spilled
  BY DEF ScreenOK
<1>5. QED BY <1>1, <1>2, <1>3, <1>4

LEMMA MovesOK ==
  ASSUME NEW s, ScreenOK(s)
  PROVE  /\ ScreenOK(Return(s)) /\ Return(s).x = 0 /\ Return(s).y = s.y
         /\ ScreenOK(Down(s)) /\ Down(s).x = s.x
         /\ ScreenOK(Bottom(s)) /\ Bottom(s).x = s.x /\ Bottom(s).y = Height - 1
         /\ ScreenOK(Advance(s))
         /\ ScreenOK(PullCursor(s)) /\ PullCursor(s).x = s.x
         /\ ScreenOK(Home(s))
         /\ \A t \in {Return(s), Down(s), Bottom(s), Advance(s), PullCursor(s), Home(s)} :
              t.spilled = s.spilled
<1>1. ScreenOK(Return(s)) /\ Return(s).x = 0 /\ Return(s).y = s.y /\ Return(s).spilled = s.spilled
  BY DEF ScreenOK, Return
<1>2. ScreenOK(Down(s)) /\ Down(s).x = s.x /\ Down(s).spilled = s.spilled
  BY DEF ScreenOK, Down
<1>3. /\ ScreenOK(Bottom(s)) /\ Bottom(s).x = s.x /\ Bottom(s).y = Height - 1
      /\ Bottom(s).spilled = s.spilled
  <2>1. Height - 1 \in Nat
    BY ScreenSize
  <2>2. QED BY <2>1, FieldsSet DEF Bottom
<1>4. ScreenOK(Advance(s)) /\ Advance(s).spilled = s.spilled
  BY DEF ScreenOK, Advance
<1>5. ScreenOK(PullCursor(s)) /\ PullCursor(s).x = s.x /\ PullCursor(s).spilled = s.spilled
  <2>1. (IF s.y >= Height - 1 THEN Height - 2 ELSE s.y) \in Nat
    BY ScreenSize DEF ScreenOK
  <2>2. PICK v \in Nat : v = IF s.y >= Height - 1 THEN Height - 2 ELSE s.y
    BY <2>1
  <2>3. PullCursor(s) = [s EXCEPT !.y = v]
    BY <2>2 DEF PullCursor
  <2>4. ScreenOK([s EXCEPT !.y = v]) /\ [s EXCEPT !.y = v].x = s.x
        /\ [s EXCEPT !.y = v].spilled = s.spilled
    BY <2>2 DEF ScreenOK
  <2>5. QED BY <2>3, <2>4
<1>6. ScreenOK(Home(s)) /\ Home(s).spilled = s.spilled
  <2>1. PICK t : t = [s EXCEPT !.x = 0]
    OBVIOUS
  <2>2. ScreenOK(t) /\ t.spilled = s.spilled
    BY <2>1, FieldsSet
  <2>3. Home(s) = [t EXCEPT !.y = 0]
    BY <2>1 DEF Home
  <2>4. 0 \in Nat
    OBVIOUS
  <2>5. ScreenOK([t EXCEPT !.y = 0]) /\ [t EXCEPT !.y = 0].spilled = t.spilled
    BY <2>2, <2>4, FieldsSet
  <2>6. QED BY <2>2, <2>3, <2>5
<1>7. QED BY <1>1, <1>2, <1>3, <1>4, <1>5, <1>6

LEMMA TabOK ==
  ASSUME NEW s, ScreenOK(s)
  PROVE  ScreenOK(Tab(s)) /\ Tab(s).spilled = s.spilled
<1>1. TabStop \in Nat \ {0} /\ s.x \in Nat
  BY ScreenAssumption DEF ScreenOK
<1>2. (s.x + TabStop) \div TabStop \in Nat
  <2>1. PICK a \in Nat : a = s.x + TabStop
    BY <1>1
  <2>2. PICK b \in Nat \ {0} : b = TabStop
    BY <1>1
  <2>3. a \div b \in Nat
    OBVIOUS
  <2>4. QED BY <2>1, <2>2, <2>3
<1>3. ((s.x + TabStop) \div TabStop) * TabStop \in Nat
  BY <1>1, <1>2
<1>4. QED BY <1>3 DEF ScreenOK, Tab

LEMMA ClearedOK ==
  ASSUME NEW s, ScreenOK(s)
  PROVE  /\ ScreenOK(Blanked(s)) /\ Blanked(s).spilled = s.spilled
         /\ ScreenOK(ClearLast(s)) /\ ClearLast(s).x = s.x /\ ClearLast(s).spilled = s.spilled
         /\ \A r : /\ ScreenOK(CopyRow(s, r)) /\ CopyRow(s, r).x = s.x
                    /\ CopyRow(s, r).spilled = s.spilled
BY FieldsSet DEF Blanked, ClearLast, CopyRow

\* A store at a cursor on the screen hits a cell of it.
LEMMA StoreFits ==
  ASSUME NEW s, NEW c, ScreenOK(s), s.x < Width, s.y < Height
  PROVE  ScreenOK(Store(s, c)) /\ Store(s, c).spilled = s.spilled
<1>1. Width \in Nat \ {0} /\ Height \in Nat /\ s.x \in 0 .. Width - 1 /\ s.y \in 0 .. Height - 1
  BY ScreenSize DEF ScreenOK
<1>2. s.y * Width + s.x \in 0 .. Width * Height - 1
  <2>1. \A a, b, w \in Nat : a + 1 <= b => a * w + w <= w * b
    OBVIOUS
  <2>2. s.y * Width + Width <= Width * Height /\ s.y * Width \in Nat /\ Width * Height \in Nat
    BY <1>1, <2>1
  <2>3. QED BY <1>1, <2>2
<1>3. QED BY <1>2 DEF ScreenOK, Store, Cell

LEMMA StoreOK ==
  ASSUME NEW s, NEW c, ScreenOK(s)
  PROVE  ScreenOK(Store(s, c))
BY DEF ScreenOK, Store

LEMMA BackspaceOK ==
  ASSUME NEW s, ScreenOK(s)
  PROVE  ScreenOK(Backspace(s))
<1>1. CASE s.x > 0
  <2>1. ScreenOK([s EXCEPT !.x = @ - 1])
    BY <1>1 DEF ScreenOK
  <2>2. QED BY <1>1, <2>1, StoreOK DEF Backspace
<1>2. CASE ~(s.x > 0)
  BY <1>2 DEF Backspace
<1>3. QED BY <1>1, <1>2

LEMMA RowsCopied ==
  ASSUME NEW s, ScreenOK(s), NEW seq, NEW n \in Nat, DOMAIN seq = 1 .. n,
         NEW t, t = FoldLeft(CopyRow, s, seq)
  PROVE  ScreenOK(t) /\ t.x = s.x /\ t.spilled = s.spilled
<1>1. PICK v : /\ Copied!FoldSteps(v, s, seq, n)
               /\ Copied!FoldLeft(CopyRow, s, seq) = v[n]
  BY Copied!FoldTrace
<1>2. t = v[n]
  <2>1. Copied!FoldLeft(CopyRow, s, seq) = FoldLeft(CopyRow, s, seq)
    BY DEF FoldLeft, MapThenFoldSet, Max, Copied!FoldLeft, Copied!MapThenFoldSet, Copied!Max
  <2>2. QED BY <1>1, <2>1
<1> DEFINE I == {i \in 0 .. n : ScreenOK(v[i]) /\ v[i].x = s.x /\ v[i].spilled = s.spilled}
<1>3. 0 \in I
  BY <1>1 DEF Copied!FoldSteps
<1>4. ASSUME NEW i \in 1 .. n, i - 1 \in I PROVE i \in I
  <2>1. PICK u : u = v[i - 1]
    OBVIOUS
  <2>2. ScreenOK(u) /\ u.x = s.x /\ u.spilled = s.spilled
    BY <1>4, <2>1
  <2>3. PICK w : w = CopyRow(u, seq[i])
    OBVIOUS
  <2>4. v[i] = w
    BY <1>1, <2>1, <2>3 DEF Copied!FoldSteps
  <2>5. ScreenOK(w) /\ w.x = s.x /\ w.spilled = s.spilled
    BY <2>2, <2>3, ClearedOK
  <2>6. i \in 0 .. n
    OBVIOUS
  <2>7. QED BY <2>4, <2>5, <2>6
<1> HIDE DEF I
<1>5. n \in 0 .. n /\ n \in I
  BY <1>3, <1>4, Copied!LoopInduction
<1>6. QED BY <1>2, <1>5 DEF I

LEMMA ScrollOK ==
  ASSUME NEW s, ScreenOK(s), NEW t, t = vga_scroll_up(s)
  PROVE  ScreenOK(t) /\ t.x = s.x /\ t.spilled = s.spilled
<1>1. PICK rows : rows = [r \in 1 .. Height - 1 |-> r - 1]
  OBVIOUS
<1>2. PICK copied : copied = FoldLeft(CopyRow, s, rows)
  OBVIOUS
<1>3. Height - 1 \in Nat /\ DOMAIN rows = 1 .. Height - 1
  BY <1>1, ScreenSize
<1>4. ScreenOK(copied) /\ copied.x = s.x /\ copied.spilled = s.spilled
  BY <1>2, <1>3, RowsCopied
<1>5. PICK cleared : cleared = ClearLast(copied)
  OBVIOUS
<1>6. ScreenOK(cleared) /\ cleared.x = s.x /\ cleared.spilled = s.spilled
  BY <1>4, <1>5, ClearedOK
<1>7. t = PullCursor(cleared)
  BY <1>1, <1>2, <1>5 DEF vga_scroll_up
<1>8. QED BY <1>6, <1>7, MovesOK

\* A character that is not a backspace never stores beyond the screen, wherever
\* the cursor was (vga.c:108-122).
LEMMA PutcFits ==
  ASSUME NEW s, ScreenOK(s), NEW c \in Glyph \cup {"LF"}, NEW t, t = vga_putc(s, c)
  PROVE  ScreenOK(t) /\ t.spilled = s.spilled
<1>1. CASE c = "LF"
  <2>1. "LF" \notin Glyph
    BY ScreenAssumption DEF Control
  <2>2. t = Down(Return(s))
    BY <1>1, <2>1 DEF vga_putc
  <2>3. PICK r : r = Return(s)
    OBVIOUS
  <2>4. ScreenOK(r) /\ r.spilled = s.spilled
    BY <2>3, MovesOK
  <2>5. ScreenOK(Down(r)) /\ Down(r).spilled = r.spilled
    BY <2>4, MovesOK
  <2>6. QED BY <2>2, <2>3, <2>4, <2>5
<1>2. CASE c # "LF"
  <2> DEFINE wrap_  == IF AtEdge(s) THEN Down(Return(s)) ELSE s
  <2>1. PICK wrapped : wrapped = wrap_
    OBVIOUS
  <2>2. PICK fitted : fitted = IF Below(wrapped) THEN Bottom(vga_scroll_up(wrapped)) ELSE wrapped
    OBVIOUS
  <2>3. c \in Glyph /\ c \notin {"LF", "CR", "HT", "BS"}
    BY <1>2, ScreenAssumption DEF Control
  <2>4. t = Advance(Store(fitted, c))
    BY <2>1, <2>2, <2>3 DEF vga_putc
  <2>5. ScreenOK(wrapped) /\ wrapped.x < Width /\ wrapped.spilled = s.spilled
    <3>1. CASE AtEdge(s)
      <4>1. PICK r : r = Return(s)
        OBVIOUS
      <4>2. ScreenOK(r) /\ r.x = 0 /\ r.spilled = s.spilled
        BY <4>1, MovesOK
      <4>3. ScreenOK(Down(r)) /\ Down(r).x = r.x /\ Down(r).spilled = r.spilled
        BY <4>2, MovesOK
      <4>4. wrapped = Down(r)
        BY <2>1, <3>1, <4>1
      <4>5. QED BY <4>2, <4>3, <4>4, ScreenSize
    <3>2. CASE ~AtEdge(s)
      BY <2>1, <3>2, ScreenSize DEF AtEdge, ScreenOK
    <3>3. QED BY <3>1, <3>2
  <2>6. ScreenOK(fitted) /\ fitted.x < Width /\ fitted.y < Height /\ fitted.spilled = s.spilled
    <3>1. CASE Below(wrapped)
      <4>1. PICK scrolled : scrolled = vga_scroll_up(wrapped)
        OBVIOUS
      <4>2. ScreenOK(scrolled) /\ scrolled.x = wrapped.x /\ scrolled.spilled = wrapped.spilled
        BY <2>5, <4>1, ScrollOK
      <4>3. /\ ScreenOK(Bottom(scrolled)) /\ Bottom(scrolled).x = scrolled.x
            /\ Bottom(scrolled).y = Height - 1 /\ Bottom(scrolled).spilled = scrolled.spilled
        BY <4>2, MovesOK
      <4>4. fitted = Bottom(scrolled)
        BY <2>2, <3>1, <4>1
      <4>5. Height - 1 < Height
        BY ScreenSize
      <4>6. QED BY <2>5, <4>2, <4>3, <4>4, <4>5
    <3>2. CASE ~Below(wrapped)
      BY <2>2, <2>5, <3>2, ScreenSize DEF Below, ScreenOK
    <3>3. QED BY <3>1, <3>2
  <2>7. PICK stored : stored = Store(fitted, c)
    OBVIOUS
  <2>8. ScreenOK(stored) /\ stored.spilled = s.spilled
    BY <2>6, <2>7, StoreFits
  <2>9. QED BY <2>4, <2>7, <2>8, MovesOK
<1>3. QED BY <1>1, <1>2

\* Nor does the message of an exception handler.
LEMMA MessageFits ==
  ASSUME NEW s, ScreenOK(s), NEW t, t = vga_puts(s, Message)
  PROVE  ScreenOK(t) /\ t.spilled = s.spilled
<1>1. PICK n \in Nat : DOMAIN Message = 1 .. n
  BY ConsoleAssumption
<1>2. PICK v : /\ Put!FoldSteps(v, s, Message, n)
               /\ Put!FoldLeft(vga_putc, s, Message) = v[n]
  BY <1>1, Put!FoldTrace
<1>3. t = v[n]
  <2>1. Put!FoldLeft(vga_putc, s, Message) = FoldLeft(vga_putc, s, Message)
    BY DEF FoldLeft, MapThenFoldSet, Max, Put!FoldLeft, Put!MapThenFoldSet, Put!Max
  <2>2. QED BY <1>2, <2>1 DEF vga_puts
<1> DEFINE I == {i \in 0 .. n : ScreenOK(v[i]) /\ v[i].spilled = s.spilled}
<1>4. 0 \in I
  BY <1>2 DEF Put!FoldSteps
<1>5. ASSUME NEW i \in 1 .. n, i - 1 \in I PROVE i \in I
  <2>1. PICK u : u = v[i - 1]
    OBVIOUS
  <2>2. ScreenOK(u) /\ u.spilled = s.spilled
    BY <1>5, <2>1
  <2>3. PICK w : w = vga_putc(u, Message[i])
    OBVIOUS
  <2>4. v[i] = w
    BY <1>2, <2>1, <2>3 DEF Put!FoldSteps
  <2>5. Message[i] \in Glyph \cup {"LF"}
    BY <1>1, ConsoleAssumption
  <2>6. ScreenOK(w) /\ w.spilled = s.spilled
    BY <2>2, <2>3, <2>5, PutcFits
  <2>7. i \in 0 .. n
    OBVIOUS
  <2>8. QED BY <2>4, <2>6, <2>7
<1> HIDE DEF I
<1>6. n \in 0 .. n /\ n \in I
  BY <1>4, <1>5, Copied!LoopInduction
<1>7. QED BY <1>3, <1>6 DEF I

-----------------------------------------------------------------------------
(* COM1.                                                                   *)

\* The latch of the divisor is d, and q has been sent.
UartIs(u, d, q) ==
  u = [dlab |-> d, low |-> u.low, high |-> u.high, ier |-> u.ier, lcr |-> u.lcr,
       busy |-> u.busy, sent |-> q]

LEMMA UartFields ==
  ASSUME NEW u, NEW d, NEW q, UartIs(u, d, q), NEW v
  PROVE  /\ u.dlab = d /\ u.sent = q
         /\ UartIs([u EXCEPT !.low = v], d, q) /\ UartIs([u EXCEPT !.high = v], d, q)
         /\ UartIs([u EXCEPT !.ier = v], d, q) /\ UartIs([u EXCEPT !.lcr = v], d, q)
         /\ UartIs([u EXCEPT !.busy = v], d, q)
         /\ UartIs([u EXCEPT !.dlab = v], v, q) /\ UartIs([u EXCEPT !.sent = v], d, v)
<1>1. u.dlab = d /\ u.sent = q
  BY DEF UartIs
<1>2. UartIs([u EXCEPT !.low = v], d, q) /\ UartIs([u EXCEPT !.high = v], d, q)
  BY DEF UartIs
<1>3. UartIs([u EXCEPT !.ier = v], d, q) /\ UartIs([u EXCEPT !.lcr = v], d, q)
  BY DEF UartIs
<1>4. UartIs([u EXCEPT !.busy = v], d, q)
  BY DEF UartIs
<1>5. UartIs([u EXCEPT !.dlab = v], v, q) /\ UartIs([u EXCEPT !.sent = v], d, v)
  BY DEF UartIs
<1>6. QED BY <1>1, <1>2, <1>3, <1>4, <1>5

\* A write to each of its registers.
LEMMA PortWritten ==
  ASSUME NEW u, NEW d, NEW q, UartIs(u, d, q), NEW w
  PROVE  /\ w[1] = 0 /\ d = TRUE  => UartIs(UartWritten(u, w), d, q)
         /\ w[1] = 0 /\ d = FALSE => UartIs(UartWritten(u, w), d, Append(q, w[2]))
         /\ w[1] = 1 /\ d \in BOOLEAN => UartIs(UartWritten(u, w), d, q)
         /\ w[1] = 3 => UartIs(UartWritten(u, w), w[2] >= 128, q)
         /\ w[1] \in {2, 4} => UartIs(UartWritten(u, w), d, q)
<1>1. u.dlab = d /\ u.sent = q
  BY UartFields
<1>2. PICK b : b = w[2]
  OBVIOUS
<1>3. ASSUME w[1] = 0, d = TRUE PROVE UartIs(UartWritten(u, w), d, q)
  <2>1. UartWritten(u, w) = [u EXCEPT !.low = b]
    BY <1>1, <1>2, <1>3 DEF UartWritten
  <2>2. UartIs([u EXCEPT !.low = b], d, q)
    BY UartFields
  <2>3. QED BY <2>1, <2>2
<1>4. ASSUME w[1] = 0, d = FALSE PROVE UartIs(UartWritten(u, w), d, Append(q, w[2]))
  <2>1. PICK p : p = Append(q, b)
    OBVIOUS
  <2>2. UartWritten(u, w) = [u EXCEPT !.busy = TRUE, !.sent = p]
    BY <1>1, <1>2, <1>4, <2>1 DEF UartWritten
  <2>3. PICK t : t = [u EXCEPT !.busy = TRUE]
    OBVIOUS
  <2>4. UartIs(t, d, q)
    BY <2>3, UartFields
  <2>5. UartWritten(u, w) = [t EXCEPT !.sent = p]
    BY <2>2, <2>3
  <2>6. UartIs([t EXCEPT !.sent = p], d, p)
    BY <2>4, UartFields
  <2>7. QED BY <1>2, <2>1, <2>5, <2>6
<1>5. ASSUME w[1] = 1, d \in BOOLEAN PROVE UartIs(UartWritten(u, w), d, q)
  <2>1. UartWritten(u, w) = [u EXCEPT !.high = b] \/ UartWritten(u, w) = [u EXCEPT !.ier = b]
    <3>1. CASE d = TRUE
      BY <1>1, <1>2, <1>5, <3>1 DEF UartWritten
    <3>2. CASE d = FALSE
      BY <1>1, <1>2, <1>5, <3>2 DEF UartWritten
    <3>3. QED BY <1>5, <3>1, <3>2
  <2>2. UartIs([u EXCEPT !.high = b], d, q) /\ UartIs([u EXCEPT !.ier = b], d, q)
    BY UartFields
  <2>3. QED BY <2>1, <2>2
<1>6. ASSUME w[1] = 3 PROVE UartIs(UartWritten(u, w), w[2] >= 128, q)
  <2>1. PICK e : e = (b >= 128)
    OBVIOUS
  <2>2. PICK l : l = b % 128
    OBVIOUS
  <2>3. UartWritten(u, w) = [u EXCEPT !.dlab = e, !.lcr = l]
    BY <1>2, <1>6, <2>1, <2>2 DEF UartWritten
  <2>4. PICK t : t = [u EXCEPT !.dlab = e]
    OBVIOUS
  <2>5. UartIs(t, e, q)
    BY <2>4, UartFields
  <2>6. UartWritten(u, w) = [t EXCEPT !.lcr = l]
    BY <2>3, <2>4
  <2>7. UartIs([t EXCEPT !.lcr = l], e, q)
    BY <2>5, UartFields
  <2>8. QED BY <1>2, <2>1, <2>6, <2>7
<1>7. ASSUME w[1] \in {2, 4} PROVE UartIs(UartWritten(u, w), d, q)
  BY <1>7 DEF UartWritten
<1>8. QED BY <1>3, <1>4, <1>5, <1>6, <1>7

\* serial_init leaves COM1 with the latch of the divisor closed and sends nothing.
LEMMA SerialReady ==
  ASSUME NEW u, NEW q, UartIs(u, FALSE, q), NEW w, w = FoldLeft(UartWritten, u, InitWrites)
  PROVE  UartIs(w, FALSE, q)
<1>1. DOMAIN InitWrites = 1 .. 7 /\ 7 \in Nat
  BY DEF InitWrites
<1>2. PICK v : /\ Written!FoldSteps(v, u, InitWrites, 7)
               /\ Written!FoldLeft(UartWritten, u, InitWrites) = v[7]
  BY <1>1, Written!FoldTrace
<1>3. w = v[7]
  <2>1. Written!FoldLeft(UartWritten, u, InitWrites) = FoldLeft(UartWritten, u, InitWrites)
    BY DEF FoldLeft, MapThenFoldSet, Max, Written!FoldLeft, Written!MapThenFoldSet, Written!Max
  <2>2. QED BY <1>2, <2>1
<1>4. v[0] = u /\ \A i \in 1 .. 7 : v[i] = UartWritten(v[i - 1], InitWrites[i])
  BY <1>2 DEF Written!FoldSteps
<1>5. /\ InitWrites[1][1] = 1 /\ InitWrites[4][1] = 1
      /\ InitWrites[2][1] = 3 /\ (InitWrites[2][2] >= 128) = TRUE
      /\ InitWrites[3][1] = 0
      /\ InitWrites[5][1] = 3 /\ (InitWrites[5][2] >= 128) = FALSE
      /\ InitWrites[6][1] \in {2, 4} /\ InitWrites[7][1] \in {2, 4}
  BY DEF InitWrites
<1>6. ASSUME NEW i \in 1 .. 7 PROVE v[i] = UartWritten(v[i - 1], InitWrites[i])
  BY <1>4
<1>7. UartIs(v[1], FALSE, q)
  <2>1. v[1] = UartWritten(v[0], InitWrites[1])
    BY <1>6
  <2>2. FALSE \in BOOLEAN /\ UartIs(v[0], FALSE, q)
    BY <1>4
  <2>3. QED BY <1>5, <2>1, <2>2, PortWritten
<1>8. UartIs(v[2], TRUE, q)
  <2>1. v[2] = UartWritten(v[1], InitWrites[2])
    BY <1>6
  <2>2. UartIs(v[2], InitWrites[2][2] >= 128, q)
    BY <1>5, <1>7, <2>1, PortWritten
  <2>3. QED BY <1>5, <2>2
<1>9. UartIs(v[3], TRUE, q)
  <2>1. v[3] = UartWritten(v[2], InitWrites[3])
    BY <1>6
  <2>2. QED BY <1>5, <1>8, <2>1, PortWritten
<1>10. UartIs(v[4], TRUE, q)
  <2>1. v[4] = UartWritten(v[3], InitWrites[4])
    BY <1>6
  <2>2. QED BY <1>5, <1>9, <2>1, PortWritten
<1>11. UartIs(v[5], FALSE, q)
  <2>1. v[5] = UartWritten(v[4], InitWrites[5])
    BY <1>6
  <2>2. UartIs(v[5], InitWrites[5][2] >= 128, q)
    BY <1>5, <1>10, <2>1, PortWritten
  <2>3. QED BY <1>5, <2>2
<1>12. UartIs(v[6], FALSE, q)
  <2>1. v[6] = UartWritten(v[5], InitWrites[6])
    BY <1>6
  <2>2. QED BY <1>5, <1>11, <2>1, PortWritten
<1>13. UartIs(v[7], FALSE, q)
  <2>1. v[7] = UartWritten(v[6], InitWrites[7])
    BY <1>6
  <2>2. QED BY <1>5, <1>12, <2>1, PortWritten
<1>14. QED BY <1>3, <1>13

-----------------------------------------------------------------------------
(* The invariant.                                                          *)

Points == {"vga_init", "serial_init", "idle", "putc", "switch", "down", "wrap", "fit",
           "scroll", "pull", "bottom", "store", "advance", "home", "hw", "hang", "fault"}

Ops == {"puts", "panic", "clear", "scroll_up", "set_cursor", "set_color"}
CallRecord == [op : Ops, text : Seq(Char)]

\* Where a character is being put there is one, and between calls there is none.
Located(p, t) ==
  /\ p \in Points
  /\ p \in {"putc", "switch", "down", "wrap", "fit", "bottom", "store", "advance"} => t # <<>>
  /\ p \in {"vga_init", "serial_init", "idle", "home", "hang"} => t = <<>>

\* The cursor, from the test of the right edge on, and at the store.
Placed(p, t, s) ==
  /\ (p \in {"wrap", "fit", "bottom", "store"} \/ (p \in {"scroll", "pull"} /\ t # <<>>))
       => s.x < Width
  /\ p = "store" => s.y < Height

\* What has left through COM1 when done is printed and t is to come.
SentAt(p, t, done) ==
  LET now == IF t = <<>> THEN {done} ELSE {done, Append(done, Head(t))}
  IN  CASE p = "fault" -> {s \o Message : s \in now}
        [] p # "fault" -> {IF t = <<>> \/ p = "putc" THEN done ELSE Append(done, Head(t))}

ScreenInv == ScreenOK(screen) /\ Placed(pc, text, screen)
SpillInv  == screen.spilled => Contains(Printed, "BS")
CallInv   == /\ Located(pc, text)
             /\ text \in Seq(Char) /\ calls \in Seq(CallRecord) /\ after \in {"idle", "hang"}
SerialInv == \E done \in Seq(Char) :
               /\ Printed = done \o text
               /\ \E q \in SentAt(pc, text, done) : UartIs(uart, FALSE, q)

ConsoleInv == ScreenInv /\ SpillInv /\ CallInv /\ SerialInv

LEMMA ContainsAppend ==
  ASSUME NEW a \in Seq(Char), NEW b \in Seq(Char), NEW c, Contains(a, c)
  PROVE  Contains(a \o b, c)
BY DEF Contains

\* The text of a call in progress is part of what is printed.
LEMMA TextPrinted ==
  ASSUME CallInv, SerialInv, NEW c, text # <<>>, Head(text) = c
  PROVE  Contains(Printed, c)
<1>1. PICK done \in Seq(Char) : Printed = done \o text
  BY DEF SerialInv
<1>2. text \in Seq(Char) /\ Len(text) # 0
  BY EmptySeq DEF CallInv
<1>3. Len(done) + 1 \in 1 .. Len(done \o text) /\ (done \o text)[Len(done) + 1] = c
  BY <1>2
<1>4. QED BY <1>1, <1>3 DEF Contains

LEMMA PrintedMore ==
  ASSUME calls \in Seq(CallRecord), NEW op \in Ops, NEW printed \in Seq(Char),
         calls' = Append(calls, Call(op, printed))
  PROVE  /\ Printed \in Seq(Char) /\ Printed' = Printed \o printed
         /\ calls' \in Seq(CallRecord)
<1>1. PICK q : q = [i \in DOMAIN calls |-> calls[i].text]
  OBVIOUS
<1>2. q \in Seq(Seq(Char))
  <2>1. \A i \in 1 .. Len(calls) : calls[i] \in CallRecord
    OBVIOUS
  <2>2. \A i \in 1 .. Len(calls) : calls[i].text \in Seq(Char)
    BY <2>1 DEF CallRecord
  <2>3. DOMAIN calls = 1 .. Len(calls) /\ Len(calls) \in Nat
    OBVIOUS
  <2>4. QED BY <1>1, <2>2, <2>3, IsASeq
<1>3. Call(op, printed) \in CallRecord /\ Call(op, printed).text = printed
  BY DEF Call, CallRecord
<1>4. calls' \in Seq(CallRecord)
  BY <1>3
<1>5. [i \in DOMAIN calls' |-> calls'[i].text] = Append(q, printed)
  <2>1. PICK r : r = Call(op, printed)
    OBVIOUS
  <2>2. r.text = printed /\ r \in CallRecord
    BY <1>3, <2>1
  <2>3. /\ DOMAIN calls' = 1 .. Len(calls) + 1 /\ calls'[Len(calls) + 1] = r
        /\ \A i \in 1 .. Len(calls) : calls'[i] = calls[i]
    BY <2>1, <2>2
  <2>4. /\ DOMAIN Append(q, printed) = 1 .. Len(q) + 1 /\ Append(q, printed)[Len(q) + 1] = printed
        /\ \A i \in 1 .. Len(q) : Append(q, printed)[i] = q[i]
    BY <1>2
  <2>5. Len(q) = Len(calls) /\ \A i \in 1 .. Len(calls) : q[i] = calls[i].text
    BY <1>1, <1>2
  <2>6. \A i \in 1 .. Len(calls) + 1 : i = Len(calls) + 1 \/ i \in 1 .. Len(calls)
    OBVIOUS
  <2>7. \A i \in 1 .. Len(calls) + 1 : calls'[i].text = Append(q, printed)[i]
    BY <2>2, <2>3, <2>4, <2>5, <2>6
  <2>8. Append(q, printed) = [i \in 1 .. Len(calls) + 1 |-> Append(q, printed)[i]]
    <3>1. PICK z : z = Append(q, printed)
      OBVIOUS
    <3>2. z \in Seq(Seq(Char)) /\ DOMAIN z = 1 .. Len(calls) + 1
      BY <1>2, <2>4, <2>5, <3>1
    <3>3. z = [i \in DOMAIN z |-> z[i]]
      BY <3>2
    <3>4. QED BY <3>1, <3>2, <3>3
  <2>9. QED BY <2>3, <2>7, <2>8
<1>6. Printed = FlattenSeq(q) /\ Printed' = FlattenSeq(Append(q, printed))
  BY <1>1, <1>5 DEF Printed
<1>7. QED BY <1>2, <1>4, <1>6, FlattenAppend

\* A step within a call: the text and COM1 are left alone.
LEMMA StepKeeps ==
  ASSUME ConsoleInv, UNCHANGED <<uart, text, after, calls>>,
         pc # "fault", pc' # "fault", pc = "putc" <=> pc' = "putc",
         Located(pc', text), ScreenOK(screen'), Placed(pc', text, screen'),
         screen'.spilled => screen.spilled \/ Contains(Printed, "BS")
  PROVE  ConsoleInv'
<1>1. Printed' = Printed
  BY DEF Printed
<1>2. ScreenInv' /\ CallInv'
  BY DEF ConsoleInv, ScreenInv, CallInv
<1>3. SpillInv'
  BY <1>1 DEF ConsoleInv, SpillInv
<1>4. SerialInv'
  <2>1. PICK done \in Seq(Char) :
          Printed = done \o text /\ \E q \in SentAt(pc, text, done) : UartIs(uart, FALSE, q)
    BY DEF ConsoleInv, SerialInv
  <2>2. PICK q \in SentAt(pc, text, done) : UartIs(uart, FALSE, q)
    BY <2>1
  <2>3. SentAt(pc, text, done) = SentAt(pc', text', done)
    BY DEF SentAt
  <2>4. QED BY <1>1, <2>1, <2>2, <2>3 DEF SerialInv
<1>5. QED BY <1>2, <1>3, <1>4 DEF ConsoleInv

\* A call begins between two statements of kernel_main.
LEMMA BeginKeeps ==
  ASSUME ConsoleInv, NEW op \in Ops, NEW printed \in Seq(Char), Begin(op, printed),
         pc' # "fault", printed = <<>> \/ pc' = "putc",
         Located(pc', printed), ScreenOK(screen'), Placed(pc', printed, screen'),
         screen'.spilled => screen.spilled
  PROVE  ConsoleInv'
<1>1. Printed \in Seq(Char) /\ Printed' = Printed \o printed /\ calls' \in Seq(CallRecord)
  BY PrintedMore DEF ConsoleInv, CallInv, Begin
<1>2. text' = printed /\ uart' = uart /\ text = <<>> /\ pc = "idle"
  BY DEF ConsoleInv, CallInv, Located, Begin
<1>3. ScreenInv'
  BY <1>2 DEF ScreenInv
<1>4. CallInv'
  BY <1>1, <1>2 DEF CallInv, Begin
<1>5. SpillInv'
  BY <1>1, ContainsAppend DEF ConsoleInv, SpillInv
<1>6. SerialInv'
  <2>1. PICK done \in Seq(Char) :
          Printed = done \o text /\ \E q \in SentAt(pc, text, done) : UartIs(uart, FALSE, q)
    BY DEF ConsoleInv, SerialInv
  <2>2. PICK q \in SentAt(pc, text, done) : UartIs(uart, FALSE, q)
    BY <2>1
  <2>3. Printed = done /\ q = done
    BY <1>2, <2>1, <2>2 DEF SentAt
  <2>4. Printed' = done \o text' /\ q \in SentAt(pc', text', done)
    BY <1>1, <1>2, <2>3 DEF SentAt
  <2>5. QED BY <1>2, <2>2, <2>4 DEF SerialInv
<1>7. QED BY <1>3, <1>4, <1>5, <1>6 DEF ConsoleInv

LEMMA InitKeeps == Init => ConsoleInv
<1> SUFFICES ASSUME Init PROVE ConsoleInv
  OBVIOUS
<1>1. ScreenOK(screen) /\ screen.spilled = FALSE /\ screen.x = 0 /\ screen.y = 0
  <2>1. PICK cells : screen \in [cell : cells, x : {0}, y : {0}, colour : {White}, spilled : {FALSE}]
    BY DEF Init
  <2>2. screen.spilled = FALSE /\ screen.x = 0 /\ screen.y = 0
    BY <2>1
  <2>3. screen = [cell |-> screen.cell, x |-> screen.x, y |-> screen.y,
                  colour |-> screen.colour, spilled |-> screen.spilled]
    BY <2>1
  <2>4. screen.x \in Nat /\ screen.y \in Nat
    BY <2>2
  <2>5. screen.spilled \in BOOLEAN
    BY <2>2
  <2>6. ScreenOK(screen)
    BY <2>3, <2>4, <2>5 DEF ScreenOK
  <2>7. QED BY <2>2, <2>6
<1>2. pc = "vga_init" /\ text = <<>> /\ calls = <<>> /\ after = "idle"
  BY DEF Init
<1>3. Printed = <<>>
  <2>1. PICK q : q = [i \in DOMAIN calls |-> calls[i].text]
    OBVIOUS
  <2>2. q = <<>>
    BY <1>2, <2>1
  <2>3. QED BY <2>1, <2>2 DEF Printed, FlattenSeq
<1>4. ScreenInv
  BY <1>1, <1>2 DEF ScreenInv, Placed
<1>5. SpillInv
  BY <1>1 DEF SpillInv
<1>6. CallInv
  BY <1>2 DEF CallInv, Located, Points
<1>7. SerialInv
  <2>1. <<>> \in Seq(Char) /\ Printed = <<>> \o text
    BY <1>2, <1>3
  <2>2. UartIs(uart, FALSE, <<>>)
    BY DEF Init, UartOff, UartIs
  <2>3. <<>> \in SentAt(pc, text, <<>>)
    BY <1>2 DEF SentAt
  <2>4. QED BY <2>1, <2>2, <2>3 DEF SerialInv
<1>8. QED BY <1>4, <1>5, <1>6, <1>7 DEF ConsoleInv

LEMMA StartKeeps ==
  ASSUME ConsoleInv
  PROVE  /\ vga_init => ConsoleInv'
         /\ serial_init => ConsoleInv'
         /\ drain => ConsoleInv'
<1>1. ASSUME vga_init PROVE ConsoleInv'
  <2>1. ScreenOK(screen)
    BY DEF ConsoleInv, ScreenInv
  <2>2. PICK blank : blank = Blanked(screen)
    OBVIOUS
  <2>3. ScreenOK(blank) /\ blank.spilled = screen.spilled
    BY <2>1, <2>2, ClearedOK
  <2>4. PICK top : top = Home(blank)
    OBVIOUS
  <2>5. ScreenOK(top) /\ top.spilled = blank.spilled
    BY <2>3, <2>4, MovesOK
  <2>6. ScreenOK([top EXCEPT !.colour = White]) /\ [top EXCEPT !.colour = White].spilled = top.spilled
    BY <2>5, FieldsSet
  <2>7. ScreenOK(screen') /\ screen'.spilled = screen.spilled
    BY <1>1, <2>2, <2>3, <2>4, <2>5, <2>6 DEF vga_init
  <2>8. /\ pc = "vga_init" /\ pc' = "serial_init" /\ UNCHANGED <<uart, text, after, calls>>
    BY <1>1 DEF vga_init, call
  <2>9. Located(pc', text) /\ Placed(pc', text, screen')
    BY <2>8 DEF ConsoleInv, CallInv, Located, Points, Placed
  <2>10. QED BY <2>7, <2>8, <2>9, StepKeeps
<1>2. ASSUME serial_init PROVE ConsoleInv'
  <2>1. /\ pc = "serial_init" /\ pc' = "idle" /\ UNCHANGED <<screen, text, after, calls>>
        /\ uart' = FoldLeft(UartWritten, uart, InitWrites)
    BY <1>2 DEF serial_init, call
  <2>2. ScreenInv' /\ SpillInv' /\ CallInv' /\ Printed' = Printed
    BY <2>1 DEF ConsoleInv, ScreenInv, SpillInv, CallInv, Located, Placed, Points, Printed
  <2>3. SerialInv'
    <3>1. PICK done \in Seq(Char) :
            Printed = done \o text /\ \E q \in SentAt(pc, text, done) : UartIs(uart, FALSE, q)
      BY DEF ConsoleInv, SerialInv
    <3>2. PICK q \in SentAt(pc, text, done) : UartIs(uart, FALSE, q)
      BY <3>1
    <3>3. UartIs(uart', FALSE, q)
      BY <2>1, <3>2, SerialReady
    <3>4. q \in SentAt(pc', text', done)
      BY <2>1, <3>2 DEF SentAt
    <3>5. QED BY <2>1, <2>2, <3>1, <3>3, <3>4 DEF SerialInv
  <2>4. QED BY <2>2, <2>3 DEF ConsoleInv
<1>3. ASSUME drain PROVE ConsoleInv'
  <2>1. uart' = [uart EXCEPT !.busy = FALSE] /\ UNCHANGED <<screen, pc, text, after, calls>>
    BY <1>3 DEF drain, call
  <2>2. ScreenInv' /\ SpillInv' /\ CallInv' /\ Printed' = Printed
    BY <2>1 DEF ConsoleInv, ScreenInv, SpillInv, CallInv, Printed
  <2>3. SerialInv'
    <3>1. PICK done \in Seq(Char) :
            Printed = done \o text /\ \E q \in SentAt(pc, text, done) : UartIs(uart, FALSE, q)
      BY DEF ConsoleInv, SerialInv
    <3>2. PICK q \in SentAt(pc, text, done) : UartIs(uart, FALSE, q)
      BY <3>1
    <3>3. UartIs(uart', FALSE, q)
      BY <2>1, <3>2, UartFields
    <3>4. QED BY <2>1, <2>2, <3>1, <3>2, <3>3 DEF SerialInv
  <2>4. QED BY <2>2, <2>3 DEF ConsoleInv
<1>4. QED BY <1>1, <1>2, <1>3

\* The calls of kernel_main.
LEMMA CallsKeep ==
  ASSUME ConsoleInv
  PROVE  /\ (\E printed \in Texts : vga_puts_call(printed)) => ConsoleInv'
         /\ (\E printed \in Panics : panic(printed)) => ConsoleInv'
         /\ vga_clear => ConsoleInv'
         /\ vga_scroll_up_call => ConsoleInv'
         /\ (\E position \in Positions : vga_set_cursor(position)) => ConsoleInv'
         /\ (\E colour \in Colour : vga_set_color(colour)) => ConsoleInv'
<1>1. ScreenOK(screen) /\ <<>> \in Seq(Char)
  BY DEF ConsoleInv, ScreenInv
<1>2. ASSUME NEW printed \in Texts \cup Panics, NEW op \in Ops,
             Begin(op, printed), pc' = "putc", screen' = screen
      PROVE  ConsoleInv'
  <2>1. printed \in Seq(Char) /\ printed # <<>>
    BY ConsoleAssumption
  <2>2. Located(pc', printed) /\ Placed(pc', printed, screen')
    BY <1>2, <2>1 DEF Located, Points, Placed
  <2>3. QED BY <1>1, <1>2, <2>1, <2>2, BeginKeeps
<1>3. ASSUME NEW op \in Ops, Begin(op, <<>>), pc' \in {"home", "scroll", "hw", "idle"},
             ScreenOK(screen'), screen'.spilled = screen.spilled
      PROVE  ConsoleInv'
  <2>1. Located(pc', <<>>) /\ Placed(pc', <<>>, screen')
    BY <1>3 DEF Located, Points, Placed
  <2>2. pc' # "fault"
    BY <1>3
  <2>3. QED BY <1>1, <1>3, <2>1, <2>2, BeginKeeps
<1>4. Ops = {"puts", "panic", "clear", "scroll_up", "set_cursor", "set_color"}
  BY DEF Ops
<1>5. ASSUME NEW printed \in Texts, vga_puts_call(printed) PROVE ConsoleInv'
  <2>1. Begin("puts", printed) /\ pc' = "putc" /\ screen' = screen
    BY <1>5 DEF vga_puts_call
  <2>2. QED BY <1>2, <1>4, <2>1
<1>6. ASSUME NEW printed \in Panics, panic(printed) PROVE ConsoleInv'
  <2>1. Begin("panic", printed) /\ pc' = "putc" /\ screen' = screen
    BY <1>6 DEF panic
  <2>2. QED BY <1>2, <1>4, <2>1
<1>7. ASSUME vga_clear PROVE ConsoleInv'
  <2>1. screen' = Blanked(screen) /\ Begin("clear", <<>>) /\ pc' = "home"
    BY <1>7 DEF vga_clear
  <2>2. ScreenOK(screen') /\ screen'.spilled = screen.spilled
    BY <1>1, <2>1, ClearedOK
  <2>3. QED BY <1>3, <1>4, <2>1, <2>2
<1>8. ASSUME vga_scroll_up_call PROVE ConsoleInv'
  <2>1. Begin("scroll_up", <<>>) /\ pc' = "scroll" /\ screen' = screen
    BY <1>8 DEF vga_scroll_up_call
  <2>2. QED BY <1>1, <1>3, <1>4, <2>1
<1>9. ASSUME NEW position \in Positions, vga_set_cursor(position) PROVE ConsoleInv'
  <2>1. Begin("set_cursor", <<>>) /\ pc' \in {"hw", "idle"}
    BY <1>9 DEF vga_set_cursor
  <2>2. ScreenOK(screen') /\ screen'.spilled = screen.spilled
    <3>1. CASE screen' = screen
      BY <1>1, <3>1
    <3>2. CASE /\ position.x \in 0 .. Width - 1 /\ position.y \in 0 .. Height - 1
               /\ screen' = [screen EXCEPT !.x = position.x, !.y = position.y]
      <4>1. PICK a : a = position.x
        OBVIOUS
      <4>2. PICK b : b = position.y
        OBVIOUS
      <4>3. a \in Nat /\ b \in Nat
        BY <3>2, <4>1, <4>2, ScreenSize
      <4>4. PICK s : s = [screen EXCEPT !.x = a]
        OBVIOUS
      <4>5. ScreenOK(s) /\ s.spilled = screen.spilled
        BY <1>1, <4>3, <4>4, FieldsSet
      <4>6. screen' = [s EXCEPT !.y = b]
        BY <3>2, <4>1, <4>2, <4>4
      <4>7. ScreenOK([s EXCEPT !.y = b]) /\ [s EXCEPT !.y = b].spilled = s.spilled
        BY <4>3, <4>5, FieldsSet
      <4>8. QED BY <4>5, <4>6, <4>7
    <3>3. QED BY <1>9, <3>1, <3>2 DEF vga_set_cursor
  <2>3. QED BY <1>3, <1>4, <2>1, <2>2
<1>10. ASSUME NEW colour \in Colour, vga_set_color(colour) PROVE ConsoleInv'
  <2>1. /\ screen' = [screen EXCEPT !.colour = colour] /\ Begin("set_color", <<>>)
        /\ pc' = "idle"
    BY <1>10 DEF vga_set_color
  <2>2. /\ ScreenOK([screen EXCEPT !.colour = colour])
        /\ [screen EXCEPT !.colour = colour].spilled = screen.spilled
    BY <1>1, FieldsSet
  <2>3. QED BY <1>3, <1>4, <2>1, <2>2
<1>11. QED BY <1>5, <1>6, <1>7, <1>8, <1>9, <1>10

LEMMA SerialKeeps == ConsoleInv /\ serial_putc => ConsoleInv'
<1> SUFFICES ASSUME ConsoleInv, serial_putc PROVE ConsoleInv'
  OBVIOUS
<1>1. /\ pc = "putc" /\ pc' = "switch" /\ UNCHANGED <<screen, text, after, calls>>
      /\ uart' = UartWritten(uart, <<0, Head(text)>>) /\ text # <<>>
  BY DEF serial_putc, call, char, ConsoleInv, CallInv, Located
<1>2. ScreenInv' /\ SpillInv' /\ CallInv' /\ Printed' = Printed
  BY <1>1 DEF ConsoleInv, ScreenInv, SpillInv, CallInv, Located, Placed, Points, Printed
<1>3. SerialInv'
  <2>1. PICK done \in Seq(Char) :
          Printed = done \o text /\ \E q \in SentAt(pc, text, done) : UartIs(uart, FALSE, q)
    BY DEF ConsoleInv, SerialInv
  <2>2. UartIs(uart, FALSE, done)
    BY <1>1, <2>1 DEF SentAt
  <2>3. PICK w : w = <<0, Head(text)>>
    OBVIOUS
  <2>4. w[1] = 0 /\ w[2] = Head(text)
    BY <2>3
  <2>5. UartIs(UartWritten(uart, w), FALSE, Append(done, w[2]))
    BY <2>2, <2>4, PortWritten
  <2>6. UartIs(uart', FALSE, Append(done, Head(text)))
    BY <1>1, <2>3, <2>4, <2>5
  <2>7. Append(done, Head(text)) \in SentAt(pc', text', done)
    BY <1>1 DEF SentAt
  <2>8. QED BY <1>1, <1>2, <2>1, <2>6, <2>7 DEF SerialInv
<1>4. QED BY <1>2, <1>3 DEF ConsoleInv

\* vga_putc on the screen.
LEMMA SwitchKeeps == ConsoleInv /\ switch => ConsoleInv'
<1> SUFFICES ASSUME ConsoleInv, switch PROVE ConsoleInv'
  OBVIOUS
<1>1. ScreenOK(screen) /\ text # <<>> /\ pc = "switch" /\ UNCHANGED <<uart, text, after, calls>>
  BY DEF switch, Step, call, ConsoleInv, ScreenInv, CallInv, Located
<1>2. ASSUME pc' \in {"down", "hw", "wrap", "fit"}, ScreenOK(screen'),
             pc' \in {"wrap", "fit"} => screen'.x < Width,
             screen'.spilled = screen.spilled \/ Contains(Printed, "BS")
      PROVE  ConsoleInv'
  <2>1. Located(pc', text) /\ Placed(pc', text, screen')
    BY <1>1, <1>2 DEF Located, Points, Placed
  <2>2. pc' # "fault" /\ pc' # "putc"
    BY <1>2
  <2>3. QED BY <1>1, <1>2, <2>1, <2>2, StepKeeps
<1>3. CASE char = "LF" /\ Step("switch", Return(screen), "down")
  BY <1>1, <1>2, <1>3, MovesOK DEF Step
<1>4. CASE char = "CR" /\ Step("switch", Return(screen), "hw")
  BY <1>1, <1>2, <1>4, MovesOK DEF Step
<1>5. CASE char = "HT" /\ Step("switch", Tab(screen), "hw")
  BY <1>1, <1>2, <1>5, TabOK DEF Step
<1>6. CASE char = "BS" /\ Step("switch", Backspace(screen), "hw")
  <2>1. Contains(Printed, "BS")
    BY <1>1, <1>6, TextPrinted DEF char, ConsoleInv
  <2>2. QED BY <1>1, <1>2, <1>6, <2>1, BackspaceOK DEF Step
<1>7. CASE AtEdge(screen) /\ Step("switch", Return(screen), "wrap")
  <2>1. /\ screen' = Return(screen) /\ ScreenOK(Return(screen)) /\ Return(screen).x = 0
        /\ Return(screen).spilled = screen.spilled
    BY <1>1, <1>7, MovesOK DEF Step
  <2>2. 0 < Width
    BY ScreenSize
  <2>3. QED BY <1>2, <1>7, <2>1, <2>2 DEF Step
<1>8. CASE ~AtEdge(screen) /\ Step("switch", screen, "fit")
  <2>1. screen.x < Width
    BY <1>1, <1>8, ScreenSize DEF AtEdge, ScreenOK
  <2>2. QED BY <1>1, <1>2, <1>8, <2>1 DEF Step
<1>9. QED BY <1>3, <1>4, <1>5, <1>6, <1>7, <1>8 DEF switch

LEMMA PutcKeeps ==
  ASSUME ConsoleInv
  PROVE  /\ down => ConsoleInv'
         /\ wrap => ConsoleInv'
         /\ fit => ConsoleInv'
         /\ bottom => ConsoleInv'
         /\ store => ConsoleInv'
         /\ advance => ConsoleInv'
         /\ home => ConsoleInv'
<1>1. ScreenOK(screen) /\ Located(pc, text) /\ Placed(pc, text, screen)
  BY DEF ConsoleInv, ScreenInv, CallInv
<1>2. ASSUME NEW from, NEW to, NEW s, Step(from, s, to), ScreenOK(s), s.spilled = screen.spilled,
             from \in {"down", "wrap", "fit", "bottom", "store", "advance", "home"},
             to \in {"hw", "fit", "scroll", "store", "advance"},
             Located(to, text), Placed(to, text, s)
      PROVE  ConsoleInv'
  <2>1. /\ pc = from /\ pc' = to /\ screen' = s /\ UNCHANGED <<uart, text, after, calls>>
    BY <1>2 DEF Step, call
  <2>2. pc # "fault" /\ pc' # "fault" /\ pc # "putc" /\ pc' # "putc"
    BY <1>2, <2>1
  <2>3. QED BY <1>2, <2>1, <2>2, StepKeeps
<1>3. ASSUME down PROVE ConsoleInv'
  <2>1. pc = "down" /\ Step("down", Down(screen), "hw")
    BY <1>3 DEF down, Step
  <2>2. ScreenOK(Down(screen)) /\ Down(screen).spilled = screen.spilled
    BY <1>1, MovesOK
  <2>3. Located("hw", text) /\ Placed("hw", text, Down(screen))
    BY <1>1, <2>1 DEF Located, Points, Placed
  <2>4. QED BY <1>2, <2>1, <2>2, <2>3
<1>4. ASSUME wrap PROVE ConsoleInv'
  <2>1. pc = "wrap" /\ Step("wrap", Down(screen), "fit")
    BY <1>4 DEF wrap, Step
  <2>2. ScreenOK(Down(screen)) /\ Down(screen).spilled = screen.spilled /\ Down(screen).x = screen.x
    BY <1>1, MovesOK
  <2>3. Located("fit", text) /\ Placed("fit", text, Down(screen))
    BY <1>1, <2>1, <2>2 DEF Located, Points, Placed
  <2>4. QED BY <1>2, <2>1, <2>2, <2>3
<1>5. ASSUME fit PROVE ConsoleInv'
  <2>1. pc = "fit" /\ text # <<>> /\ screen.x < Width
    BY <1>1, <1>5 DEF fit, Step, Located, Placed
  <2>2. CASE Below(screen)
    <3>1. Step("fit", screen, "scroll")
      BY <1>5, <2>2 DEF fit
    <3>2. Located("scroll", text) /\ Placed("scroll", text, screen)
      BY <2>1 DEF Located, Points, Placed
    <3>3. QED BY <1>1, <1>2, <3>1, <3>2
  <2>3. CASE ~Below(screen)
    <3>1. Step("fit", screen, "store")
      BY <1>5, <2>3 DEF fit
    <3>2. screen.y < Height
      BY <1>1, <2>3, ScreenSize DEF Below, ScreenOK
    <3>3. Located("store", text) /\ Placed("store", text, screen)
      BY <2>1, <3>2 DEF Located, Points, Placed
    <3>4. QED BY <1>1, <1>2, <3>1, <3>3
  <2>4. QED BY <2>2, <2>3
<1>6. ASSUME bottom PROVE ConsoleInv'
  <2>1. pc = "bottom" /\ Step("bottom", Bottom(screen), "store")
    BY <1>6 DEF bottom, Step
  <2>2. /\ ScreenOK(Bottom(screen)) /\ Bottom(screen).spilled = screen.spilled
        /\ Bottom(screen).x = screen.x /\ Bottom(screen).y = Height - 1
    BY <1>1, MovesOK
  <2>3. Height - 1 < Height
    BY ScreenSize
  <2>4. Located("store", text) /\ Placed("store", text, Bottom(screen))
    BY <1>1, <2>1, <2>2, <2>3 DEF Located, Points, Placed
  <2>5. QED BY <1>2, <2>1, <2>2, <2>4
<1>7. ASSUME store PROVE ConsoleInv'
  <2>1. pc = "store" /\ Step("store", Store(screen, char), "advance")
    BY <1>7 DEF store, Step
  <2>2. screen.x < Width /\ screen.y < Height
    BY <1>1, <2>1 DEF Placed
  <2>3. ScreenOK(Store(screen, char)) /\ Store(screen, char).spilled = screen.spilled
    BY <1>1, <2>2, StoreFits
  <2>4. Located("advance", text) /\ Placed("advance", text, Store(screen, char))
    BY <1>1, <2>1 DEF Located, Points, Placed
  <2>5. QED BY <1>2, <2>1, <2>3, <2>4
<1>8. ASSUME advance PROVE ConsoleInv'
  <2>1. pc = "advance" /\ Step("advance", Advance(screen), "hw")
    BY <1>8 DEF advance, Step
  <2>2. ScreenOK(Advance(screen)) /\ Advance(screen).spilled = screen.spilled
    BY <1>1, MovesOK
  <2>3. Located("hw", text) /\ Placed("hw", text, Advance(screen))
    BY <1>1, <2>1 DEF Located, Points, Placed
  <2>4. QED BY <1>2, <2>1, <2>2, <2>3
<1>9. ASSUME home PROVE ConsoleInv'
  <2>1. pc = "home" /\ Step("home", Home(screen), "hw")
    BY <1>9 DEF home, Step
  <2>2. ScreenOK(Home(screen)) /\ Home(screen).spilled = screen.spilled
    BY <1>1, MovesOK
  <2>3. Located("hw", text) /\ Placed("hw", text, Home(screen))
    BY <1>1, <2>1 DEF Located, Points, Placed
  <2>4. QED BY <1>2, <2>1, <2>2, <2>3
<1>10. QED BY <1>3, <1>4, <1>5, <1>6, <1>7, <1>8, <1>9

\* vga_scroll_up, row by row, leaves the cursor's column alone.
LEMMA ScrollKeeps ==
  ASSUME ConsoleInv
  PROVE  /\ scroll => ConsoleInv'
         /\ scroll_last => ConsoleInv'
         /\ pull => ConsoleInv'
<1>1. ScreenOK(screen) /\ Located(pc, text) /\ Placed(pc, text, screen)
  BY DEF ConsoleInv, ScreenInv, CallInv
<1>2. ASSUME scroll \/ scroll_last PROVE ConsoleInv'
  <2>1. /\ pc = "scroll" /\ pc' \in {"scroll", "pull"} /\ UNCHANGED <<uart, text, after, calls>>
        /\ ScreenOK(screen') /\ screen'.x = screen.x /\ screen'.spilled = screen.spilled
    <3>1. CASE scroll
      <4>1. PICK r : r = RowAt(row)
        OBVIOUS
      <4>2. screen' = CopyRow(screen, r)
        BY <3>1, <4>1 DEF scroll
      <4>3. ScreenOK(screen') /\ screen'.x = screen.x /\ screen'.spilled = screen.spilled
        BY <1>1, <4>2, ClearedOK
      <4>4. QED BY <3>1, <4>3 DEF scroll
    <3>2. CASE scroll_last
      <4>1. screen' = ClearLast(screen)
        BY <3>2 DEF scroll_last
      <4>2. ScreenOK(screen') /\ screen'.x = screen.x /\ screen'.spilled = screen.spilled
        BY <1>1, <4>1, ClearedOK
      <4>3. QED BY <3>2, <4>2 DEF scroll_last
    <3>3. QED BY <1>2, <3>1, <3>2
  <2>2. Located(pc', text) /\ Placed(pc', text, screen')
    BY <1>1, <2>1 DEF Located, Points, Placed
  <2>3. pc # "fault" /\ pc' # "fault" /\ pc # "putc" /\ pc' # "putc"
    BY <2>1
  <2>4. QED BY <2>1, <2>2, <2>3, StepKeeps
<1>3. ASSUME pull PROVE ConsoleInv'
  <2>1. /\ pc = "pull" /\ pc' = IF text # <<>> THEN "bottom" ELSE "idle"
        /\ screen' = PullCursor(screen) /\ UNCHANGED <<uart, text, after, calls>>
    BY <1>3 DEF pull, Step, call, InPutc
  <2>2. ScreenOK(screen') /\ screen'.x = screen.x /\ screen'.spilled = screen.spilled
    BY <1>1, <2>1, MovesOK
  <2>3. Located(pc', text) /\ Placed(pc', text, screen')
    BY <1>1, <2>1, <2>2 DEF Located, Points, Placed
  <2>4. pc # "fault" /\ pc' # "fault" /\ pc # "putc" /\ pc' # "putc"
    BY <2>1
  <2>5. QED BY <2>1, <2>2, <2>3, <2>4, StepKeeps
<1>4. QED BY <1>2, <1>3

\* The end of a character: the next one's turn, or the end of the call.
LEMMA CursorKeeps == ConsoleInv /\ vga_set_hw_cursor => ConsoleInv'
<1> SUFFICES ASSUME ConsoleInv, vga_set_hw_cursor PROVE ConsoleInv'
  OBVIOUS
<1>1. /\ pc = "hw" /\ UNCHANGED <<screen, uart, after, calls>>
      /\ text' = IF text # <<>> THEN Tail(text) ELSE <<>>
      /\ pc' = IF Len(text) > 1 THEN "putc" ELSE after
  BY DEF vga_set_hw_cursor, InPutc
<1>2. text \in Seq(Char) /\ after \in {"idle", "hang"}
  BY DEF ConsoleInv, CallInv
<1>3. /\ text' \in Seq(Char)
      /\ Len(text) > 1 => text' # <<>>
      /\ ~(Len(text) > 1) => text' = <<>>
      /\ text # <<>> => text = <<Head(text)>> \o text' /\ Head(text) \in Char
  <2>1. CASE text = <<>>
    BY <1>1, <2>1
  <2>2. CASE text # <<>>
    <3>1. /\ text' = Tail(text) /\ Len(text') = Len(text) - 1 /\ text' \in Seq(Char)
          /\ Len(text) \in Nat \ {0} /\ Head(text) \in Char
      BY <1>1, <1>2, <2>2, EmptySeq, HeadTailProperties
    <3>2. text = <<Head(text)>> \o text'
      BY <1>2, <2>2, <3>1
    <3>3. Len(text') = 0 <=> text' = <<>>
      BY <3>1, EmptySeq
    <3>4. QED BY <3>1, <3>2, <3>3
  <2>3. QED BY <2>1, <2>2
<1>4. Printed' = Printed
  BY <1>1 DEF Printed
<1>5. pc' \in {"putc", "idle", "hang"} /\ (pc' = "putc" => text' # <<>>) /\ (pc' # "putc" => text' = <<>>)
  BY <1>1, <1>2, <1>3
<1>6. ScreenInv' /\ CallInv'
  BY <1>1, <1>3, <1>5 DEF ConsoleInv, ScreenInv, CallInv, Located, Placed, Points
<1>7. SpillInv'
  BY <1>1, <1>4 DEF ConsoleInv, SpillInv
<1>8. SerialInv'
  <2>1. PICK done \in Seq(Char) :
          Printed = done \o text /\ \E q \in SentAt(pc, text, done) : UartIs(uart, FALSE, q)
    BY DEF ConsoleInv, SerialInv
  <2>2. CASE text = <<>>
    <3>1. UartIs(uart, FALSE, done)
      BY <1>1, <2>1, <2>2 DEF SentAt
    <3>2. text' = text /\ done \in SentAt(pc', text', done)
      BY <1>1, <1>5, <2>2 DEF SentAt
    <3>3. QED BY <1>1, <1>4, <2>1, <3>1, <3>2 DEF SerialInv
  <2>3. CASE text # <<>>
    <3>1. PICK more : more = Append(done, Head(text))
      OBVIOUS
    <3>2. UartIs(uart, FALSE, more)
      BY <1>1, <2>1, <2>3, <3>1 DEF SentAt
    <3>3. more \in Seq(Char) /\ done \o text = more \o text'
      <4>1. more \in Seq(Char)
        BY <1>3, <2>3, <3>1
      <4>2. PICK h \in Char : h = Head(text)
        BY <1>3, <2>3
      <4>3. PICK rest \in Seq(Char) : rest = text'
        BY <1>3
      <4>4. done \o (<<h>> \o rest) = Append(done, h) \o rest
        OBVIOUS
      <4>5. QED BY <1>3, <2>3, <3>1, <4>1, <4>2, <4>3, <4>4
    <3>4. more \in SentAt(pc', text', more)
      BY <1>5 DEF SentAt
    <3>5. QED BY <1>1, <1>4, <2>1, <3>2, <3>3, <3>4 DEF SerialInv
  <2>4. QED BY <2>2, <2>3
<1>9. QED BY <1>6, <1>7, <1>8 DEF ConsoleInv

\* An exception strikes: its message fits and follows what has been sent.
LEMMA FaultKeeps == ConsoleInv /\ fault => ConsoleInv'
<1> SUFFICES ASSUME ConsoleInv, fault PROVE ConsoleInv'
  OBVIOUS
<1>1. /\ pc # "fault" /\ pc' = "fault" /\ UNCHANGED <<text, after, calls>>
      /\ screen' = vga_puts(screen, Message)
      /\ uart' = [uart EXCEPT !.sent = @ \o Message]
  BY DEF fault, call
<1>2. ScreenOK(screen') /\ screen'.spilled = screen.spilled
  BY <1>1, MessageFits DEF ConsoleInv, ScreenInv
<1>3. Printed' = Printed
  BY <1>1 DEF Printed
<1>4. ScreenInv' /\ SpillInv' /\ CallInv'
  BY <1>1, <1>2, <1>3 DEF ConsoleInv, ScreenInv, SpillInv, CallInv, Located, Placed, Points
<1>5. SerialInv'
  <2>1. PICK done \in Seq(Char) :
          Printed = done \o text /\ \E q \in SentAt(pc, text, done) : UartIs(uart, FALSE, q)
    BY DEF ConsoleInv, SerialInv
  <2>2. PICK q \in SentAt(pc, text, done) : UartIs(uart, FALSE, q)
    BY <2>1
  <2>3. PICK all : all = q \o Message
    OBVIOUS
  <2>4. uart' = [uart EXCEPT !.sent = all]
    BY <1>1, <2>2, <2>3, UartFields
  <2>5. UartIs(uart', FALSE, all)
    BY <2>2, <2>4, UartFields
  <2>6. all \in SentAt(pc', text', done)
    BY <1>1, <2>2, <2>3 DEF SentAt
  <2>7. QED BY <1>1, <1>3, <2>1, <2>5, <2>6 DEF SerialInv
<1>6. QED BY <1>4, <1>5 DEF ConsoleInv

\* Wherever a call of the console stands and wherever an exception breaks in, the
\* cursor is where vga_putc has put it and COM1 has sent what has begun to be printed.
THEOREM ConsoleInvariance == Spec => []ConsoleInv
<1>1. Init => ConsoleInv
  BY InitKeeps
<1>2. ConsoleInv /\ [Next]_vars => ConsoleInv'
  <2> SUFFICES ASSUME ConsoleInv, [Next]_vars PROVE ConsoleInv'
    OBVIOUS
  <2>1. CASE main
    <3>1. CASE vga_init \/ serial_init
      BY <3>1, StartKeeps
    <3>2. CASE serial_putc \/ switch
      BY <3>2, SerialKeeps, SwitchKeeps
    <3>3. CASE down \/ wrap \/ fit \/ bottom \/ store \/ advance \/ home
      BY <3>3, PutcKeeps
    <3>4. CASE scroll \/ scroll_last \/ pull
      BY <3>4, ScrollKeeps
    <3>5. CASE vga_set_hw_cursor
      BY <3>5, CursorKeeps
    <3>6. QED BY <2>1, <3>1, <3>2, <3>3, <3>4, <3>5 DEF main
  <2>2. CASE UNCHANGED vars
    BY <2>2 DEF vars, ConsoleInv, ScreenInv, SpillInv, CallInv, SerialInv, Printed
  <2>3. CASE drain \/ fault
    BY <2>3, StartKeeps, FaultKeeps
  <2>4. CASE \/ \E printed \in Texts : vga_puts_call(printed)
             \/ \E printed \in Panics : panic(printed)
             \/ vga_clear \/ vga_scroll_up_call
             \/ \E position \in Positions : vga_set_cursor(position)
             \/ \E colour \in Colour : vga_set_color(colour)
    BY <2>4, CallsKeep
  <2>5. QED BY <2>1, <2>2, <2>3, <2>4 DEF Next
<1>3. QED BY <1>1, <1>2, PTL DEF Spec

\* No newline, tab, wrap, scroll or message of a handler ever stores outside the
\* screen's cells, on a screen of any size (vga.c:86-127).
THEOREM BackspaceOnly == Spec => []OnlyBackspaceSpills
<1>1. ConsoleInv => OnlyBackspaceSpills
  BY DEF ConsoleInv, SpillInv, OnlyBackspaceSpills
<1>2. QED BY <1>1, ConsoleInvariance, PTL

\* COM1 repeats every text, character by character, also when an exception cuts it
\* short (vga.c:88).
THEOREM Mirrored == Spec => []SerialMirrors
<1>1. ConsoleInv => SerialMirrors
  <2> SUFFICES ASSUME ConsoleInv PROVE SerialMirrors
    OBVIOUS
  <2>1. PICK done \in Seq(Char) :
          Printed = done \o text /\ \E q \in SentAt(pc, text, done) : UartIs(uart, FALSE, q)
    BY DEF ConsoleInv, SerialInv
  <2>2. uart.sent \in SentAt(pc, text, done)
    BY <2>1, UartFields
  <2>3. text \in Seq(Char)
    BY DEF ConsoleInv, CallInv
  <2>4. Begun = Len(done)
    BY <2>1, <2>3 DEF Begun
  <2>5. SubSeq(Printed, 1, Begun) = done
    BY <2>1, <2>3, <2>4
  <2>6. text # <<>> => SubSeq(Printed, 1, Begun + 1) = Append(done, Head(text))
    BY <2>1, <2>3, <2>4
  <2>7. QED BY <2>2, <2>5, <2>6 DEF SerialMirrors, SentAt, InPutc
<1>2. QED BY <1>1, ConsoleInvariance, PTL

-----------------------------------------------------------------------------
(* What an exception's message leaves on the screen.                       *)

\* A position and its row.
LEMMA RowOf ==
  ASSUME NEW y \in Nat, NEW x \in 0 .. Width - 1
  PROVE  /\ (y * Width + x) \div Width = y
         /\ y < Height => y * Width + x \in Cell
<1> PICK w \in Nat \ {0} : w = Width
  BY ScreenSize
<1>1. (y * w + x) \div w = y
  OBVIOUS
<1>2. ASSUME y < Height PROVE y * w + x \in Cell
  <2>1. \A a, b, v \in Nat : a + 1 <= b => a * v + v <= v * b
    OBVIOUS
  <2>2. y * w + w <= w * Height /\ y * w \in Nat /\ w * Height \in Nat
    BY <1>2, <2>1, ScreenSize
  <2>3. QED BY <2>2 DEF Cell
<1>3. QED BY <1>1, <1>2

LEMMA CellOf ==
  ASSUME NEW c \in Cell
  PROVE  \E y \in 0 .. Height - 1, x \in 0 .. Width - 1 : c = y * Width + x
<1> PICK w \in Nat \ {0} : w = Width
  BY ScreenSize
<1>1. c \in Nat /\ c < w * Height
  BY ScreenSize DEF Cell
<1>2. c = (c \div w) * w + (c % w) /\ c % w \in 0 .. w - 1 /\ c \div w \in Nat
  BY <1>1
<1>3. c \div w < Height
  <2>1. PICK q \in Nat : q = c \div w
    BY <1>2
  <2>2. q * w <= c
    BY <1>2, <2>1
  <2>3. ASSUME q >= Height PROVE FALSE
    <3>1. \A a, b, v \in Nat : a >= b => a * v >= v * b
      OBVIOUS
    <3>2. QED BY <1>1, <2>2, <2>3, <3>1, ScreenSize
  <2>4. QED BY <2>1, <2>3, ScreenSize
<1>4. PICK y : y = c \div w
  OBVIOUS
<1>5. PICK x : x = c % w
  OBVIOUS
<1>6. y \in 0 .. Height - 1 /\ x \in 0 .. Width - 1 /\ c = y * Width + x
  BY <1>2, <1>3, <1>4, <1>5, ScreenSize
<1>7. QED BY <1>6

LEMMA RowBelow ==
  ASSUME NEW c \in Cell
  PROVE  /\ c \div Width \in 0 .. Height - 1
         /\ c \div Width < Height - 1 => /\ c + Width \in Cell
                                         /\ (c + Width) \div Width = c \div Width + 1
<1> PICK w \in Nat \ {0} : w = Width
  BY ScreenSize
<1>1. PICK y \in 0 .. Height - 1, x \in 0 .. w - 1 : c = y * w + x
  BY CellOf
<1>2. y \in Nat /\ c \div w = y
  BY <1>1, RowOf
<1>3. ASSUME y < Height - 1 PROVE c + w \in Cell /\ (c + w) \div w = y + 1
  <2>1. c + w = (y + 1) * w + x
    BY <1>1
  <2>2. y + 1 < Height /\ y + 1 \in Nat
    BY <1>2, <1>3, ScreenSize
  <2>3. QED BY <1>1, <2>1, <2>2, RowOf
<1>4. QED BY <1>1, <1>2, <1>3

OnScreen(s) == ScreenOK(s) /\ DOMAIN s.cell = Cell

\* vga_scroll_up moves every row but the first up by one.
LEMMA RowsMoved ==
  ASSUME NEW s, OnScreen(s), NEW t, t = vga_scroll_up(s)
  PROVE  /\ OnScreen(t)
         /\ \A c \in Cell : c + Width \in Cell => t.cell[c] = s.cell[c + Width]
<1> PICK w \in Nat \ {0} : w = Width
  BY ScreenSize
<1>1. PICK rows : rows = [r \in 1 .. Height - 1 |-> r - 1]
  OBVIOUS
<1>2. PICK n \in Nat : n = Height - 1 /\ n >= 1
  BY ScreenSize
<1>3. DOMAIN rows = 1 .. n
  BY <1>1, <1>2
<1>4. PICK v : /\ Copied!FoldSteps(v, s, rows, n)
               /\ Copied!FoldLeft(CopyRow, s, rows) = v[n]
  BY <1>3, Copied!FoldTrace
<1>5. FoldLeft(CopyRow, s, rows) = v[n]
  <2>1. Copied!FoldLeft(CopyRow, s, rows) = FoldLeft(CopyRow, s, rows)
    BY DEF FoldLeft, MapThenFoldSet, Max, Copied!FoldLeft, Copied!MapThenFoldSet, Copied!Max
  <2>2. QED BY <1>4, <2>1
<1> DEFINE Moved(i, u) ==
             \A c \in Cell : u.cell[c] = IF c \div w < i THEN s.cell[c + w] ELSE s.cell[c]
           I == {i \in 0 .. n : OnScreen(v[i]) /\ Moved(i, v[i])}
<1>6. 0 \in I
  <2>1. v[0] = s
    BY <1>4 DEF Copied!FoldSteps
  <2>2. \A c \in Cell : c \div w \in 0 .. Height - 1
    BY RowBelow
  <2>3. \A c \in Cell : ~(c \div w < 0)
    BY <2>2, ScreenSize
  <2>4. QED BY <2>1, <2>3
<1>7. ASSUME NEW i \in 1 .. n, i - 1 \in I PROVE i \in I
  <2>1. PICK u : u = v[i - 1]
    OBVIOUS
  <2>2. OnScreen(u) /\ Moved(i - 1, u)
    BY <1>7, <2>1
  <2>3. v[i] = CopyRow(u, i - 1)
    <3>1. rows[i] = i - 1
      BY <1>1, <1>2
    <3>2. QED BY <1>4, <2>1, <3>1 DEF Copied!FoldSteps
  <2>4. PICK new : new = [c \in Cell |-> IF c \div w = i - 1 THEN u.cell[c + w] ELSE u.cell[c]]
    OBVIOUS
  <2>5. CopyRow(u, i - 1) = [u EXCEPT !.cell = new]
    BY <2>4 DEF CopyRow
  <2>6. OnScreen([u EXCEPT !.cell = new]) /\ [u EXCEPT !.cell = new].cell = new
    BY <2>2, <2>4 DEF OnScreen, ScreenOK
  <2>7. ASSUME NEW c \in Cell
        PROVE  new[c] = IF c \div w < i THEN s.cell[c + w] ELSE s.cell[c]
    <3>1. PICK q \in Nat : q = c \div w
      BY RowBelow
    <3>2. CASE q = i - 1
      <4>1. q < Height - 1
        BY <1>2, <3>2
      <4>2. c + w \in Cell /\ (c + w) \div w = q + 1
        BY <3>1, <4>1, RowBelow
      <4>3. new[c] = u.cell[c + w]
        BY <2>4, <3>1, <3>2
      <4>4. ~(q + 1 < i - 1) /\ q < i
        BY <3>2
      <4>5. u.cell[c + w] = s.cell[c + w]
        BY <2>2, <4>2, <4>4
      <4>6. QED BY <3>1, <4>3, <4>4, <4>5
    <3>3. CASE q # i - 1
      <4>1. new[c] = u.cell[c]
        BY <2>4, <3>1, <3>3
      <4>2. q < i - 1 <=> q < i
        BY <3>3
      <4>3. QED BY <2>2, <3>1, <4>1, <4>2
    <3>4. QED BY <3>2, <3>3
  <2>8. OnScreen(v[i]) /\ Moved(i, v[i])
    BY <2>3, <2>5, <2>6, <2>7
  <2>9. i \in 0 .. n
    OBVIOUS
  <2>10. QED BY <2>8, <2>9
<1> HIDE DEF I
<1>8. n \in 0 .. n /\ n \in I
  BY <1>6, <1>7, Copied!LoopInduction
<1>9. PICK copied : copied = v[n]
  OBVIOUS
<1>10. OnScreen(copied) /\ Moved(n, copied)
  BY <1>8, <1>9 DEF I
<1>11. PICK new : new = [c \in Cell |-> IF c \div w = Height - 1 THEN Shown(" ", copied.colour)
                                       ELSE copied.cell[c]]
  OBVIOUS
<1>12. PICK cleared : cleared = [copied EXCEPT !.cell = new]
  OBVIOUS
<1>13. OnScreen(cleared) /\ cleared.cell = new
  BY <1>10, <1>11, <1>12 DEF OnScreen, ScreenOK
<1>14. t = PullCursor(cleared)
  BY <1>1, <1>5, <1>9, <1>11, <1>12 DEF vga_scroll_up, ClearLast
<1>15. t.cell = cleared.cell
  BY <1>13, <1>14 DEF PullCursor, OnScreen, ScreenOK
<1>16. OnScreen(t)
  BY <1>13, <1>14, <1>15, MovesOK DEF OnScreen
<1>17. ASSUME NEW c \in Cell, c + w \in Cell PROVE t.cell[c] = s.cell[c + w]
  <2>1. PICK q \in Nat : q = c \div w /\ q <= Height - 1
    BY RowBelow
  <2>2. q < n
    <3>1. (c + w) \div w = q + 1 /\ (c + w) \div w <= Height - 1
      <4>1. (c + w) \div w \in 0 .. Height - 1
        BY <1>17, RowBelow
      <4>2. c \in Nat
        BY DEF Cell
      <4>3. (c + w) \div w = q + 1
        BY <2>1, <4>2
      <4>4. QED BY <4>1, <4>3
    <3>2. QED BY <1>2, <2>1, <3>1
  <2>3. new[c] = copied.cell[c]
    <3>1. c \div w # Height - 1
      BY <1>2, <2>1, <2>2
    <3> HIDE DEF Moved
    <3>2. QED BY <1>11, <3>1
  <2>4. copied.cell[c] = s.cell[c + w]
    BY <1>10, <2>1, <2>2
  <2>5. QED BY <1>13, <1>15, <2>3, <2>4
<1>18. QED BY <1>16, <1>17

\* Every operation leaves the screen its cells.
LEMMA KeepsCells ==
  ASSUME NEW s, OnScreen(s)
  PROVE  /\ OnScreen(Return(s)) /\ OnScreen(Down(s)) /\ OnScreen(Bottom(s))
         /\ OnScreen(Advance(s)) /\ OnScreen(PullCursor(s)) /\ OnScreen(Home(s))
         /\ OnScreen(Tab(s)) /\ OnScreen(Backspace(s)) /\ OnScreen(Blanked(s))
         /\ OnScreen(ClearLast(s)) /\ \A r : OnScreen(CopyRow(s, r))
         /\ \A c : OnScreen(Store(s, c))
<1>1. ScreenOK(s) /\ DOMAIN s.cell = Cell
  BY DEF OnScreen
<1>2. /\ Return(s).cell = s.cell /\ Down(s).cell = s.cell /\ Bottom(s).cell = s.cell
      /\ Advance(s).cell = s.cell /\ PullCursor(s).cell = s.cell /\ Home(s).cell = s.cell
      /\ Tab(s).cell = s.cell
  BY <1>1 DEF ScreenOK, Return, Down, Bottom, Advance, PullCursor, Home, Tab
<1>3. ASSUME NEW u, OnScreen(u), NEW c PROVE DOMAIN Store(u, c).cell = Cell
  <2>1. ASSUME NEW a, NEW v PROVE DOMAIN [u EXCEPT !.cell[a] = v].cell = Cell
    BY <1>3 DEF OnScreen, ScreenOK
  <2>2. [u EXCEPT !.spilled = TRUE].cell = u.cell
    BY <1>3 DEF OnScreen, ScreenOK
  <2>3. QED BY <1>3, <2>1, <2>2 DEF Store, OnScreen
<1>4. DOMAIN Backspace(s).cell = Cell
  <2>1. CASE s.x > 0
    <3>1. PICK u : u = [s EXCEPT !.x = @ - 1]
      OBVIOUS
    <3>2. OnScreen(u)
      BY <1>1, <2>1, <3>1 DEF ScreenOK, OnScreen
    <3>3. Backspace(s) = Store(u, " ")
      BY <2>1, <3>1 DEF Backspace
    <3>4. QED BY <1>3, <3>2, <3>3
  <2>2. CASE ~(s.x > 0)
    BY <1>1, <2>2 DEF Backspace
  <2>3. QED BY <2>1, <2>2
<1>5. /\ DOMAIN Blanked(s).cell = Cell /\ DOMAIN ClearLast(s).cell = Cell
      /\ \A r : DOMAIN CopyRow(s, r).cell = Cell
  <2>1. \A f : DOMAIN f = Cell => DOMAIN [s EXCEPT !.cell = f].cell = Cell
    BY <1>1 DEF ScreenOK
  <2>2. QED BY <2>1 DEF Blanked, ClearLast, CopyRow
<1>6. QED BY <1>1, <1>2, <1>3, <1>4, <1>5, MovesOK, TabOK, ClearedOK, StoreOK, BackspaceOK DEF OnScreen

\* A glyph put where the cursor is on the screen, and where it has run over the edge.
LEMMA GlyphPut ==
  ASSUME NEW s, OnScreen(s), NEW c \in Glyph, NEW t, t = vga_putc(s, c)
  PROVE  \E u : /\ OnScreen(u) /\ u.x \in 0 .. Width - 1 /\ u.y \in 0 .. Height - 1
                /\ t = Advance(Store(u, c))
                /\ s.x < Width /\ s.y < Height => u = s
                /\ s.x >= Width /\ s.y < Height - 1 =>
                     u.x = 0 /\ u.y = s.y + 1 /\ u.cell = s.cell
                /\ s.x >= Width /\ s.y = Height - 1 =>
                     /\ u.x = 0 /\ u.y = s.y
                     /\ \A k \in Cell : k + Width \in Cell => u.cell[k] = s.cell[k + Width]
<1> DEFINE wrap_ == IF AtEdge(s) THEN Down(Return(s)) ELSE s
<1>1. PICK wrapped : wrapped = wrap_
  OBVIOUS
<1>2. PICK u : u = IF Below(wrapped) THEN Bottom(vga_scroll_up(wrapped)) ELSE wrapped
  OBVIOUS
<1>3. c \notin {"LF", "CR", "HT", "BS"}
  BY ScreenAssumption DEF Control
<1>4. t = Advance(Store(u, c))
  BY <1>1, <1>2, <1>3 DEF vga_putc
<1>5. s.x \in Nat /\ s.y \in Nat
  BY DEF OnScreen, ScreenOK
<1>6. ASSUME s.x >= Width
      PROVE  OnScreen(wrapped) /\ wrapped.x = 0 /\ wrapped.y = s.y + 1 /\ wrapped.cell = s.cell
  <2>1. PICK r : r = Return(s)
    OBVIOUS
  <2>2. OnScreen(r) /\ r.x = 0 /\ r.y = s.y /\ r.cell = s.cell
    BY <2>1, KeepsCells, MovesOK DEF OnScreen, ScreenOK, Return
  <2>3. wrapped = Down(r)
    BY <1>1, <1>6, <2>1 DEF AtEdge
  <2>4. QED BY <2>2, <2>3, KeepsCells DEF OnScreen, ScreenOK, Down
<1>7. ASSUME ~(s.x >= Width) PROVE wrapped = s
  BY <1>1, <1>7 DEF AtEdge
<1>8. OnScreen(wrapped) /\ wrapped.x \in 0 .. Width - 1 /\ wrapped.y \in Nat
  <2>1. CASE s.x >= Width
    BY <1>5, <1>6, <2>1, ScreenSize
  <2>2. CASE ~(s.x >= Width)
    BY <1>5, <1>7, <2>2, ScreenSize
  <2>3. QED BY <2>1, <2>2
<1>9. ASSUME wrapped.y >= Height
      PROVE  /\ OnScreen(u) /\ u.x = wrapped.x /\ u.y = Height - 1
             /\ \A k \in Cell : k + Width \in Cell => u.cell[k] = wrapped.cell[k + Width]
  <2>1. PICK scrolled : scrolled = vga_scroll_up(wrapped)
    OBVIOUS
  <2>2. /\ OnScreen(scrolled)
        /\ \A k \in Cell : k + Width \in Cell => scrolled.cell[k] = wrapped.cell[k + Width]
    BY <1>8, <2>1, RowsMoved
  <2>3. scrolled.x = wrapped.x
    BY <1>8, <2>1, ScrollOK DEF OnScreen
  <2>4. u = Bottom(scrolled)
    BY <1>2, <1>9, <2>1 DEF Below
  <2>5. OnScreen(u) /\ u.x = scrolled.x /\ u.y = Height - 1
    BY <2>2, <2>4, KeepsCells, MovesOK DEF OnScreen
  <2>6. u.cell = scrolled.cell
    BY <2>2, <2>4 DEF Bottom, OnScreen, ScreenOK
  <2>7. QED BY <2>2, <2>3, <2>5, <2>6
<1>10. ASSUME ~(wrapped.y >= Height) PROVE u = wrapped
  BY <1>2, <1>10 DEF Below
<1>11. OnScreen(u) /\ u.x \in 0 .. Width - 1 /\ u.y \in 0 .. Height - 1
  <2>1. CASE wrapped.y >= Height
    BY <1>8, <1>9, <2>1, ScreenSize
  <2>2. CASE ~(wrapped.y >= Height)
    BY <1>8, <1>10, <2>2, ScreenSize
  <2>3. QED BY <2>1, <2>2
<1>12. s.x < Width /\ s.y < Height => u = s
  BY <1>5, <1>7, <1>10, ScreenSize
<1>13. s.x >= Width /\ s.y < Height - 1 => u.x = 0 /\ u.y = s.y + 1 /\ u.cell = s.cell
  BY <1>5, <1>6, <1>10, ScreenSize
<1>14. ASSUME s.x >= Width, s.y = Height - 1
       PROVE  /\ u.x = 0 /\ u.y = s.y
              /\ \A k \in Cell : k + Width \in Cell => u.cell[k] = s.cell[k + Width]
  <2>1. wrapped.y >= Height /\ wrapped.x = 0 /\ wrapped.cell = s.cell
    BY <1>6, <1>14, ScreenSize
  <2>2. QED BY <1>9, <1>14, <2>1
<1>15. QED BY <1>4, <1>11, <1>12, <1>13, <1>14

\* After its first i glyphs a message stands in the cells from at on, and the cursor
\* behind it.
ShownFrom(s, at, i) ==
  /\ OnScreen(s) /\ s.x \in 1 .. Width /\ s.y \in 0 .. Height - 1
  /\ at \in Cell /\ at + i = s.y * Width + s.x
  /\ \A j \in 1 .. i : at + j - 1 \in Cell /\ s.cell[at + j - 1].char = Message[j]

\* A store puts the glyph into its cell and leaves the others alone.
LEMMA StoredAt ==
  ASSUME NEW u, OnScreen(u), u.x \in 0 .. Width - 1, u.y \in 0 .. Height - 1, NEW c,
         NEW t, t = Advance(Store(u, c))
  PROVE  /\ OnScreen(t) /\ t.x = u.x + 1 /\ t.y = u.y
         /\ u.y * Width + u.x \in Cell /\ t.cell[u.y * Width + u.x].char = c
         /\ \A k \in Cell : k # u.y * Width + u.x => t.cell[k] = u.cell[k]
<1>1. PICK at : at = u.y * Width + u.x
  OBVIOUS
<1>2. at \in Cell
  <2>1. u.y \in Nat /\ u.y < Height
    BY ScreenSize
  <2>2. QED BY <1>1, <2>1, RowOf
<1>3. PICK cells : cells = [u.cell EXCEPT ![at] = Shown(c, u.colour)]
  OBVIOUS
<1>4. PICK stored : stored = Store(u, c)
  OBVIOUS
<1>5. stored = [u EXCEPT !.cell = cells]
  BY <1>1, <1>2, <1>3, <1>4 DEF Store
<1>6. stored.cell = cells /\ stored.x = u.x /\ stored.y = u.y /\ OnScreen(stored)
  BY <1>3, <1>4, <1>5, KeepsCells DEF OnScreen, ScreenOK
<1>7. OnScreen(t) /\ t.x = u.x + 1 /\ t.y = u.y /\ t.cell = cells
  BY <1>4, <1>6, KeepsCells DEF Advance, OnScreen, ScreenOK
<1>8. cells[at].char = c /\ \A k \in Cell : k # at => cells[k] = u.cell[k]
  BY <1>2, <1>3 DEF OnScreen, Shown
<1>9. QED BY <1>1, <1>2, <1>7, <1>8

\* The message of interrupt.c: one line, ended by a newline, that fits on the screen
\* wherever it begins (interrupt.c:96-114).
MessageOnALine ==
  \E n \in Nat \ {0} :
    /\ Len(Message) = n + 1 /\ Message[n + 1] = "LF"
    /\ \A j \in 1 .. n : Message[j] \in Glyph
    /\ n - 1 <= Width * (Height - 1)

LEMMA NextGlyph ==
  ASSUME NEW n \in Nat \ {0}, n - 1 <= Width * (Height - 1),
         NEW i \in 1 .. n - 1, NEW s, NEW at, ShownFrom(s, at, i),
         Message[i + 1] \in Glyph, NEW t, t = vga_putc(s, Message[i + 1])
  PROVE  \E k : ShownFrom(t, k, i + 1)
<1> PICK w \in Nat \ {0} : w = Width
  BY ScreenSize
<1> PICK h \in Nat : h = Height /\ h >= 2
  BY ScreenSize
<1> PICK x \in 1 .. w : x = s.x
  BY DEF ShownFrom
<1> PICK y \in 0 .. h - 1 : y = s.y
  BY DEF ShownFrom
<1> PICK c : c = Message[i + 1]
  OBVIOUS
<1>1. /\ OnScreen(s) /\ at \in Cell /\ at + i = y * w + x
      /\ \A j \in 1 .. i : at + j - 1 \in Cell /\ s.cell[at + j - 1].char = Message[j]
  BY DEF ShownFrom
<1>2. PICK u : /\ OnScreen(u) /\ u.x \in 0 .. w - 1 /\ u.y \in 0 .. h - 1
               /\ t = Advance(Store(u, c))
               /\ x < w /\ y < h => u = s
               /\ x >= w /\ y < h - 1 => u.x = 0 /\ u.y = y + 1 /\ u.cell = s.cell
               /\ x >= w /\ y = h - 1 =>
                    /\ u.x = 0 /\ u.y = y
                    /\ \A k \in Cell : k + w \in Cell => u.cell[k] = s.cell[k + w]
  BY <1>1, GlyphPut
<1> PICK p : p = u.y * w + u.x
  OBVIOUS
<1>3. /\ OnScreen(t) /\ t.x = u.x + 1 /\ t.y = u.y /\ p \in Cell /\ t.cell[p].char = c
      /\ \A k \in Cell : k # p => t.cell[k] = u.cell[k]
  BY <1>2, StoredAt
<1>4. t.x \in 1 .. w /\ t.y \in 0 .. h - 1
  BY <1>2, <1>3
<1>5. p \in Nat /\ \A k \in Cell : k \in Int
  BY <1>3 DEF Cell
\* It is enough that the message has not moved, or moved up by a row.
<1>6. ASSUME NEW k \in Cell, k + i = p,
             \A j \in 1 .. i : k + j - 1 \in Cell /\ u.cell[k + j - 1].char = Message[j]
      PROVE  ShownFrom(t, k, i + 1)
  <2>1. k + (i + 1) = t.y * w + t.x
    <3>1. PICK a \in 0 .. w - 1 : a = u.x
      BY <1>2
    <3>2. PICK b \in Nat : b = u.y
      BY <1>2
    <3>3. k \in Int /\ b * w \in Int
      BY <1>5
    <3>4. k + (i + 1) = b * w + (a + 1)
      BY <1>6, <3>1, <3>2, <3>3
    <3>5. QED BY <1>3, <3>1, <3>2, <3>4
  <2>2. ASSUME NEW j \in 1 .. i + 1
        PROVE  k + j - 1 \in Cell /\ t.cell[k + j - 1].char = Message[j]
    <3>1. CASE j = i + 1
      <4>1. k + j - 1 = p
        BY <1>5, <1>6, <3>1
      <4>2. QED BY <1>3, <3>1, <4>1
    <3>2. CASE j # i + 1
      <4>1. j \in 1 .. i /\ k + j - 1 # p
        BY <1>5, <1>6, <3>2
      <4>2. QED BY <1>3, <1>6, <4>1
    <3>3. QED BY <3>1, <3>2
  <2>3. QED BY <1>3, <1>4, <1>6, <2>1, <2>2 DEF ShownFrom
<1>7. CASE x < w
  <2>1. u = s
    BY <1>2, <1>7
  <2>2. at + i = p
    BY <1>1, <2>1
  <2>3. QED BY <1>1, <1>6, <2>1, <2>2
<1>8. CASE x >= w /\ y < h - 1
  <2>1. u.x = 0 /\ u.y = y + 1 /\ u.cell = s.cell
    BY <1>2, <1>8
  <2>2. at + i = p
    <3>1. p = (y + 1) * w /\ at + i = y * w + w
      BY <1>1, <1>8, <2>1
    <3>2. QED BY <3>1
  <2>3. QED BY <1>1, <1>6, <2>1, <2>2
<1>9. CASE x >= w /\ y = h - 1
  <2>1. u.x = 0 /\ u.y = y /\ \A k \in Cell : k + w \in Cell => u.cell[k] = s.cell[k + w]
    BY <1>2, <1>9
  <2>2. p = y * w /\ at + i = p + w /\ p = (h - 1) * w
    BY <1>1, <1>9, <2>1
  <2>3. at \in Nat /\ at >= w
    <3>1. i <= (h - 1) * w
      <4>1. PICK m \in Nat : m = (h - 1) * w
        OBVIOUS
      <4>2. w * (h - 1) = m
        BY <4>1
      <4>3. QED BY <4>1, <4>2
    <3>2. QED BY <1>1, <1>5, <2>2, <3>1
  <2>4. \A k \in Nat : k + w \in Cell => k \in Cell
    BY DEF Cell
  <2>5. at - w \in Cell /\ (at - w) + i = p
    BY <1>1, <2>2, <2>3, <2>4
  <2>6. ASSUME NEW j \in 1 .. i
        PROVE  (at - w) + j - 1 \in Cell /\ u.cell[(at - w) + j - 1].char = Message[j]
    <3>1. PICK k \in Nat : k = (at - w) + j - 1
      BY <2>3
    <3>2. k + w = at + j - 1
      BY <2>3, <3>1
    <3>3. k + w \in Cell /\ s.cell[k + w].char = Message[j]
      BY <1>1, <3>2
    <3>4. QED BY <2>1, <2>4, <3>1, <3>3
  <2>7. QED BY <1>6, <2>5, <2>6
<1>10. QED BY <1>7, <1>8, <1>9

\* Wherever the cursor stood, the message ends up in one piece with the cursor at the
\* start of the line below.
LEMMA MessageShown ==
  ASSUME MessageOnALine, NEW s, OnScreen(s), NEW t, t = vga_puts(s, Message)
  PROVE  /\ OnScreen(t)
         /\ \E at \in Cell :
              /\ \A i \in 1 .. Len(Message) - 1 :
                   at + i - 1 \in Cell /\ t.cell[at + i - 1].char = Message[i]
              /\ t.x = 0 /\ t.y = (at + Len(Message) - 2) \div Width + 1
<1> PICK w \in Nat \ {0} : w = Width
  BY ScreenSize
<1>1. PICK n \in Nat \ {0} :
        /\ Len(Message) = n + 1 /\ Message[n + 1] = "LF"
        /\ \A j \in 1 .. n : Message[j] \in Glyph
        /\ n - 1 <= Width * (Height - 1)
  BY DEF MessageOnALine
<1>2. DOMAIN Message = 1 .. n + 1 /\ n + 1 \in Nat
  BY <1>1, ConsoleAssumption
<1>3. PICK v : /\ Put!FoldSteps(v, s, Message, n + 1)
               /\ Put!FoldLeft(vga_putc, s, Message) = v[n + 1]
  BY <1>2, Put!FoldTrace
<1>4. t = v[n + 1]
  <2>1. Put!FoldLeft(vga_putc, s, Message) = FoldLeft(vga_putc, s, Message)
    BY DEF FoldLeft, MapThenFoldSet, Max, Put!FoldLeft, Put!MapThenFoldSet, Put!Max
  <2>2. QED BY <1>3, <2>1 DEF vga_puts
<1>5. v[0] = s /\ \A i \in 1 .. n + 1 : v[i] = vga_putc(v[i - 1], Message[i])
  BY <1>3 DEF Put!FoldSteps
<1> DEFINE I == {i \in 0 .. n : i # 0 => \E at : ShownFrom(v[i], at, i)}
<1>6. 0 \in I
  OBVIOUS
<1>7. ASSUME NEW i \in 1 .. n, i - 1 \in I PROVE i \in I
  <2>1. v[i] = vga_putc(v[i - 1], Message[i]) /\ Message[i] \in Glyph /\ i \in 0 .. n
    BY <1>1, <1>5
  <2>2. CASE i = 1
    <3>1. v[1] = vga_putc(s, Message[1])
      BY <1>5, <2>1, <2>2
    <3>2. PICK u : /\ OnScreen(u) /\ u.x \in 0 .. w - 1 /\ u.y \in 0 .. Height - 1
                   /\ v[1] = Advance(Store(u, Message[1]))
      BY <2>1, <2>2, <3>1, GlyphPut
    <3>3. PICK p : p = u.y * w + u.x
      OBVIOUS
    <3>4. /\ OnScreen(v[1]) /\ v[1].x = u.x + 1 /\ v[1].y = u.y
          /\ p \in Cell /\ v[1].cell[p].char = Message[1]
      BY <3>2, <3>3, StoredAt
    <3>5. v[1].x \in 1 .. w /\ p \in Nat
      BY <3>2, <3>4 DEF Cell
    <3>6. p + 1 = v[1].y * w + v[1].x
      <4>1. PICK a \in 0 .. w - 1 : a = u.x
        BY <3>2
      <4>2. PICK b \in Nat : b = u.y
        BY <3>2, ScreenSize
      <4>3. b * w \in Int /\ p = b * w + a
        BY <3>3, <4>1, <4>2
      <4>4. p + 1 = b * w + (a + 1)
        BY <4>3
      <4>5. QED BY <3>4, <4>1, <4>2, <4>4
    <3>7. \A j \in 1 .. 1 : p + j - 1 = p /\ j = 1
      BY <3>5
    <3>8. ShownFrom(v[1], p, 1)
      BY <3>2, <3>4, <3>5, <3>6, <3>7 DEF ShownFrom
    <3>9. QED BY <2>1, <2>2, <3>8
  <2>3. CASE i # 1
    <3>1. i - 1 \in 1 .. n - 1 /\ (i - 1) + 1 = i
      BY <2>3
    <3>2. PICK at : ShownFrom(v[i - 1], at, i - 1)
      BY <1>7, <3>1
    <3>3. \E k : ShownFrom(v[i], k, i)
      <4>1. PICK j : j = i - 1
        OBVIOUS
      <4>2. /\ j \in 1 .. n - 1 /\ ShownFrom(v[j], at, j) /\ j + 1 = i
            /\ Message[j + 1] \in Glyph /\ v[i] = vga_putc(v[j], Message[j + 1])
        BY <2>1, <3>1, <3>2, <4>1
      <4>3. \E k : ShownFrom(v[i], k, j + 1)
        BY <1>1, <4>2, NextGlyph
      <4>4. QED BY <4>2, <4>3
    <3>4. QED BY <2>1, <3>3
  <2>4. QED BY <2>2, <2>3
<1> HIDE DEF I
<1>8. n \in 0 .. n /\ n \in I
  BY <1>6, <1>7, Copied!LoopInduction
<1>9. PICK at : ShownFrom(v[n], at, n)
  BY <1>8 DEF I
<1>10. PICK r : r = Return(v[n])
  OBVIOUS
<1>11. t = Down(r)
  <2>1. n + 1 \in 1 .. n + 1 /\ (n + 1) - 1 = n
    OBVIOUS
  <2>2. t = vga_putc(v[n], "LF")
    BY <1>1, <1>4, <1>5, <2>1
  <2>3. "LF" \notin Glyph
    BY ScreenAssumption DEF Control
  <2>4. QED BY <1>10, <2>2, <2>3 DEF vga_putc
<1>12. OnScreen(v[n])
  BY <1>9 DEF ShownFrom
<1>13. OnScreen(r) /\ r.x = 0 /\ r.y = v[n].y /\ r.cell = v[n].cell
  BY <1>10, <1>12, KeepsCells, MovesOK DEF OnScreen, ScreenOK, Return
<1>14. OnScreen(t) /\ t.x = 0 /\ t.y = v[n].y + 1 /\ t.cell = v[n].cell
  BY <1>11, <1>13, KeepsCells DEF OnScreen, ScreenOK, Down
<1>15. t.y = (at + Len(Message) - 2) \div w + 1
  <2>1. PICK x \in 1 .. w : x = v[n].x
    BY <1>9 DEF ShownFrom
  <2>2. PICK y \in Nat : y = v[n].y
    BY <1>9, ScreenSize DEF ShownFrom
  <2>3. at \in Int /\ y * w \in Int
    BY <1>9 DEF ShownFrom, Cell
  <2>4. at + n = y * w + x
    BY <1>9, <2>1, <2>2 DEF ShownFrom
  <2>5. at + Len(Message) - 2 = y * w + (x - 1)
    BY <1>1, <2>3, <2>4
  <2>6. (y * w + (x - 1)) \div w = y
    <3>1. x - 1 \in 0 .. w - 1
      OBVIOUS
    <3>2. QED BY <3>1, RowOf
  <2>7. QED BY <1>14, <2>2, <2>5, <2>6
<1>16. at \in Cell /\ \A i \in 1 .. Len(Message) - 1 :
                        at + i - 1 \in Cell /\ t.cell[at + i - 1].char = Message[i]
  <2>1. Len(Message) - 1 = n
    BY <1>1
  <2>2. QED BY <1>9, <1>14, <2>1 DEF ShownFrom
<1>17. QED BY <1>14, <1>15, <1>16

\* The screen keeps its cells, and once a handler has printed, its message.
ShownInv == OnScreen(screen) /\ FaultShown

LEMMA InitShows == Init => ShownInv
<1> SUFFICES ASSUME Init PROVE ShownInv
  OBVIOUS
<1>1. PICK cells : /\ cells = {[i \in Cell |-> Shown(glyph, White)] : glyph \in Glyph}
                   /\ screen \in [cell : cells, x : {0}, y : {0}, colour : {White},
                                  spilled : {FALSE}]
  BY DEF Init
<1>2. screen.cell \in cells
  BY <1>1
<1>3. DOMAIN screen.cell = Cell
  BY <1>1, <1>2
<1>4. ScreenOK(screen)
  BY InitKeeps DEF ConsoleInv, ScreenInv
<1>5. pc # "fault"
  BY DEF Init
<1>6. QED BY <1>3, <1>4, <1>5 DEF ShownInv, OnScreen, FaultShown

LEMMA StepShows ==
  ASSUME MessageOnALine, ConsoleInv, ConsoleInv', ShownInv, [Next]_vars
  PROVE  ShownInv'
<1>1. OnScreen(screen) /\ ScreenOK(screen')
  BY DEF ConsoleInv, ScreenInv, ShownInv
<1>2. ASSUME DOMAIN screen'.cell = Cell, pc' # "fault" PROVE ShownInv'
  BY <1>1, <1>2 DEF ShownInv, OnScreen, FaultShown
<1>3. ASSUME UNCHANGED <<screen, hw, pc>> PROVE ShownInv'
  BY <1>3 DEF ShownInv, OnScreen, ScreenOK, FaultShown
<1>4. CASE UNCHANGED vars \/ drain
  BY <1>3, <1>4 DEF vars, drain
<1>5. CASE fault
  <2>1. /\ screen' = vga_puts(screen, Message) /\ hw' = HwPosition(screen')
    BY <1>5 DEF fault
  <2>2. QED BY <1>1, <2>1, MessageShown DEF ShownInv, FaultShown
\* Every other step is one of vga.c's and no exception has struck before it.
<1>6. CASE main
  <2>1. CASE vga_init
    <3>1. PICK blank : blank = Blanked(screen)
      OBVIOUS
    <3>2. PICK top : top = Home(blank)
      OBVIOUS
    <3>3. OnScreen(top)
      BY <1>1, <3>1, <3>2, KeepsCells
    <3>4. screen' = [top EXCEPT !.colour = White] /\ pc' # "fault"
      BY <2>1, <3>1, <3>2 DEF vga_init
    <3>5. [top EXCEPT !.colour = White].cell = top.cell
      BY <3>3 DEF OnScreen, ScreenOK
    <3>6. QED BY <1>2, <3>3, <3>4, <3>5 DEF OnScreen
  <2>2. CASE serial_init \/ serial_putc
    BY <1>1, <1>2, <2>2 DEF serial_init, serial_putc, OnScreen
  <2>3. CASE vga_set_hw_cursor
    <3>1. screen' = screen /\ pc' # "fault"
      BY <2>3 DEF vga_set_hw_cursor, ConsoleInv, CallInv
    <3>2. QED BY <1>1, <1>2, <3>1 DEF OnScreen
  <2>4. CASE scroll
    BY <1>1, <1>2, <2>4, KeepsCells DEF scroll, OnScreen
  <2>5. CASE scroll_last
    BY <1>1, <1>2, <2>5, KeepsCells DEF scroll_last, OnScreen
  <2>6. CASE switch \/ down \/ wrap \/ fit \/ pull \/ bottom \/ store \/ advance \/ home
    <3>1. \E s : /\ OnScreen(s) /\ screen' = s
                 /\ pc' \in {"hw", "down", "wrap", "fit", "scroll", "store", "bottom",
                            "idle", "advance"}
      <4>1. CASE switch
        BY <1>1, <4>1, KeepsCells DEF switch, Step
      <4>2. CASE down \/ wrap \/ fit
        BY <1>1, <4>2, KeepsCells DEF down, wrap, fit, Step
      <4>3. CASE pull \/ bottom
        BY <1>1, <4>3, KeepsCells DEF pull, bottom, Step
      <4>4. CASE store \/ advance \/ home
        BY <1>1, <4>4, KeepsCells DEF store, advance, home, Step
      <4>5. QED BY <2>6, <4>1, <4>2, <4>3, <4>4
    <3>2. QED BY <1>2, <3>1 DEF OnScreen
  <2>7. QED BY <1>6, <2>1, <2>2, <2>3, <2>4, <2>5, <2>6 DEF main
<1>7. CASE \/ \E printed \in Texts : vga_puts_call(printed)
           \/ \E printed \in Panics : panic(printed)
           \/ vga_scroll_up_call
  BY <1>1, <1>2, <1>7 DEF vga_puts_call, panic, vga_scroll_up_call, OnScreen
<1>8. CASE vga_clear
  BY <1>1, <1>2, <1>8, KeepsCells DEF vga_clear, OnScreen
<1>9. ASSUME NEW position \in Positions, vga_set_cursor(position) PROVE ShownInv'
  <2>1. screen'.cell = screen.cell
    BY <1>1, <1>9 DEF vga_set_cursor, OnScreen, ScreenOK
  <2>2. QED BY <1>1, <1>2, <1>9, <2>1 DEF vga_set_cursor, OnScreen
<1>10. ASSUME NEW colour \in Colour, vga_set_color(colour) PROVE ShownInv'
  <2>1. screen'.cell = screen.cell
    BY <1>1, <1>10 DEF vga_set_color, OnScreen, ScreenOK
  <2>2. QED BY <1>1, <1>2, <1>10, <2>1 DEF vga_set_color, OnScreen
<1>11. QED BY <1>4, <1>5, <1>6, <1>7, <1>8, <1>9, <1>10 DEF Next

\* Wherever an exception strikes, in the middle of a wrap or a scroll or with the cursor
\* below the screen, its line ends up on the screen in one piece (interrupt.c:96-116).
THEOREM FaultsShow == MessageOnALine /\ Spec => []FaultShown
<1> SUFFICES ASSUME MessageOnALine PROVE Spec => []FaultShown
  OBVIOUS
<1>1. Init => ShownInv
  BY InitShows
<1>2. ConsoleInv /\ ConsoleInv' /\ ShownInv /\ [Next]_vars => ShownInv'
  BY StepShows
<1>3. ShownInv => FaultShown
  BY DEF ShownInv
<1>4. QED BY <1>1, <1>2, <1>3, ConsoleInvariance, PTL DEF Spec

-----------------------------------------------------------------------------
(* What the screen shows of a text.                                        *)

\* Dropping what follows a line in a row of the screen.
LEMMA RowSteps ==
  ASSUME NEW T, NEW n \in Nat, NEW ell \in Seq(T), Len(ell) <= n, NEW blank, blank \notin T,
         NEW cells, \A i \in 1 .. n : cells[i] = IF i <= Len(ell) THEN ell[i] ELSE blank,
         NEW v, v[0] = SubSeq(ell, 1, 0),
         \A i \in 1 .. n : v[i] = IF cells[i] = blank THEN v[i - 1] ELSE Append(v[i - 1], cells[i])
  PROVE  v[n] = ell
<1> PICK m \in 0 .. n : m = Len(ell)
  OBVIOUS
<1> DEFINE I == {i \in 0 .. n : v[i] = SubSeq(ell, 1, IF i <= m THEN i ELSE m)}
<1>1. \A i \in 1 .. m : ell[i] # blank
  OBVIOUS
<1>2. 0 \in I
  OBVIOUS
<1>3. ASSUME NEW i \in 1 .. n, i - 1 \in I PROVE i \in I
  <2>1. CASE i <= m
    <3>1. v[i - 1] = SubSeq(ell, 1, i - 1)
      BY <1>3, <2>1
    <3>2. v[i] = Append(SubSeq(ell, 1, i - 1), ell[i])
      <4>1. i \in 1 .. m
        BY <2>1
      <4>2. cells[i] = ell[i] /\ cells[i] # blank
        BY <1>1, <2>1, <4>1
      <4>3. v[i] = Append(v[i - 1], cells[i])
        BY <4>2
      <4>4. QED BY <3>1, <4>2, <4>3
    <3>3. v[i] = SubSeq(ell, 1, i)
      BY <2>1, <3>2
    <3>4. QED BY <2>1, <3>3
  <2>2. CASE ~(i <= m)
    <3>1. v[i - 1] = SubSeq(ell, 1, m)
      <4>1. (IF i - 1 <= m THEN i - 1 ELSE m) = m
        BY <2>2
      <4>2. QED BY <1>3, <4>1
    <3>2. v[i] = SubSeq(ell, 1, m)
      BY <2>2, <3>1
    <3>3. QED BY <2>2, <3>2
  <2>3. QED BY <2>1, <2>2
<1> HIDE DEF I
<1>4. n \in I
  <2>1. n \in 0 .. n
    OBVIOUS
  <2>2. QED BY <1>2, <1>3, <2>1, Copied!LoopInduction
<1>5. v[n] = SubSeq(ell, 1, m)
  <2>1. (IF n <= m THEN n ELSE m) = m
    OBVIOUS
  <2>2. QED BY <1>4, <2>1 DEF I
<1>6. QED BY <1>5, Copied!PrefixSteps

\* The row of a line of glyphs followed by blanks is that line.
LEMMA VisibleRow ==
  ASSUME NEW n \in Nat, NEW ell \in Seq(Glyph), Len(ell) <= n, NEW cells, DOMAIN cells = 1 .. n,
         NEW blank, blank \notin Glyph,
         \A kept, c : Visible(kept, c) = IF c = blank THEN kept ELSE Append(kept, c),
         \A i \in 1 .. n : cells[i] = IF i <= Len(ell) THEN ell[i] ELSE blank
  PROVE  FoldLeft(Visible, <<>>, cells) = ell
<1>1. PICK v : /\ Seen!FoldSteps(v, <<>>, cells, n)
               /\ Seen!FoldLeft(Visible, <<>>, cells) = v[n]
  BY Seen!FoldTrace
<1>2. FoldLeft(Visible, <<>>, cells) = v[n]
  <2>1. Seen!FoldLeft(Visible, <<>>, cells) = FoldLeft(Visible, <<>>, cells)
    BY DEF FoldLeft, MapThenFoldSet, Max, Seen!FoldLeft, Seen!MapThenFoldSet, Seen!Max
  <2>2. QED BY <1>1, <2>1
<1>3. v[0] = <<>> /\ \A i \in 1 .. n : v[i] = Visible(v[i - 1], cells[i])
  BY <1>1, Zenon DEF Seen!FoldSteps
<1>4. \A i \in 1 .. n : v[i] = IF cells[i] = blank THEN v[i - 1] ELSE Append(v[i - 1], cells[i])
  BY <1>3, Zenon
<1>5. v[0] = SubSeq(ell, 1, 0)
  BY <1>3, Copied!PrefixSteps, Zenon
<1>6. v[n] = ell
  BY <1>4, <1>5, RowSteps
<1>7. QED BY <1>2, <1>6, Zenon

\* A line more counts unless it is blank.
LEMMA NotBlankAppend ==
  ASSUME NEW T, NEW q \in Seq(T), NEW ell \in T
  PROVE  /\ ell = <<>> => NotBlank(Append(q, ell)) = NotBlank(q)
         /\ ell # <<>> => NotBlank(Append(q, ell)) = Append(NotBlank(q), ell)
         /\ NotBlank(<<>>) = <<>>
<1>1. /\ Kept!FoldLeft(Filled, <<>>, Append(q, ell)) = Filled(Kept!FoldLeft(Filled, <<>>, q), ell)
      /\ Kept!FoldLeft(Filled, <<>>, <<>>) = <<>>
  BY Kept!FoldAppend
<1>2. \A s : Kept!FoldLeft(Filled, <<>>, s) = FoldLeft(Filled, <<>>, s)
  BY DEF FoldLeft, MapThenFoldSet, Max, Kept!FoldLeft, Kept!MapThenFoldSet, Kept!Max
<1>3. \A s : Kept!FoldLeft(Filled, <<>>, s) = NotBlank(s)
  BY <1>2 DEF NotBlank
<1>4. NotBlank(Append(q, ell)) = Filled(NotBlank(q), ell) /\ NotBlank(<<>>) = <<>>
  BY <1>1, <1>3
<1>5. QED BY <1>4, Zenon DEF Filled

LEMMA NotBlankType ==
  ASSUME NEW T, NEW q \in Seq(T)
  PROVE  NotBlank(q) \in Seq(T)
<1> DEFINE J == {s \in Seq(T) : NotBlank(s) \in Seq(T)}
<1>1. <<>> \in J
  <2>1. <<>> \in Seq(T)
    OBVIOUS
  <2>2. CASE T = {}
    <3>1. NotBlank(<<>>) = <<>>
      <4>1. <<>> \in Seq({0}) /\ 0 \in {0}
        OBVIOUS
      <4>2. QED BY <4>1, NotBlankAppend, Zenon
    <3>2. QED BY <2>1, <3>1
  <2>3. CASE T # {}
    <3>1. PICK x : x \in T
      BY <2>3
    <3>2. NotBlank(<<>>) = <<>>
      BY <2>1, <3>1, NotBlankAppend, Zenon
    <3>3. QED BY <2>1, <3>2
  <2>4. QED BY <2>2, <2>3
<1>2. ASSUME NEW i \in 1 .. Len(q), SubSeq(q, 1, i - 1) \in J
      PROVE  Append(SubSeq(q, 1, i - 1), q[i]) \in J
  <2>1. PICK s \in Seq(T) : s = SubSeq(q, 1, i - 1) /\ NotBlank(s) \in Seq(T)
    BY <1>2
  <2>2. PICK x \in T : x = q[i]
    OBVIOUS
  <2>3. Append(s, x) \in Seq(T) /\ Append(NotBlank(s), x) \in Seq(T)
    BY <2>1
  <2>4. NotBlank(Append(s, x)) = NotBlank(s) \/ NotBlank(Append(s, x)) = Append(NotBlank(s), x)
    BY NotBlankAppend, Zenon
  <2>5. NotBlank(Append(s, x)) \in Seq(T)
    BY <2>1, <2>3, <2>4, Zenon
  <2>6. Append(s, x) \in J
    BY <2>3, <2>5
  <2>7. QED BY <2>1, <2>2, <2>6
<1> HIDE DEF J
<1>3. q \in J
  BY <1>1, <1>2, Copied!PrefixInduction
<1>4. QED BY <1>3 DEF J

LEMMA JoinAppend ==
  ASSUME NEW T, NEW a \in Seq(T), NEW b \in Seq(T), NEW x \in T
  PROVE  a \o b \in Seq(T) /\ Append(a \o b, x) = a \o Append(b, x)
OBVIOUS

LEMMA NotBlankJoin ==
  ASSUME NEW T, NEW a \in Seq(T), NEW b \in Seq(T)
  PROVE  NotBlank(a \o b) = NotBlank(a) \o NotBlank(b)
<1> DEFINE J == {s \in Seq(T) : NotBlank(a \o s) = NotBlank(a) \o NotBlank(s)}
<1> HIDE DEF J
<1>1. <<>> \in J
  <2>1. <<>> \in Seq(T) /\ <<>> \in Seq({0}) /\ 0 \in {0} /\ a \o <<>> = a
    OBVIOUS
  <2>2. NotBlank(<<>>) = <<>>
    BY <2>1, NotBlankAppend, Zenon
  <2>3. NotBlank(a) \in Seq(T)
    BY NotBlankType
  <2>4. NotBlank(a) \o <<>> = NotBlank(a)
    BY <2>3
  <2>5. NotBlank(a \o <<>>) = NotBlank(a) \o NotBlank(<<>>)
    BY <2>1, <2>2, <2>4, Zenon
  <2>6. QED BY <2>1, <2>5, Zenon DEF J
<1>2. ASSUME NEW s \in J, NEW x \in T PROVE Append(s, x) \in J
  <2>1. s \in Seq(T) /\ NotBlank(a \o s) = NotBlank(a) \o NotBlank(s)
    BY Zenon DEF J
  <2>2. a \o s \in Seq(T) /\ a \o Append(s, x) = Append(a \o s, x) /\ Append(s, x) \in Seq(T)
    BY <2>1, JoinAppend
  <2>3. NotBlank(a) \in Seq(T) /\ NotBlank(s) \in Seq(T)
    BY <2>1, NotBlankType
  <2>4. CASE x = <<>>
    <3>1. NotBlank(Append(a \o s, x)) = NotBlank(a \o s) /\ NotBlank(Append(s, x)) = NotBlank(s)
      BY <2>1, <2>2, <2>4, NotBlankAppend, Zenon
    <3>2. NotBlank(a \o Append(s, x)) = NotBlank(a) \o NotBlank(Append(s, x))
      BY <2>1, <2>2, <3>1, Zenon
    <3>3. QED BY <2>2, <3>2, Zenon DEF J
  <2>5. CASE x # <<>>
    <3>1. /\ NotBlank(Append(a \o s, x)) = Append(NotBlank(a \o s), x)
          /\ NotBlank(Append(s, x)) = Append(NotBlank(s), x)
      BY <2>1, <2>2, <2>5, NotBlankAppend, Zenon
    <3>2. Append(NotBlank(a) \o NotBlank(s), x) = NotBlank(a) \o Append(NotBlank(s), x)
      <4>1. PICK p \in Seq(T) : p = NotBlank(a)
        BY <2>3, Zenon
      <4>2. PICK r \in Seq(T) : r = NotBlank(s)
        BY <2>3, Zenon
      <4>3. Append(p \o r, x) = p \o Append(r, x)
        BY JoinAppend
      <4>4. QED BY <4>1, <4>2, <4>3, Zenon
    <3>3. NotBlank(a \o Append(s, x)) = NotBlank(a) \o NotBlank(Append(s, x))
      BY <2>1, <2>2, <3>1, <3>2, Zenon
    <3>4. QED BY <2>2, <3>3, Zenon DEF J
  <2>6. QED BY <2>4, <2>5
<1>3. ASSUME NEW i \in 1 .. Len(b), SubSeq(b, 1, i - 1) \in J
      PROVE  Append(SubSeq(b, 1, i - 1), b[i]) \in J
  <2>1. b[i] \in T
    OBVIOUS
  <2>2. QED BY <1>2, <1>3, <2>1, Zenon
<1>4. b \in J
  BY <1>1, <1>3, Copied!PrefixInduction
<1>5. QED BY <1>4, Zenon DEF J

LEMMA AllBlank ==
  ASSUME NEW T, NEW q \in Seq(T), \A i \in 1 .. Len(q) : q[i] = <<>>
  PROVE  NotBlank(q) = <<>>
<1> DEFINE J == {s \in Seq(T) : NotBlank(s) = <<>>}
<1> HIDE DEF J
<1>1. <<>> \in J
  <2>1. <<>> \in Seq(T) /\ <<>> \in Seq({0}) /\ 0 \in {0}
    OBVIOUS
  <2>2. NotBlank(<<>>) = <<>>
    BY <2>1, NotBlankAppend, Zenon
  <2>3. QED BY <2>1, <2>2, Zenon DEF J
<1>2. ASSUME NEW i \in 1 .. Len(q), SubSeq(q, 1, i - 1) \in J
      PROVE  Append(SubSeq(q, 1, i - 1), q[i]) \in J
  <2>1. PICK s : s = SubSeq(q, 1, i - 1)
    OBVIOUS
  <2>2. PICK x \in T : x = q[i]
    OBVIOUS
  <2>3. x = <<>>
    BY <2>2
  <2>4. s \in Seq(T) /\ NotBlank(s) = <<>>
    BY <1>2, <2>1, Zenon DEF J
  <2>5. Append(s, x) \in Seq(T)
    BY <2>4
  <2>6. NotBlank(Append(s, x)) = NotBlank(s)
    BY <2>3, <2>4, NotBlankAppend, Zenon
  <2>7. QED BY <2>1, <2>2, <2>4, <2>5, <2>6, Zenon DEF J
<1>3. q \in J
  BY <1>1, <1>2, Copied!PrefixInduction
<1>4. QED BY <1>3, Zenon DEF J

\* A stretch of blank lines counts for nothing.
LEMMA BlankGap ==
  ASSUME NEW T, NEW q \in Seq(T), NEW k \in 0 .. Len(q), NEW a \in k .. Len(q),
         NEW c \in a .. Len(q), \A j \in a + 1 .. c : q[j] = <<>>
  PROVE  NotBlank(SubSeq(q, k + 1, c)) = NotBlank(SubSeq(q, k + 1, a))
<1>1. PICK head : head = SubSeq(q, k + 1, a)
  OBVIOUS
<1>2. PICK gap : gap = SubSeq(q, a + 1, c)
  OBVIOUS
<1>3. head \in Seq(T) /\ gap \in Seq(T) /\ SubSeq(q, k + 1, c) = head \o gap
  BY <1>1, <1>2
<1>4. \A i \in 1 .. Len(gap) : gap[i] = <<>>
  <2>1. Len(gap) = c - a /\ \A i \in 1 .. c - a : gap[i] = q[a + i] /\ a + i \in a + 1 .. c
    BY <1>2
  <2>2. ASSUME NEW i \in 1 .. Len(gap) PROVE gap[i] = <<>>
    <3>1. gap[i] = q[a + i] /\ a + i \in a + 1 .. c
      BY <2>1
    <3>2. QED BY <3>1, Zenon
  <2>3. QED BY <2>2, Zenon
<1>5. NotBlank(gap) = <<>>
  BY <1>3, <1>4, AllBlank, Zenon
<1>6. NotBlank(head \o gap) = NotBlank(head) \o NotBlank(gap)
  BY <1>3, NotBlankJoin, Zenon
<1>7. NotBlank(head) \o <<>> = NotBlank(head)
  <2>1. NotBlank(head) \in Seq(T)
    BY <1>3, NotBlankType, Zenon
  <2>2. QED BY <2>1
<1>8. QED BY <1>1, <1>3, <1>5, <1>6, <1>7, Zenon

NoChars == <<>>

\* The first n of shown are lines after the k-th, in their order: f tells which, and
\* only blank lines are missing.
Thins(lines, shown, n, k, f) ==
  /\ f \in [1 .. n -> k + 1 .. Len(lines)]
  /\ \A i \in 1 .. n : \A j \in 1 .. n : i < j => f[i] < f[j]
  /\ \A i \in 1 .. n : shown[i] = lines[f[i]]
  /\ \A j \in k + 1 .. Len(lines) : lines[j] # NoChars => \E i \in 1 .. n : f[i] = j

LEMMA ThinsSame ==
  ASSUME NEW T, NEW lines \in Seq(T), NEW shown \in Seq(T), NEW k \in 0 .. Len(lines), NEW f,
         Thins(lines, shown, Len(shown), k, f)
  PROVE  NotBlank(shown) = NotBlank(SubSeq(lines, k + 1, Len(lines)))
<1> PICK n \in Nat : n = Len(shown)
  OBVIOUS
<1> PICK last \in Nat : last = Len(lines)
  OBVIOUS
<1> DEFINE g == [i \in 0 .. n |-> IF i = 0 THEN k ELSE f[i]]
           Told_(i) == NotBlank(SubSeq(shown, 1, i)) = NotBlank(SubSeq(lines, k + 1, g[i]))
           I == {i \in 0 .. n : Told_(i)}
<1>1. /\ \A i \in 0 .. n : g[i] \in k .. last
      /\ \A i \in 1 .. n : g[i] = f[i] /\ g[i - 1] < g[i] /\ f[i] \in k + 1 .. last
      /\ g[0] = k
  <2>1. \A i \in 1 .. n : f[i] \in k + 1 .. last
    BY DEF Thins
  <2>2. g[0] = k /\ \A i \in 1 .. n : g[i] = f[i]
    OBVIOUS
  <2>3. \A i \in 0 .. n : i = 0 \/ i \in 1 .. n
    OBVIOUS
  <2> HIDE DEF g
  <2>4. \A i \in 0 .. n : g[i] \in k .. last
    BY <2>1, <2>2, <2>3
  <2>5. ASSUME NEW i \in 1 .. n PROVE g[i - 1] < g[i]
    <3>1. CASE i = 1
      BY <2>1, <2>2, <3>1
    <3>2. CASE i # 1
      <4>1. i - 1 \in 1 .. n /\ i - 1 < i
        BY <3>2
      <4>2. f[i - 1] < f[i]
        BY <4>1 DEF Thins
      <4>3. QED BY <2>2, <4>1, <4>2
    <3>3. QED BY <3>1, <3>2
  <2>6. QED BY <2>1, <2>2, <2>4, <2>5
\* A line between two that are shown, or behind the last one, is blank.
<1>2. ASSUME NEW i \in 0 .. n, NEW j \in g[i] + 1 .. last, i < n => j < g[i + 1]
      PROVE  lines[j] = <<>>
  <2>1. SUFFICES ASSUME NEW m \in 1 .. n, f[m] = j PROVE FALSE
    <3>1. j \in k + 1 .. last
      <4>1. g[i] \in k .. last
        BY <1>1
      <4>2. QED BY <4>1
    <3>2. lines[j] # NoChars => \E i_1 \in 1 .. n : f[i_1] = j
      BY <3>1 DEF Thins
    <3>3. QED BY <3>2 DEF NoChars
  <2> HIDE DEF g
  <2>2. CASE m <= i
    <3>1. f[m] <= f[i] /\ g[i] = f[i] /\ i \in 1 .. n
      <4>1. i \in 1 .. n
        BY <2>2
      <4>2. f[m] \in Int /\ f[i] \in Int
        BY <1>1, <4>1
      <4>3. m < i => f[m] < f[i]
        BY <4>1 DEF Thins
      <4>4. m = i \/ m < i
        BY <2>2
      <4>5. QED BY <1>1, <4>1, <4>2, <4>3, <4>4
    <3>2. QED BY <1>1, <2>1, <3>1
  <2>3. CASE m > i
    <3>1. i + 1 \in 1 .. n /\ i < n
      BY <2>3
    <3>2. g[i + 1] = f[i + 1] /\ f[m] \in Int /\ f[i + 1] \in Int
      BY <1>1, <3>1
    <3>3. i + 1 < m => f[i + 1] < f[m]
      BY <3>1 DEF Thins
    <3>4. i + 1 = m \/ i + 1 < m
      BY <2>3
    <3>5. QED BY <1>2, <2>1, <3>1, <3>2, <3>3, <3>4
  <2>4. QED BY <2>2, <2>3
<1> HIDE DEF g, Told_
<1>3. 0 \in I
  <2>1. SubSeq(shown, 1, 0) = <<>> /\ SubSeq(lines, k + 1, k) = <<>>
    OBVIOUS
  <2>2. Told_(0)
    BY <1>1, <2>1, Zenon DEF Told_
  <2>3. QED BY <2>2
<1>4. ASSUME NEW i \in 1 .. n, i - 1 \in I PROVE i \in I
  <2>1. Told_(i - 1) /\ i - 1 \in 0 .. n
    BY <1>4
  <2>2. PICK a \in k .. last : a = g[i - 1]
    BY <1>1, <2>1
  <2>3. PICK b \in k + 1 .. last : b = g[i] /\ b = f[i] /\ a < b
    BY <1>1, <2>2
  <2>4. \A j \in a + 1 .. b - 1 : lines[j] = <<>>
    <3>1. ASSUME NEW j \in a + 1 .. b - 1 PROVE lines[j] = <<>>
      <4>1. (i - 1) + 1 = i /\ j \in a + 1 .. last /\ j < b
        BY <2>3
      <4>2. j \in g[i - 1] + 1 .. last /\ j < g[(i - 1) + 1]
        BY <2>2, <2>3, <4>1
      <4>3. QED BY <1>2, <2>1, <4>2
    <3>2. QED BY <3>1, Zenon
  <2>5. PICK head : head = SubSeq(lines, k + 1, b - 1)
    OBVIOUS
  <2>6. NotBlank(head) = NotBlank(SubSeq(lines, k + 1, a))
    <3>1. a \in k .. Len(lines) /\ b - 1 \in a .. Len(lines)
      BY <2>3
    <3>2. QED BY <2>4, <2>5, <3>1, BlankGap
  <2>7. PICK before : before = SubSeq(shown, 1, i - 1)
    OBVIOUS
  <2>8. NotBlank(before) = NotBlank(head)
    BY <2>1, <2>2, <2>6, <2>7, Zenon DEF Told_
  <2>9. PICK x \in T : x = lines[b]
    OBVIOUS
  <2>10. /\ head \in Seq(T) /\ before \in Seq(T) /\ i \in 0 .. n
         /\ SubSeq(lines, k + 1, b) = Append(head, x)
    <3>1. head \in Seq(T) /\ before \in Seq(T) /\ i \in 0 .. n
      BY <2>3, <2>5, <2>7
    <3>2. SubSeq(lines, k + 1, b) = Append(SubSeq(lines, k + 1, b - 1), lines[b])
      <4>1. b \in k + 1 .. Len(lines) /\ k + 1 \in Nat \ {0}
        BY <2>3
      <4>2. QED BY <4>1
    <3>3. QED BY <2>5, <2>9, <3>1, <3>2
  <2>11. SubSeq(shown, 1, i) = Append(before, x)
    <3>1. shown[i] = x
      BY <2>3, <2>9 DEF Thins
    <3>2. QED BY <2>7, <3>1
  <2>12. NotBlank(Append(before, x)) = NotBlank(Append(head, x))
    <3>0. x \in T /\ head \in Seq(T) /\ before \in Seq(T)
      BY <2>10
    <3>1. CASE x = <<>>
      <4>1. NotBlank(Append(before, x)) = NotBlank(before) /\ NotBlank(Append(head, x)) = NotBlank(head)
        BY <3>0, <3>1, NotBlankAppend, Zenon
      <4>2. QED BY <2>8, <4>1, Zenon
    <3>2. CASE x # <<>>
      <4>1. /\ NotBlank(Append(before, x)) = Append(NotBlank(before), x)
            /\ NotBlank(Append(head, x)) = Append(NotBlank(head), x)
        BY <3>0, <3>2, NotBlankAppend, Zenon
      <4>2. QED BY <2>8, <4>1, Zenon
    <3>3. QED BY <3>1, <3>2, Zenon
  <2>13. Told_(i)
    BY <2>3, <2>10, <2>11, <2>12, Zenon DEF Told_
  <2>14. QED BY <2>10, <2>13
<1> HIDE DEF I
<1>5. n \in 0 .. n /\ n \in I
  <2>1. n \in 0 .. n
    OBVIOUS
  <2>2. QED BY <1>3, <1>4, <2>1, Copied!LoopInduction
<1>6. Told_(n)
  BY <1>5 DEF I
<1>7. PICK a \in k .. last : a = g[n]
  BY <1>1, <1>5
<1>8. NotBlank(SubSeq(lines, k + 1, last)) = NotBlank(SubSeq(lines, k + 1, a))
  <2>1. ASSUME NEW j \in a + 1 .. last PROVE lines[j] = <<>>
    BY <1>2, <1>5, <1>7
  <2>2. a \in k .. Len(lines) /\ last \in a .. Len(lines)
    OBVIOUS
  <2>3. \A j \in a + 1 .. last : lines[j] = <<>>
    BY <2>1, Zenon
  <2>4. QED BY <2>2, <2>3, BlankGap
<1>9. SubSeq(shown, 1, n) = shown
  BY Copied!PrefixSteps
<1>10. QED BY <1>6, <1>7, <1>8, <1>9, Zenon DEF Told_

(***************************************************************************)
(* lines is the text so far and R the rows of the screen: with the cursor  *)
(* on the screen its row shows the last line, and below it nothing; a      *)
(* cursor below the screen has newlines behind it that are not shown yet.  *)
(* The k lines that have been scrolled away leave a screen of lines.       *)
(***************************************************************************)
Reach(y) == IF y < Height THEN y + 1 ELSE Height

Told(lines, x, y, R, k, f) ==
  /\ lines \in Seq(Seq(Glyph)) /\ Len(lines) \in Nat \ {0}
  /\ R \in [1 .. Height -> Seq(Glyph)] /\ \A r \in 1 .. Height : Len(R[r]) <= Width
  /\ x \in 0 .. Width /\ y \in Nat /\ x = Len(lines[Len(lines)])
  /\ k \in 0 .. Len(lines) - 1 /\ (k = 0 \/ k + Height <= Len(lines))
  /\ Thins(lines, R, Reach(y), k, f)
  /\ y < Height => f[y + 1] = Len(lines) /\ \A r \in y + 2 .. Height : R[r] = NoChars
  /\ y >= Height => lines[Len(lines)] = NoChars /\ f[Height] < Len(lines)
  /\ Len(lines) <= Height => y = Len(lines) - 1 /\ \A r \in 1 .. Len(lines) : f[r] = r

LEMMA NoCharsIs == NoChars \in Seq(Glyph) /\ Len(NoChars) = 0
BY DEF NoChars

\* One line more.
LEMMA Longer ==
  ASSUME NEW T, NEW q \in Seq(T), NEW x \in T
  PROVE  /\ Append(q, x) \in Seq(T) /\ Len(Append(q, x)) = Len(q) + 1
         /\ Append(q, x)[Len(q) + 1] = x /\ \A j \in 1 .. Len(q) : Append(q, x)[j] = q[j]
OBVIOUS

LEMMA Replaced ==
  ASSUME NEW T, NEW q \in Seq(T), NEW i \in 1 .. Len(q), NEW x \in T
  PROVE  /\ [q EXCEPT ![i] = x] \in Seq(T) /\ Len([q EXCEPT ![i] = x]) = Len(q)
         /\ [q EXCEPT ![i] = x][i] = x
         /\ \A j \in 1 .. Len(q) : j # i => [q EXCEPT ![i] = x][j] = q[j]
<1>1. [q EXCEPT ![i] = x] \in Seq(T) /\ Len([q EXCEPT ![i] = x]) = Len(q)
  BY ExceptSeq
<1>2. QED BY <1>1

LEMMA LineStarted ==
  ASSUME NEW lines, NEW x, NEW y, NEW R, NEW k, NEW f, Told(lines, x, y, R, k, f)
  PROVE  \E g : Told(Append(lines, NoChars), 0, y + 1, R, k, g)
<1>1. PICK n \in Nat \ {0} : n = Len(lines)
  BY DEF Told
<1>2. PICK more : more = Append(lines, NoChars)
  OBVIOUS
<1>3. /\ lines \in Seq(Seq(Glyph)) /\ more \in Seq(Seq(Glyph)) /\ Len(more) = n + 1 /\ more[n + 1] = NoChars
      /\ \A j \in 1 .. n : more[j] = lines[j]
  <2>1. lines \in Seq(Seq(Glyph))
    BY DEF Told
  <2>2. QED BY <1>1, <1>2, <2>1, NoCharsIs, Longer
<1>4. /\ R \in [1 .. Height -> Seq(Glyph)] /\ y \in Nat /\ k \in 0 .. n - 1
      /\ \A r \in 1 .. Height : Len(R[r]) <= Width
      /\ k = 0 \/ k + Height <= n
      /\ Thins(lines, R, Reach(y), k, f)
      /\ y < Height => f[y + 1] = n /\ \A r \in y + 2 .. Height : R[r] = NoChars
      /\ y >= Height => f[Height] < n
      /\ n <= Height => y = n - 1 /\ \A r \in 1 .. n : f[r] = r
  BY <1>1 DEF Told
<1>5. Height \in Nat /\ Height >= 2 /\ Width \in Nat
  BY ScreenSize
<1>6. CASE y + 1 < Height
  <2>1. PICK m \in 1 .. Height - 1 : m = y + 1
    BY <1>4, <1>5, <1>6
  <2>2. Reach(y) = m /\ Reach(y + 1) = m + 1
    BY <1>4, <1>5, <1>6, <2>1 DEF Reach
  <2>3. /\ f \in [1 .. m -> k + 1 .. n] /\ \A i \in 1 .. m : \A j \in 1 .. m : i < j => f[i] < f[j]
        /\ \A i \in 1 .. m : R[i] = lines[f[i]]
        /\ \A j \in k + 1 .. n : lines[j] # NoChars => \E i \in 1 .. m : f[i] = j
    BY <1>1, <1>4, <2>2 DEF Thins
  <2>4. PICK g : g = [i \in 1 .. m + 1 |-> IF i = m + 1 THEN n + 1 ELSE f[i]]
    OBVIOUS
  <2>5. /\ g \in [1 .. m + 1 -> k + 1 .. n + 1] /\ g[m + 1] = n + 1 /\ \A i \in 1 .. m : g[i] = f[i]
    BY <1>4, <2>3, <2>4
  <2>6. \A i \in 1 .. m + 1 : \A j \in 1 .. m + 1 : i < j => g[i] < g[j]
    <3>1. ASSUME NEW i \in 1 .. m + 1, NEW j \in 1 .. m + 1, i < j PROVE g[i] < g[j]
      <4>1. i \in 1 .. m /\ g[i] = f[i] /\ f[i] \in k + 1 .. n
        BY <2>3, <2>5, <3>1
      <4>2. CASE j = m + 1
        BY <1>4, <2>5, <4>1, <4>2
      <4>3. CASE j # m + 1
        <5>1. j \in 1 .. m
          BY <4>3
        <5>2. QED BY <2>3, <2>5, <3>1, <4>1, <5>1
      <4>4. QED BY <4>2, <4>3
    <3>2. QED BY <3>1
  <2>7. R[m + 1] = NoChars /\ \A r \in m + 2 .. Height : R[r] = NoChars
    <3>1. m + 1 \in y + 2 .. Height /\ \A r \in m + 2 .. Height : r \in y + 2 .. Height
      BY <1>4, <1>5, <2>1
    <3>2. y < Height
      BY <1>4, <1>5, <1>6
    <3>3. QED BY <1>4, <3>1, <3>2, Zenon
  <2>8. \A i \in 1 .. m + 1 : R[i] = more[g[i]]
    <3>1. ASSUME NEW i \in 1 .. m PROVE R[i] = more[g[i]]
      <4>1. g[i] = f[i] /\ f[i] \in 1 .. n
        BY <1>4, <2>3, <2>5
      <4>2. R[i] = lines[f[i]] /\ more[f[i]] = lines[f[i]]
        BY <1>3, <2>3, <4>1
      <4>3. QED BY <4>1, <4>2
    <3>2. R[m + 1] = more[g[m + 1]]
      BY <1>3, <2>5, <2>7
    <3>3. \A i \in 1 .. m + 1 : i = m + 1 \/ i \in 1 .. m
      OBVIOUS
    <3>4. QED BY <3>1, <3>2, <3>3, Zenon
  <2>9. ASSUME NEW j \in k + 1 .. n + 1, more[j] # NoChars PROVE \E i \in 1 .. m + 1 : g[i] = j
    <3>1. j # n + 1
      BY <1>3, <2>9, Zenon
    <3>2. j \in k + 1 .. n /\ j \in 1 .. n
      BY <1>4, <3>1
    <3>3. lines[j] # NoChars
      BY <1>3, <2>9, <3>2, Zenon
    <3>4. PICK i \in 1 .. m : f[i] = j
      BY <2>3, <3>2, <3>3, Zenon
    <3>5. i \in 1 .. m + 1 /\ g[i] = j
      BY <2>5, <3>4
    <3>6. QED BY <3>5
  <2>10. Thins(more, R, Reach(y + 1), k, g)
    BY <1>3, <2>2, <2>5, <2>6, <2>8, <2>9, Zenon DEF Thins
  <2>11. g[(y + 1) + 1] = n + 1 /\ \A r \in (y + 1) + 2 .. Height : R[r] = NoChars
    BY <1>4, <2>1, <2>5, <2>7
  <2>12. n + 1 <= Height => y + 1 = n /\ \A r \in 1 .. n + 1 : g[r] = r
    <3>1. ASSUME n + 1 <= Height PROVE y = n - 1 /\ m = n /\ \A r \in 1 .. n : f[r] = r
      BY <1>4, <1>5, <2>1, <3>1
    <3>2. ASSUME n + 1 <= Height, NEW r \in 1 .. n + 1 PROVE g[r] = r
      <4>1. CASE r = n + 1
        BY <2>5, <3>1, <3>2, <4>1
      <4>2. CASE r # n + 1
        <5>1. r \in 1 .. n
          BY <4>2
        <5>2. QED BY <2>5, <3>1, <3>2, <5>1
      <4>3. QED BY <4>1, <4>2
    <3>3. QED BY <3>1, <3>2
  <2>13. /\ 0 \in 0 .. Width /\ y + 1 \in Nat /\ 0 = Len(more[Len(more)])
         /\ k \in 0 .. Len(more) - 1 /\ (k = 0 \/ k + Height <= Len(more)) /\ Len(more) \in Nat \ {0}
    <3>1. 0 = Len(more[Len(more)])
      BY <1>3, NoCharsIs
    <3>2. QED BY <1>3, <1>4, <1>5, <3>1
  <2>14. Told(more, 0, y + 1, R, k, g)
    <3>1. ~(y + 1 >= Height)
      BY <1>4, <1>5, <1>6
    <3>2. Len(more) - 1 = n
      BY <1>3
    <3>3. QED BY <1>3, <1>4, <2>10, <2>11, <2>12, <2>13, <3>1, <3>2 DEF Told
  <2>15. QED BY <1>2, <2>14
<1>7. CASE ~(y + 1 < Height)
  <2>1. Reach(y) = Height /\ Reach(y + 1) = Height
    BY <1>4, <1>5, <1>7 DEF Reach
  <2>2. /\ f \in [1 .. Height -> k + 1 .. n]
        /\ \A i \in 1 .. Height : \A j \in 1 .. Height : i < j => f[i] < f[j]
        /\ \A i \in 1 .. Height : R[i] = lines[f[i]]
        /\ \A j \in k + 1 .. n : lines[j] # NoChars => \E i \in 1 .. Height : f[i] = j
    BY <1>1, <1>4, <2>1 DEF Thins
  <2>3. f \in [1 .. Height -> k + 1 .. n + 1] /\ f[Height] < n + 1
    <3>1. \A i \in 1 .. Height : f[i] \in k + 1 .. n /\ f[i] \in k + 1 .. n + 1
      BY <1>4, <2>2
    <3>2. QED BY <1>4, <1>5, <2>2, <3>1
  <2>4. \A i \in 1 .. Height : R[i] = more[f[i]]
    <3>1. \A i \in 1 .. Height : f[i] \in 1 .. n
      BY <1>4, <2>2
    <3>2. QED BY <1>3, <2>2, <3>1
  <2>5. ASSUME NEW j \in k + 1 .. n + 1, more[j] # NoChars PROVE \E i \in 1 .. Height : f[i] = j
    <3>1. j # n + 1
      BY <1>3, <2>5, Zenon
    <3>2. j \in k + 1 .. n /\ j \in 1 .. n
      BY <1>4, <3>1
    <3>3. lines[j] # NoChars
      BY <1>3, <2>5, <3>2, Zenon
    <3>4. QED BY <2>2, <3>2, <3>3, Zenon
  <2>6. Thins(more, R, Reach(y + 1), k, f)
    BY <1>3, <2>1, <2>2, <2>3, <2>4, <2>5, Zenon DEF Thins
  <2>7. ~(n + 1 <= Height)
    BY <1>4, <1>5, <1>7
  <2>8. /\ 0 \in 0 .. Width /\ y + 1 \in Nat /\ 0 = Len(more[Len(more)]) /\ more[Len(more)] = NoChars
         /\ k \in 0 .. Len(more) - 1 /\ (k = 0 \/ k + Height <= Len(more)) /\ Len(more) \in Nat \ {0}
    <3>1. 0 = Len(more[Len(more)]) /\ more[Len(more)] = NoChars
      BY <1>3, NoCharsIs
    <3>2. QED BY <1>3, <1>4, <1>5, <3>1
  <2>9. f[Height] < Len(more) /\ ~(Len(more) <= Height)
    BY <1>3, <2>3, <2>7
  <2>10. Told(more, 0, y + 1, R, k, f)
    BY <1>3, <1>4, <1>7, <2>6, <2>8, <2>9 DEF Told
  <2>11. QED BY <1>2, <2>10
<1>8. QED BY <1>6, <1>7

\* A glyph at the end of the last line and of its row.
LEMMA GlyphAdded ==
  ASSUME NEW lines, NEW x, NEW y, NEW R, NEW k, NEW f, Told(lines, x, y, R, k, f),
         x < Width, y < Height, NEW c \in Glyph
  PROVE  /\ Told([lines EXCEPT ![Len(lines)] = Append(@, c)], x + 1, y,
                 [R EXCEPT ![y + 1] = Append(@, c)], k, f)
         /\ y + 1 \in 1 .. Height /\ Len(R[y + 1]) = x
<1>1. PICK n \in Nat \ {0} : n = Len(lines)
  BY DEF Told
<1>2. /\ lines \in Seq(Seq(Glyph)) /\ R \in [1 .. Height -> Seq(Glyph)] /\ y \in Nat /\ k \in 0 .. n - 1
      /\ \A r \in 1 .. Height : Len(R[r]) <= Width
      /\ k = 0 \/ k + Height <= n
      /\ Thins(lines, R, Reach(y), k, f)
      /\ f[y + 1] = n /\ \A r \in y + 2 .. Height : R[r] = NoChars
      /\ n <= Height => y = n - 1 /\ \A r \in 1 .. n : f[r] = r
      /\ x \in 0 .. Width /\ x = Len(lines[n])
  BY <1>1 DEF Told
<1>3. Height \in Nat /\ Height >= 2 /\ Width \in Nat
  BY ScreenSize
<1>4. PICK m \in 1 .. Height : m = y + 1 /\ Reach(y) = m
  BY <1>2, <1>3 DEF Reach
<1>5. /\ f \in [1 .. m -> k + 1 .. n] /\ \A i \in 1 .. m : \A j \in 1 .. m : i < j => f[i] < f[j]
      /\ \A i \in 1 .. m : R[i] = lines[f[i]]
      /\ \A j \in k + 1 .. n : lines[j] # NoChars => \E i \in 1 .. m : f[i] = j
  BY <1>1, <1>2, <1>4 DEF Thins
<1>6. PICK last \in Seq(Glyph) : last = lines[n]
  BY <1>1, <1>2
<1>7. R[m] = last /\ f[m] = n
  BY <1>2, <1>4, <1>5, <1>6
<1>8. PICK longer \in Seq(Glyph) : longer = Append(last, c) /\ Len(longer) = x + 1
  <2>1. Append(last, c) \in Seq(Glyph) /\ Len(Append(last, c)) = Len(last) + 1
    BY <1>6
  <2>2. QED BY <1>2, <1>6, <2>1
<1>9. PICK more : more = [lines EXCEPT ![n] = longer]
  OBVIOUS
<1>10. /\ more \in Seq(Seq(Glyph)) /\ Len(more) = n /\ more[n] = longer
       /\ \A j \in 1 .. n : j # n => more[j] = lines[j]
  <2>1. n \in 1 .. Len(lines)
    BY <1>1
  <2>2. QED BY <1>1, <1>2, <1>9, <2>1, Replaced
<1>11. PICK S : S = [R EXCEPT ![m] = longer]
  OBVIOUS
<1>12. /\ S \in [1 .. Height -> Seq(Glyph)] /\ S[m] = longer
       /\ \A r \in 1 .. Height : r # m => S[r] = R[r]
  BY <1>2, <1>11
<1>13. \A r \in 1 .. Height : Len(S[r]) <= Width
  <2>1. ASSUME NEW r \in 1 .. Height PROVE Len(S[r]) <= Width
    <3>1. CASE r = m
      BY <1>2, <1>3, <1>8, <1>12, <3>1
    <3>2. CASE r # m
      BY <1>2, <1>12, <3>2
    <3>3. QED BY <3>1, <3>2
  <2>2. QED BY <2>1
<1>14. \A i \in 1 .. m : S[i] = more[f[i]]
  <2>1. ASSUME NEW i \in 1 .. m PROVE S[i] = more[f[i]]
    <3>1. CASE i = m
      BY <1>7, <1>10, <1>12, <3>1
    <3>2. CASE i # m
      <4>1. i \in 1 .. Height /\ i < m /\ m \in 1 .. m
        BY <1>3, <3>2
      <4>2. f[i] < n /\ f[i] \in 1 .. n
        BY <1>2, <1>5, <1>7, <4>1
      <4>3. f[i] # n
        BY <4>2
      <4>4. S[i] = R[i] /\ R[i] = lines[f[i]] /\ more[f[i]] = lines[f[i]]
        BY <1>5, <1>10, <1>12, <3>2, <4>1, <4>2, <4>3, Zenon
      <4>5. QED BY <4>4, Zenon
    <3>3. QED BY <3>1, <3>2
  <2>2. QED BY <2>1
<1>15. ASSUME NEW j \in k + 1 .. n, more[j] # NoChars PROVE \E i \in 1 .. m : f[i] = j
  <2>1. CASE j = n
    BY <1>4, <1>7, <2>1
  <2>2. CASE j # n
    <3>1. j \in 1 .. n
      BY <1>2
    <3>2. lines[j] # NoChars
      BY <1>10, <1>15, <2>2, <3>1, Zenon
    <3>3. QED BY <1>5, <3>2
  <2>3. QED BY <2>1, <2>2
<1>16. Thins(more, S, Reach(y), k, f)
  BY <1>4, <1>5, <1>10, <1>14, <1>15, Zenon DEF Thins
<1>17. \A r \in y + 2 .. Height : S[r] = NoChars
  <2>1. ASSUME NEW r \in y + 2 .. Height PROVE S[r] = NoChars
    <3>1. r \in 1 .. Height /\ r # m
      BY <1>2, <1>4
    <3>2. QED BY <1>2, <1>12, <3>1, Zenon
  <2>2. QED BY <2>1
<1>18. Told(more, x + 1, y, S, k, f)
  <2>1. x + 1 \in 0 .. Width /\ x + 1 = Len(more[Len(more)]) /\ Len(more) \in Nat \ {0}
    <3>1. x + 1 \in 0 .. Width
      BY <1>2, <1>3
    <3>2. Len(more[Len(more)]) = Len(longer)
      BY <1>10, Zenon
    <3>3. QED BY <1>2, <1>8, <1>10, <3>1, <3>2, Zenon
  <2>2. ~(y >= Height)
    BY <1>2, <1>3
  <2>3. QED BY <1>2, <1>10, <1>12, <1>13, <1>16, <1>17, <2>1, <2>2 DEF Told
<1>19. more = [lines EXCEPT ![Len(lines)] = Append(@, c)]
  BY <1>1, <1>6, <1>8, <1>9
<1>20. S = [R EXCEPT ![y + 1] = Append(@, c)]
  BY <1>4, <1>7, <1>8, <1>11
<1>21. QED BY <1>2, <1>4, <1>6, <1>7, <1>18, <1>19, <1>20

\* What has increased at every step has increased by the number of steps.
LEMMA Increasing ==
  ASSUME NEW n \in Nat \ {0}, NEW f, \A i \in 1 .. n : f[i] \in Nat,
         \A i \in 1 .. n : \A j \in 1 .. n : i < j => f[i] < f[j]
  PROVE  f[1] + n <= f[n] + 1
<1> DEFINE I == {i \in 0 .. n : i = 0 \/ f[1] + i <= f[i] + 1}
<1>1. 0 \in I
  OBVIOUS
<1>2. ASSUME NEW i \in 1 .. n, i - 1 \in I PROVE i \in I
  <2>1. CASE i = 1
    BY <2>1
  <2>2. CASE i # 1
    <3>1. i - 1 \in 1 .. n /\ i - 1 < i /\ 1 \in 1 .. n
      BY <2>2
    <3>2. f[i - 1] \in Nat /\ f[i] \in Nat /\ f[1] \in Nat /\ f[i - 1] < f[i]
      BY <3>1
    <3>3. f[1] + (i - 1) <= f[i - 1] + 1
      BY <1>2, <2>2
    <3>4. f[1] + i <= f[i] + 1
      BY <3>2, <3>3
    <3>5. QED BY <3>4
  <2>3. QED BY <2>1, <2>2
<1> HIDE DEF I
<1>3. n \in 0 .. n /\ n \in I
  BY <1>1, <1>2, Copied!LoopInduction
<1>4. QED BY <1>3 DEF I

\* The rows move up, and the last line, still blank, gets the last row.
LEMMA RowsScrolled ==
  ASSUME NEW lines, NEW x, NEW y, NEW R, NEW k, NEW f, Told(lines, x, y, R, k, f), y >= Height
  PROVE  \E j, g : Told(lines, x, Height - 1,
                        [r \in 1 .. Height |-> IF r < Height THEN R[r + 1] ELSE NoChars], j, g)
<1>1. PICK n \in Nat \ {0} : n = Len(lines)
  BY DEF Told
<1>2. /\ lines \in Seq(Seq(Glyph)) /\ R \in [1 .. Height -> Seq(Glyph)] /\ y \in Nat /\ k \in 0 .. n - 1
      /\ \A r \in 1 .. Height : Len(R[r]) <= Width
      /\ k = 0 \/ k + Height <= n
      /\ Thins(lines, R, Reach(y), k, f)
      /\ lines[n] = NoChars /\ f[Height] < n
      /\ n <= Height => y = n - 1
      /\ x \in 0 .. Width /\ x = Len(lines[n])
  BY <1>1 DEF Told
<1>3. Height \in Nat \ {0} /\ Height >= 2 /\ Width \in Nat
  BY ScreenSize
<1>4. Reach(y) = Height /\ Reach(Height - 1) = Height
  BY <1>2, <1>3 DEF Reach
<1>5. /\ f \in [1 .. Height -> k + 1 .. n]
      /\ \A i \in 1 .. Height : \A j \in 1 .. Height : i < j => f[i] < f[j]
      /\ \A i \in 1 .. Height : R[i] = lines[f[i]]
      /\ \A j \in k + 1 .. n : lines[j] # NoChars => \E i \in 1 .. Height : f[i] = j
  BY <1>1, <1>2, <1>4 DEF Thins
<1>6. \A i \in 1 .. Height : f[i] \in Nat /\ f[i] \in k + 1 .. n
  <2>1. \A i \in 1 .. Height : f[i] \in k + 1 .. n
    BY <1>5
  <2>2. \A j \in k + 1 .. n : j \in Nat
    BY <1>2
  <2>3. QED BY <2>1, <2>2
<1>7. f[1] + Height <= n
  <2>1. f[1] + Height <= f[Height] + 1
    BY <1>3, <1>5, <1>6, Increasing
  <2>2. f[1] \in Nat /\ f[Height] \in Nat
    BY <1>3, <1>6
  <2>3. QED BY <1>2, <1>3, <2>1, <2>2
<1>8. PICK p \in 0 .. n - 1 : p = f[1] /\ p > k
  <2>1. f[1] \in k + 1 .. n
    BY <1>3, <1>6
  <2>2. QED BY <1>2, <1>3, <1>7, <2>1
<1>9. PICK S : S = [r \in 1 .. Height |-> IF r < Height THEN R[r + 1] ELSE NoChars]
  OBVIOUS
<1>10. PICK g : g = [r \in 1 .. Height |-> IF r < Height THEN f[r + 1] ELSE n]
  OBVIOUS
<1>11. ASSUME NEW r \in 1 .. Height, r < Height
       PROVE  r + 1 \in 1 .. Height /\ S[r] = R[r + 1] /\ g[r] = f[r + 1] /\ f[r + 1] \in p + 1 .. n - 1
  <2>1. r + 1 \in 1 .. Height /\ S[r] = R[r + 1] /\ g[r] = f[r + 1]
    <3>1. r + 1 \in 1 .. Height
      BY <1>3, <1>11
    <3>2. S[r] = IF r < Height THEN R[r + 1] ELSE NoChars
      BY <1>9, Zenon
    <3>3. g[r] = IF r < Height THEN f[r + 1] ELSE n
      BY <1>10, Zenon
    <3>4. QED BY <1>11, <3>1, <3>2, <3>3, Zenon
  <2>2. f[1] < f[r + 1]
    BY <1>3, <1>5, <2>1
  <2>3. f[r + 1] <= f[Height]
    <3>1. CASE r + 1 = Height
      BY <1>3, <1>6, <3>1
    <3>2. CASE r + 1 # Height
      <4>1. r + 1 < Height /\ Height \in 1 .. Height
        BY <1>3, <2>1, <3>2
      <4>2. f[r + 1] < f[Height]
        BY <1>5, <2>1, <4>1
      <4>3. QED BY <1>6, <2>1, <4>1, <4>2
    <3>3. QED BY <3>1, <3>2
  <2>4. f[r + 1] \in Nat /\ f[Height] \in Nat
    BY <1>3, <1>6, <2>1
  <2>5. QED BY <1>2, <1>8, <2>1, <2>2, <2>3, <2>4
<1>12. Height \in 1 .. Height /\ S[Height] = NoChars /\ g[Height] = n
  BY <1>3, <1>9, <1>10
<1>13. \A r \in 1 .. Height : r < Height \/ r = Height
  BY <1>3
<1>14. \A r \in 1 .. Height : S[r] \in Seq(Glyph) /\ Len(S[r]) <= Width
  <2>1. ASSUME NEW r \in 1 .. Height PROVE S[r] \in Seq(Glyph) /\ Len(S[r]) <= Width
    <3>1. CASE r < Height
      BY <1>2, <1>11, <3>1
    <3>2. CASE r = Height
      <4>1. PICK none \in Seq(Glyph) : none = NoChars /\ Len(none) = 0
        BY NoCharsIs
      <4>2. S[r] = none
        BY <1>12, <3>2, <4>1, Zenon
      <4>3. QED BY <1>3, <4>1, <4>2
    <3>3. QED BY <1>13, <3>1, <3>2
  <2>2. QED BY <2>1
<1>15. S \in [1 .. Height -> Seq(Glyph)]
  BY <1>9, <1>14
<1>16. \A r \in 1 .. Height : g[r] \in p + 1 .. n
  <2>1. ASSUME NEW r \in 1 .. Height PROVE g[r] \in p + 1 .. n
    <3>1. CASE r < Height
      BY <1>11, <3>1
    <3>2. CASE r = Height
      BY <1>8, <1>12, <3>2
    <3>3. QED BY <1>13, <3>1, <3>2
  <2>2. QED BY <2>1
<1>17. g \in [1 .. Height -> p + 1 .. n]
  BY <1>10, <1>16
<1>18. ASSUME NEW i \in 1 .. Height, NEW j \in 1 .. Height, i < j PROVE g[i] < g[j]
  <2>1. i < Height
    BY <1>3, <1>18
  <2>2. g[i] = f[i + 1] /\ f[i + 1] \in p + 1 .. n - 1 /\ i + 1 \in 1 .. Height
    BY <1>11, <2>1
  <2>3. CASE j = Height
    BY <1>8, <1>12, <2>2, <2>3
  <2>4. CASE j < Height
    <3>1. g[j] = f[j + 1] /\ j + 1 \in 1 .. Height /\ i + 1 < j + 1
      BY <1>11, <1>18, <2>4
    <3>2. QED BY <1>5, <2>2, <3>1
  <2>5. QED BY <1>13, <2>3, <2>4
<1>19. ASSUME NEW i \in 1 .. Height PROVE S[i] = lines[g[i]]
  <2>1. CASE i < Height
    BY <1>5, <1>11, <2>1
  <2>2. CASE i = Height
    BY <1>2, <1>12, <2>2
  <2>3. QED BY <1>13, <2>1, <2>2
<1>20. ASSUME NEW j \in p + 1 .. n, lines[j] # NoChars PROVE \E i \in 1 .. Height : g[i] = j
  <2>1. j \in k + 1 .. n
    BY <1>2, <1>8
  <2>2. PICK i \in 1 .. Height : f[i] = j
    BY <1>5, <1>20, <2>1, Zenon
  <2>3. i # 1
    BY <1>8, <2>2
  <2>4. i - 1 \in 1 .. Height /\ i - 1 < Height /\ (i - 1) + 1 = i
    BY <1>3, <2>3
  <2>5. g[i - 1] = f[i]
    BY <1>11, <2>4
  <2>6. QED BY <2>2, <2>4, <2>5
<1>21. Thins(lines, S, Reach(Height - 1), p, g)
  BY <1>1, <1>4, <1>17, <1>18, <1>19, <1>20, Zenon DEF Thins
<1>22. Told(lines, x, Height - 1, S, p, g)
  <2>1. ~(n <= Height) /\ Height - 1 \in Nat /\ ~(Height - 1 >= Height)
    BY <1>2, <1>3
  <2>2. g[(Height - 1) + 1] = n /\ \A r \in (Height - 1) + 2 .. Height : S[r] = NoChars
    BY <1>3, <1>12
  <2>3. p \in 0 .. n - 1 /\ (p = 0 \/ p + Height <= n)
    BY <1>7, <1>8
  <2>4. QED BY <1>1, <1>2, <1>14, <1>15, <1>21, <2>1, <2>2, <2>3 DEF Told
<1>23. QED BY <1>9, <1>22

(***************************************************************************)
(* The rows in the cells: glyphs, and spaces behind them.                  *)
(***************************************************************************)
Space == " "
CellAt(r, i) == (r - 1) * Width + i - 1

RowsAre(s, R) ==
  \A r \in 1 .. Height : \A i \in 1 .. Width :
    s.cell[CellAt(r, i)].char = IF i <= Len(R[r]) THEN R[r][i] ELSE Space

\* The screen shows lines.
Showing(s, lines) ==
  OnScreen(s) /\ \E R, k, f : RowsAre(s, R) /\ Told(lines, s.x, s.y, R, k, f)

LEMMA CellAtIs ==
  ASSUME NEW r \in 1 .. Height, NEW i \in 1 .. Width
  PROVE  /\ CellAt(r, i) \in Cell /\ CellAt(r, i) \div Width = r - 1
         /\ r < Height => CellAt(r, i) + Width = CellAt(r + 1, i)
         /\ \A q \in 1 .. Height : \A j \in 1 .. Width :
              CellAt(q, j) = CellAt(r, i) => q = r /\ j = i
<1>1. ASSUME NEW q \in 1 .. Height, NEW j \in 1 .. Width
      PROVE  /\ CellAt(q, j) \in Cell /\ CellAt(q, j) \div Width = q - 1
             /\ CellAt(q, j) = (q - 1) * Width + (j - 1)
  <2>1. q - 1 \in Nat /\ q - 1 < Height /\ j - 1 \in 0 .. Width - 1
    BY ScreenSize
  <2>2. CellAt(q, j) = (q - 1) * Width + (j - 1)
    <3>1. (q - 1) * Width \in Int
      BY <2>1, ScreenSize
    <3>2. QED BY <3>1 DEF CellAt
  <2>3. QED BY <2>1, <2>2, RowOf
<1>2. ASSUME r < Height PROVE CellAt(r, i) + Width = CellAt(r + 1, i)
  <2>1. \A a, w \in Int : (a - 1) * w + w = a * w
    OBVIOUS
  <2>2. (r - 1) * Width + Width = r * Width /\ (r + 1) - 1 = r /\ (r - 1) * Width \in Int
    BY <2>1, ScreenSize
  <2>3. QED BY <2>2, ScreenSize DEF CellAt
<1>3. ASSUME NEW q \in 1 .. Height, NEW j \in 1 .. Width, CellAt(q, j) = CellAt(r, i)
      PROVE  q = r /\ j = i
  <2>1. q - 1 = r - 1
    BY <1>1, <1>3
  <2>2. q = r
    BY <2>1
  <2>3. CellAt(r, j) = (r - 1) * Width + (j - 1) /\ CellAt(r, i) = (r - 1) * Width + (i - 1)
    BY <1>1
  <2>4. (r - 1) * Width \in Int
    BY ScreenSize
  <2>5. QED BY <1>3, <2>2, <2>3, <2>4
<1>4. QED BY <1>1, <1>2, <1>3

LEMMA NewLineShows ==
  ASSUME NEW s, NEW lines, Showing(s, lines), NEW u, u = Return(s), NEW t, t = Down(u)
  PROVE  Showing(t, Append(lines, NoChars)) /\ t.x = 0
<1>1. PICK R, k, f : RowsAre(s, R) /\ Told(lines, s.x, s.y, R, k, f)
  BY Zenon DEF Showing
<1>2. OnScreen(s)
  BY Zenon DEF Showing
<1>3. OnScreen(u) /\ u.x = 0 /\ u.y = s.y /\ u.cell = s.cell
  BY <1>2, KeepsCells, MovesOK DEF OnScreen, ScreenOK, Return
<1>4. OnScreen(t) /\ t.x = 0 /\ t.y = s.y + 1 /\ t.cell = s.cell
  BY <1>3, KeepsCells DEF OnScreen, ScreenOK, Down
<1>5. PICK g : Told(Append(lines, NoChars), 0, s.y + 1, R, k, g)
  BY <1>1, LineStarted
<1>6. RowsAre(t, R)
  <2>1. ASSUME NEW r \in 1 .. Height, NEW i \in 1 .. Width
        PROVE  t.cell[CellAt(r, i)].char = IF i <= Len(R[r]) THEN R[r][i] ELSE Space
    <3>1. s.cell[CellAt(r, i)].char = IF i <= Len(R[r]) THEN R[r][i] ELSE Space
      BY <1>1, Zenon DEF RowsAre
    <3>2. QED BY <1>4, <3>1, Zenon
  <2>2. QED BY <2>1, Zenon DEF RowsAre
<1>7. QED BY <1>4, <1>5, <1>6, Zenon DEF Showing

LEMMA GlyphShows ==
  ASSUME NEW s, NEW lines, Showing(s, lines), s.x < Width, s.y < Height, NEW c \in Glyph,
         NEW t, t = Advance(Store(s, c))
  PROVE  Showing(t, [lines EXCEPT ![Len(lines)] = Append(@, c)])
<1>1. PICK R, k, f : RowsAre(s, R) /\ Told(lines, s.x, s.y, R, k, f)
  BY Zenon DEF Showing
<1>2. OnScreen(s)
  BY Zenon DEF Showing
<1>3. s.x \in 0 .. Width - 1 /\ s.y \in 0 .. Height - 1
  BY <1>2, ScreenSize DEF OnScreen, ScreenOK
<1>4. PICK x \in 1 .. Width, m \in 1 .. Height : x = s.x + 1 /\ m = s.y + 1
  BY <1>3, ScreenSize
<1>5. PICK S : S = [R EXCEPT ![m] = Append(@, c)]
  OBVIOUS
<1>6. /\ Told([lines EXCEPT ![Len(lines)] = Append(@, c)], x, s.y, S, k, f)
      /\ Len(R[m]) = x - 1
  <2>1. /\ Told([lines EXCEPT ![Len(lines)] = Append(@, c)], s.x + 1, s.y,
                [R EXCEPT ![s.y + 1] = Append(@, c)], k, f)
        /\ Len(R[s.y + 1]) = s.x
    BY <1>1, GlyphAdded
  <2>2. QED BY <1>3, <1>4, <1>5, <2>1
<1>7. /\ OnScreen(t) /\ t.x = x /\ t.y = s.y
      /\ t.cell[CellAt(m, x)].char = c
      /\ \A a \in Cell : a # CellAt(m, x) => t.cell[a] = s.cell[a]
  <2>1. CellAt(m, x) = s.y * Width + s.x
    <3>1. m - 1 = s.y /\ x - 1 = s.x /\ (m - 1) * Width \in Int
      BY <1>3, <1>4, ScreenSize
    <3>2. CellAt(m, x) = (m - 1) * Width + (x - 1)
      BY <3>1 DEF CellAt
    <3>3. QED BY <3>1, <3>2
  <2>2. QED BY <1>2, <1>3, <1>4, <2>1, StoredAt
<1>8. R \in [1 .. Height -> Seq(Glyph)]
  BY <1>1 DEF Told
<1>9. PICK old \in Seq(Glyph) : old = R[m] /\ Len(old) = x - 1
  BY <1>6, <1>8
<1>10. PICK new \in Seq(Glyph) : new = Append(old, c)
  <2>1. Append(old, c) \in Seq(Glyph)
    BY Longer
  <2>2. QED BY <2>1, Zenon
<1>11. Len(new) = x /\ new[x] = c /\ \A i \in 1 .. x - 1 : new[i] = old[i]
  BY <1>9, <1>10
<1>12. S[m] = new /\ \A r \in 1 .. Height : r # m => S[r] = R[r]
  BY <1>5, <1>8, <1>9, <1>10
<1>13. RowsAre(t, S)
  <2>1. ASSUME NEW r \in 1 .. Height, NEW i \in 1 .. Width
        PROVE  t.cell[CellAt(r, i)].char = IF i <= Len(S[r]) THEN S[r][i] ELSE Space
    <3>1. s.cell[CellAt(r, i)].char = IF i <= Len(R[r]) THEN R[r][i] ELSE Space
      BY <1>1, Zenon DEF RowsAre
    <3>2. CASE r = m /\ i = x
      <4>1. i <= Len(S[r]) /\ S[r][i] = c
        BY <1>11, <1>12, <3>2
      <4>2. QED BY <1>7, <3>2, <4>1, Zenon
    <3>3. CASE ~(r = m /\ i = x)
      <4>1. t.cell[CellAt(r, i)] = s.cell[CellAt(r, i)]
        BY <1>7, <3>3, CellAtIs
      <4>2. CASE r = m
        <5>1. i # x /\ S[r] = new /\ R[r] = old
          BY <1>9, <1>12, <3>3, <4>2
        <5>2. i <= Len(S[r]) <=> i <= Len(R[r])
          BY <1>9, <1>11, <5>1
        <5>3. i <= Len(R[r]) => S[r][i] = R[r][i]
          BY <1>9, <1>11, <5>1
        <5>4. QED BY <3>1, <4>1, <5>2, <5>3, Zenon
      <4>3. CASE r # m
        BY <1>12, <3>1, <4>1, <4>3, Zenon
      <4>4. QED BY <4>2, <4>3
    <3>4. QED BY <3>2, <3>3
  <2>2. QED BY <2>1, Zenon DEF RowsAre
<1>14. QED BY <1>6, <1>7, <1>13, Zenon DEF Showing

\* t shows the cells of s after all rows have moved up.
ScrolledTo(s, t) ==
  \A c \in Cell : t.cell[c].char = IF c \div Width < Height - 1 THEN s.cell[c + Width].char
                                   ELSE Space

LEMMA ScrollShows ==
  ASSUME NEW s, NEW lines, Showing(s, lines), s.y >= Height, NEW t, OnScreen(t), t.x = s.x,
         t.y = Height - 1, ScrolledTo(s, t)
  PROVE  Showing(t, lines)
<1>1. PICK R, k, f : RowsAre(s, R) /\ Told(lines, s.x, s.y, R, k, f)
  BY Zenon DEF Showing
<1>2. PICK S : S = [r \in 1 .. Height |-> IF r < Height THEN R[r + 1] ELSE NoChars]
  OBVIOUS
<1>3. PICK j, g : Told(lines, s.x, Height - 1, S, j, g)
  BY <1>1, <1>2, RowsScrolled
<1>4. RowsAre(t, S)
  <2>1. ASSUME NEW r \in 1 .. Height, NEW i \in 1 .. Width
        PROVE  t.cell[CellAt(r, i)].char = IF i <= Len(S[r]) THEN S[r][i] ELSE Space
    <3>1. CellAt(r, i) \in Cell /\ CellAt(r, i) \div Width = r - 1
      BY CellAtIs
    <3>2. t.cell[CellAt(r, i)].char = IF CellAt(r, i) \div Width < Height - 1
                                      THEN s.cell[CellAt(r, i) + Width].char ELSE Space
      BY <3>1, Zenon DEF ScrolledTo
    <3>3. S[r] = IF r < Height THEN R[r + 1] ELSE NoChars
      BY <1>2, Zenon
    <3>4. CASE r < Height
      <4>1. /\ r - 1 < Height - 1 /\ r + 1 \in 1 .. Height
            /\ CellAt(r, i) + Width = CellAt(r + 1, i)
        BY <3>4, ScreenSize, CellAtIs
      <4>2. s.cell[CellAt(r + 1, i)].char = IF i <= Len(R[r + 1]) THEN R[r + 1][i] ELSE Space
        BY <1>1, <4>1, Zenon DEF RowsAre
      <4>3. QED BY <3>1, <3>2, <3>3, <3>4, <4>1, <4>2, Zenon
    <3>5. CASE ~(r < Height)
      <4>1. ~(r - 1 < Height - 1)
        BY <3>5, ScreenSize
      <4>2. ~(i <= Len(NoChars))
        BY NoCharsIs
      <4>3. QED BY <3>1, <3>2, <3>3, <3>5, <4>1, <4>2, Zenon
    <3>6. QED BY <3>4, <3>5
  <2>2. QED BY <2>1, Zenon DEF RowsAre
<1>5. QED BY <1>3, <1>4, Zenon DEF Showing

LEMMA OneLine ==
  ASSUME NEW T, NEW x \in T
  PROVE  <<x>> \in Seq(T) /\ Len(<<x>>) = 1 /\ <<x>>[1] = x
OBVIOUS

\* The empty screen shows an empty line.
LEMMA EmptyShows ==
  ASSUME NEW s, OnScreen(s), s.x = 0, s.y = 0, \A c \in Cell : s.cell[c].char = Space
  PROVE  Showing(s, <<NoChars>>)
<1>1. PICK R : R = [r \in 1 .. Height |-> NoChars]
  OBVIOUS
<1>2. PICK f : f = [r \in 1 .. 1 |-> 1]
  OBVIOUS
<1>3. PICK lines \in Seq(Seq(Glyph)) : lines = <<NoChars>> /\ Len(lines) = 1 /\ lines[1] = NoChars
  <2>1. <<NoChars>> \in Seq(Seq(Glyph)) /\ Len(<<NoChars>>) = 1 /\ <<NoChars>>[1] = NoChars
    BY NoCharsIs, OneLine, Zenon
  <2>2. QED BY <2>1, Zenon
<1>4. Height \in Nat /\ Height >= 2 /\ Width \in Nat \ {0}
  BY ScreenSize
<1>5. \A r \in 1 .. Height : R[r] = NoChars
  BY <1>1, Zenon
<1>6. R \in [1 .. Height -> Seq(Glyph)] /\ \A r \in 1 .. Height : Len(R[r]) = 0
  BY <1>1, <1>5, NoCharsIs
<1>7. Reach(0) = 1
  BY <1>4 DEF Reach
<1>8. f \in [1 .. 1 -> 1 .. 1] /\ f[1] = 1
  BY <1>2
<1>9. Thins(lines, R, 1, 0, f)
  <2>1. \A i \in 1 .. 1 : i = 1
    OBVIOUS
  <2>2. R[1] = lines[f[1]]
    BY <1>3, <1>4, <1>5, <1>8
  <2>3. 1 \in 1 .. 1 /\ ~(1 < 1) /\ 0 + 1 = 1
    OBVIOUS
  <2>4. QED BY <1>3, <1>8, <2>1, <2>2, <2>3, Zenon DEF Thins
<1>10. Told(lines, 0, 0, R, 0, f)
  <2>1. \A r \in 0 + 2 .. Height : r \in 1 .. Height
    OBVIOUS
  <2>2. \A r \in 0 + 2 .. Height : R[r] = NoChars
    BY <1>5, <2>1, Zenon
  <2>3. \A r \in 1 .. Height : Len(R[r]) <= Width
    BY <1>4, <1>6
  <2>4. 0 = Len(lines[Len(lines)])
    BY <1>3, NoCharsIs
  <2>5. ~(0 >= Height) /\ Len(lines) \in Nat \ {0} /\ \A r \in 1 .. Len(lines) : f[r] = r
    BY <1>3, <1>4, <1>8
  <2>6. QED BY <1>3, <1>4, <1>6, <1>7, <1>8, <1>9, <2>2, <2>3, <2>4, <2>5 DEF Told
<1>11. RowsAre(s, R)
  <2>1. ASSUME NEW r \in 1 .. Height, NEW i \in 1 .. Width
        PROVE  s.cell[CellAt(r, i)].char = IF i <= Len(R[r]) THEN R[r][i] ELSE Space
    <3>1. ~(i <= Len(R[r]))
      BY <1>6
    <3>2. s.cell[CellAt(r, i)].char = Space
      BY CellAtIs
    <3>3. QED BY <3>1, <3>2, Zenon
  <2>2. QED BY <2>1, Zenon DEF RowsAre
<1>12. QED BY <1>3, <1>10, <1>11, Zenon DEF Showing

LEMMA Cut ==
  ASSUME NEW T, NEW q \in Seq(T), NEW b \in 0 .. Len(q), NEW c \in b .. Len(q)
  PROVE  /\ SubSeq(q, b + 1, c) \in Seq(T) /\ SubSeq(q, c + 1, Len(q)) \in Seq(T)
         /\ SubSeq(q, b + 1, Len(q)) = SubSeq(q, b + 1, c) \o SubSeq(q, c + 1, Len(q))
<1>1. PICK n \in c .. Len(q) : n = Len(q)
  OBVIOUS
<1>2. PICK head : head = SubSeq(q, b + 1, c)
  OBVIOUS
<1>3. PICK rest : rest = SubSeq(q, c + 1, n)
  OBVIOUS
<1>4. PICK whole : whole = SubSeq(q, b + 1, n)
  OBVIOUS
<1>5. n \in Nat /\ b \in 0 .. n /\ c \in b .. n
  BY <1>1
<1>6. head \in Seq(T) /\ Len(head) = c - b /\ \A i \in 1 .. c - b : head[i] = q[b + i]
  BY <1>1, <1>2, <1>5
<1>7. rest \in Seq(T) /\ Len(rest) = n - c /\ \A i \in 1 .. n - c : rest[i] = q[c + i]
  BY <1>1, <1>3, <1>5
<1>8. whole \in Seq(T) /\ Len(whole) = n - b /\ \A i \in 1 .. n - b : whole[i] = q[b + i]
  BY <1>1, <1>4, <1>5
<1>9. PICK joined : joined = head \o rest
  OBVIOUS
<1>10. whole = joined
  <2>1. joined \in Seq(T) /\ Len(joined) = n - b
    <3>1. joined \in Seq(T) /\ Len(joined) = Len(head) + Len(rest)
      BY <1>6, <1>7, <1>9, ConcatProperties, Zenon
    <3>2. n - b = (c - b) + (n - c)
      BY <1>5
    <3>3. QED BY <1>6, <1>7, <3>1, <3>2, Zenon
  <2>2. ASSUME NEW i \in 1 .. n - b PROVE whole[i] = joined[i]
    <3>1. CASE i <= c - b
      <4>1. i \in 1 .. c - b /\ joined[i] = head[i]
        BY <1>5, <1>6, <1>7, <1>9, <3>1
      <4>2. QED BY <1>6, <1>8, <4>1, Zenon
    <3>2. CASE ~(i <= c - b)
      <4>1. i - (c - b) \in 1 .. n - c /\ c + (i - (c - b)) = b + i
        BY <1>5, <3>2
      <4>2. joined[i] = rest[i - (c - b)]
        BY <1>5, <1>6, <1>7, <1>9, <3>2, <4>1
      <4>3. QED BY <1>7, <1>8, <4>1, <4>2, Zenon
    <3>3. QED BY <3>1, <3>2
  <2>3. \A i \in 1 .. Len(whole) : whole[i] = joined[i]
    BY <1>8, <2>2, Zenon
  <2>4. QED BY <1>8, <2>1, <2>3, SeqEqual, Zenon
<1>11. QED BY <1>1, <1>2, <1>3, <1>4, <1>6, <1>7, <1>9, <1>10, Zenon

LEMMA SuffixOf ==
  ASSUME NEW T, NEW a \in Seq(T), NEW b \in Seq(T)
  PROVE  IsSuffix(b, a \o b) /\ Len(a \o b) >= Len(b)
<1>1. PICK n \in Nat, m \in Nat : n = Len(a) /\ m = Len(b)
  OBVIOUS
<1>2. PICK t : t = a \o b
  OBVIOUS
<1>3. t \in Seq(T) /\ Len(t) = n + m /\ \A i \in 1 .. m : t[n + i] = b[i]
  BY <1>1, <1>2
<1>4. PICK rb : rb = [i \in 1 .. m |-> b[(m - i) + 1]]
  OBVIOUS
<1>5. PICK rt : rt = [i \in 1 .. n + m |-> t[((n + m) - i) + 1]]
  OBVIOUS
<1>6. rb = Reverse(b) /\ rt = Reverse(t)
  BY <1>1, <1>3, <1>4, <1>5 DEF Reverse
<1>7. rb \in Seq(T) /\ Len(rb) = m /\ rt \in Seq(T) /\ Len(rt) = n + m
  <2>1. \A i \in 1 .. m : b[(m - i) + 1] \in T
    BY <1>1
  <2>2. \A i \in 1 .. n + m : t[((n + m) - i) + 1] \in T
    BY <1>3
  <2>3. QED BY <1>4, <1>5, <2>1, <2>2
<1>8. \A i \in 1 .. m : rb[i] = rt[i]
  <2>1. ASSUME NEW i \in 1 .. m PROVE rb[i] = rt[i]
    <3>1. i \in 1 .. n + m /\ (m - i) + 1 \in 1 .. m /\ n + ((m - i) + 1) = ((n + m) - i) + 1
      OBVIOUS
    <3>2. rb[i] = b[(m - i) + 1] /\ rt[i] = t[((n + m) - i) + 1]
      BY <1>4, <1>5, <3>1
    <3>3. QED BY <1>3, <3>1, <3>2
  <2>2. QED BY <2>1
<1>9. SubSeq(rb, 1, m) = SubSeq(rt, 1, m)
  <2>1. Len(SubSeq(rb, 1, m)) = m /\ Len(SubSeq(rt, 1, m)) = m
    BY <1>7
  <2>2. SubSeq(rb, 1, m) \in Seq(T) /\ SubSeq(rt, 1, m) \in Seq(T)
    BY <1>7
  <2>3. \A i \in 1 .. m : SubSeq(rb, 1, m)[i] = SubSeq(rt, 1, m)[i]
    BY <1>7, <1>8
  <2>4. QED BY <2>1, <2>2, <2>3, SeqEqual
<1>10. IsPrefix(rb, rt)
  BY <1>7, <1>9 DEF IsPrefix
<1>11. QED BY <1>1, <1>2, <1>3, <1>6, <1>10 DEF IsSuffix

\* The screen shows the last lines, and all that fit.
LEMMA LinesKept ==
  ASSUME NEW lines, NEW R, NEW x, NEW y, NEW k, NEW f, Told(lines, x, y, R, k, f)
  PROVE  /\ IsSuffix(NotBlank(R), NotBlank(lines))
         /\ Len(NotBlank(R)) >=
              Len(NotBlank(SubSeq(lines, IF Len(lines) > Height THEN Len(lines) - Height + 1 ELSE 1,
                                  Len(lines))))
         /\ Len(lines) <= Height => \A r \in DOMAIN lines : R[r] = lines[r]
<1> PICK T : T = Seq(Glyph)
  OBVIOUS
<1>1. PICK n \in Nat \ {0} : n = Len(lines)
  BY DEF Told
<1>2. /\ lines \in Seq(T) /\ R \in [1 .. Height -> T] /\ y \in Nat /\ k \in 0 .. n - 1
      /\ k = 0 \/ k + Height <= n
      /\ Thins(lines, R, Reach(y), k, f)
      /\ y < Height => \A r \in y + 2 .. Height : R[r] = NoChars
      /\ n <= Height => y = n - 1 /\ \A r \in 1 .. n : f[r] = r
  BY <1>1 DEF Told
<1>3. Height \in Nat /\ Height >= 2
  BY ScreenSize
<1>4. PICK m \in 1 .. Height : m = Reach(y)
  BY <1>2, <1>3 DEF Reach
<1>5. R \in Seq(T) /\ Len(R) = Height
  BY <1>2, <1>3
<1>6. PICK shown : shown = SubSeq(R, 1, m)
  OBVIOUS
<1>7. shown \in Seq(T) /\ Len(shown) = m /\ \A i \in 1 .. m : shown[i] = R[i]
  BY <1>5, <1>6
<1>8. Thins(lines, shown, m, k, f)
  BY <1>2, <1>4, <1>7, Zenon DEF Thins
<1>9. k \in 0 .. Len(lines)
  BY <1>1, <1>2
<1>10. NotBlank(shown) = NotBlank(SubSeq(lines, k + 1, n))
  BY <1>1, <1>2, <1>7, <1>8, <1>9, ThinsSame
<1>11. NotBlank(R) = NotBlank(shown)
  <2>1. \A j \in m + 1 .. Height : R[j] = NoChars
    <3>1. CASE y < Height
      <4>1. m = y + 1
        BY <1>4, <3>1 DEF Reach
      <4>2. \A j \in m + 1 .. Height : j \in y + 2 .. Height
        BY <1>2, <4>1
      <4>3. QED BY <1>2, <3>1, <4>2, Zenon
    <3>2. CASE ~(y < Height)
      <4>1. m = Height
        BY <1>4, <3>2 DEF Reach
      <4>2. \A j \in m + 1 .. Height : FALSE
        BY <1>3, <4>1
      <4>3. QED BY <4>2
    <3>3. QED BY <3>1, <3>2
  <2>2. \A j \in m + 1 .. Height : R[j] = <<>>
    BY <2>1, Zenon DEF NoChars
  <2>3. 0 \in 0 .. Len(R) /\ m \in 0 .. Len(R) /\ Height \in m .. Len(R) /\ 0 + 1 = 1
    BY <1>3, <1>5
  <2>4. NotBlank(SubSeq(R, 0 + 1, Height)) = NotBlank(SubSeq(R, 0 + 1, m))
    BY <1>5, <2>2, <2>3, BlankGap
  <2>5. SubSeq(R, 1, Height) = R
    BY <1>5, Copied!PrefixSteps
  <2>6. QED BY <1>6, <2>3, <2>4, <2>5, Zenon
<1>12. \A b \in 0 .. n : \A c \in b .. n :
         /\ SubSeq(lines, b + 1, c) \in Seq(T) /\ SubSeq(lines, c + 1, n) \in Seq(T)
         /\ SubSeq(lines, b + 1, n) = SubSeq(lines, b + 1, c) \o SubSeq(lines, c + 1, n)
  BY <1>1, <1>2, Cut
<1>13. IsSuffix(NotBlank(R), NotBlank(lines))
  <2>1. 0 \in 0 .. n /\ k \in 0 .. n /\ 0 + 1 = 1
    BY <1>2
  <2>2. PICK old \in Seq(T) : old = SubSeq(lines, 1, k)
    <3>1. SubSeq(lines, 0 + 1, k) \in Seq(T)
      BY <1>12, <2>1, Zenon
    <3>2. QED BY <2>1, <3>1, Zenon
  <2>3. PICK new \in Seq(T) : new = SubSeq(lines, k + 1, n)
    <3>1. SubSeq(lines, k + 1, n) \in Seq(T)
      BY <1>12, <2>1, Zenon
    <3>2. QED BY <3>1, Zenon
  <2>4. lines = old \o new
    <3>1. 0 \in 0 .. n /\ k \in 0 .. n /\ 0 + 1 = 1
      BY <1>2
    <3>2. SubSeq(lines, 0 + 1, n) = SubSeq(lines, 0 + 1, k) \o SubSeq(lines, k + 1, n)
      BY <1>12, <3>1, Zenon
    <3>3. SubSeq(lines, 1, n) = lines
      BY <1>1, <1>2, Copied!PrefixSteps
    <3>4. QED BY <2>2, <2>3, <3>1, <3>2, <3>3, Zenon
  <2>5. NotBlank(lines) = NotBlank(old) \o NotBlank(new)
    BY <2>4, NotBlankJoin, Zenon
  <2>6. NotBlank(old) \in Seq(T) /\ NotBlank(new) \in Seq(T)
    BY NotBlankType
  <2>7. IsSuffix(NotBlank(new), NotBlank(old) \o NotBlank(new))
    BY <2>6, SuffixOf, Zenon
  <2>8. QED BY <1>10, <1>11, <2>3, <2>5, <2>7, Zenon
<1>14. PICK c \in k .. n : c = IF n > Height THEN n - Height ELSE 0
  <2>1. CASE n > Height
    BY <1>2, <1>3, <2>1
  <2>2. CASE ~(n > Height)
    BY <1>2, <1>3, <2>2
  <2>3. QED BY <2>1, <2>2
<1>15. Len(NotBlank(R)) >= Len(NotBlank(SubSeq(lines, c + 1, n)))
  <2>1. k \in 0 .. n
    BY <1>2
  <2>2. /\ SubSeq(lines, k + 1, c) \in Seq(T) /\ SubSeq(lines, c + 1, n) \in Seq(T)
        /\ SubSeq(lines, k + 1, n) = SubSeq(lines, k + 1, c) \o SubSeq(lines, c + 1, n)
    BY <1>12, <2>1, Zenon
  <2>3. PICK old \in Seq(T) : old = SubSeq(lines, k + 1, c)
    BY <2>2, Zenon
  <2>4. PICK new \in Seq(T) : new = SubSeq(lines, c + 1, n)
    BY <2>2, Zenon
  <2>5. SubSeq(lines, k + 1, n) = old \o new
    BY <2>2, <2>3, <2>4, Zenon
  <2>6. NotBlank(R) = NotBlank(old) \o NotBlank(new)
    BY <1>10, <1>11, <2>5, NotBlankJoin, Zenon
  <2>7. NotBlank(old) \in Seq(T) /\ NotBlank(new) \in Seq(T)
    BY NotBlankType
  <2>8. Len(NotBlank(old) \o NotBlank(new)) >= Len(NotBlank(new))
    BY <2>7, SuffixOf, Zenon
  <2>9. QED BY <2>4, <2>6, <2>8, Zenon
<1>16. c + 1 = IF n > Height THEN n - Height + 1 ELSE 1
  BY <1>3, <1>14
<1>17. ASSUME n <= Height, NEW r \in DOMAIN lines PROVE R[r] = lines[r]
  <2>1. r \in 1 .. n
    BY <1>1, <1>2, LenProperties
  <2>2. m = n
    BY <1>2, <1>3, <1>4, <1>17 DEF Reach
  <2>3. f[r] = r
    BY <1>2, <1>17, <2>1
  <2>4. R[r] = lines[f[r]]
    BY <1>2, <1>4, <2>1, <2>2, Zenon DEF Thins
  <2>5. QED BY <2>3, <2>4, Zenon
<1>18. QED BY <1>1, <1>13, <1>15, <1>16, <1>17, Zenon

(***************************************************************************)
(* What is printed, as lines.                                              *)
(***************************************************************************)
LinesOf(done) == FoldLeft(Extended, << <<>> >>, done)

LEMMA LinesMore ==
  ASSUME NEW done \in Seq(Char), NEW c \in Char
  PROVE  /\ LinesOf(Append(done, c)) = Extended(LinesOf(done), c)
         /\ LinesOf(<<>>) = <<NoChars>>
<1>1. /\ Lined!FoldLeft(Extended, << <<>> >>, Append(done, c))
           = Extended(Lined!FoldLeft(Extended, << <<>> >>, done), c)
      /\ Lined!FoldLeft(Extended, << <<>> >>, <<>>) = << <<>> >>
  BY Lined!FoldAppend
<1>2. \A s : Lined!FoldLeft(Extended, << <<>> >>, s) = FoldLeft(Extended, << <<>> >>, s)
  BY DEF FoldLeft, MapThenFoldSet, Max, Lined!FoldLeft, Lined!MapThenFoldSet, Lined!Max
<1>3. \A s : Lined!FoldLeft(Extended, << <<>> >>, s) = LinesOf(s)
  BY <1>2, Zenon DEF LinesOf
<1>4. QED BY <1>1, <1>3, Zenon DEF NoChars

LEMMA LineEnded ==
  ASSUME NEW lines
  PROVE  Extended(lines, "LF") = Append(lines, NoChars)
<1>1. \A d : d = "LF" => Extended(lines, d) = Append(lines, <<>>)
  BY Zenon DEF Extended
<1>2. QED BY <1>1, Zenon DEF NoChars

LEMMA LastReplaced ==
  ASSUME NEW T, NEW q \in Seq(T), NEW a \in T, NEW b \in T
  PROVE  [Append(q, a) EXCEPT ![Len(q) + 1] = b] = Append(q, b)
<1>1. PICK n \in Nat : n = Len(q)
  OBVIOUS
<1>2. PICK p \in Seq(T) : p = Append(q, a)
  BY Longer
<1>3. PICK r \in Seq(T) : r = Append(q, b)
  BY Longer
<1>4. Len(p) = n + 1 /\ \A i \in 1 .. n : p[i] = q[i]
  BY <1>1, <1>2, Longer
<1>5. Len(r) = n + 1 /\ r[n + 1] = b /\ \A i \in 1 .. n : r[i] = q[i]
  BY <1>1, <1>3, Longer
<1>6. n + 1 \in 1 .. Len(p)
  BY <1>4
<1>7. PICK t : t = [p EXCEPT ![n + 1] = b]
  OBVIOUS
<1>8. /\ t \in Seq(T) /\ Len(t) = n + 1 /\ t[n + 1] = b
      /\ \A j \in 1 .. n + 1 : j # n + 1 => t[j] = p[j]
  BY <1>4, <1>6, <1>7, Replaced
<1>9. \A i \in 1 .. n + 1 : t[i] = r[i]
  <2>1. \A i \in 1 .. n + 1 : i = n + 1 \/ (i \in 1 .. n /\ i # n + 1)
    OBVIOUS
  <2>2. QED BY <1>4, <1>5, <1>8, <2>1, Zenon
<1>10. t = r
  BY <1>5, <1>8, <1>9, SeqEqual
<1>11. QED BY <1>1, <1>2, <1>3, <1>7, <1>10

\* A glyph opens a line of its own where the last one is full.
LEMMA ExtendedBy ==
  ASSUME NEW lines \in Seq(Seq(Glyph)), Len(lines) \in Nat \ {0}, NEW c \in Glyph
  PROVE  /\ Len(lines[Len(lines)]) # Width =>
              Extended(lines, c) = [lines EXCEPT ![Len(lines)] = Append(@, c)]
         /\ Len(lines[Len(lines)]) = Width =>
              Extended(lines, c) = Extended(Append(lines, NoChars), c)
<1>1. c # "LF"
  BY ScreenAssumption DEF Control
<1>3. ASSUME NEW q, Len(q[Len(q)]) # Width
      PROVE  Extended(q, c) = [q EXCEPT ![Len(q)] = Append(@, c)]
  BY <1>1, <1>3, Zenon DEF Extended, Last
<1>4. ASSUME Len(lines[Len(lines)]) = Width
      PROVE  Extended(lines, c) = Extended(Append(lines, NoChars), c)
  <2>1. Extended(lines, c) = Append(lines, <<c>>)
    BY <1>1, <1>4, Zenon DEF Extended, Last
  <2>2. PICK n \in Nat \ {0} : n = Len(lines)
    OBVIOUS
  <2>3. PICK line \in Seq(Glyph) : line = <<c>>
    <3>1. <<c>> \in Seq(Glyph)
      BY OneLine
    <3>2. QED BY <3>1, Zenon
  <2>4. PICK none \in Seq(Glyph) : none = NoChars /\ Len(none) = 0
    BY NoCharsIs, Zenon
  <2>5. PICK more \in Seq(Seq(Glyph)) : more = Append(lines, none)
    <3>1. Append(lines, none) \in Seq(Seq(Glyph))
      BY Longer
    <3>2. QED BY <3>1, Zenon
  <2>6. Len(more) = n + 1 /\ more[n + 1] = none
    BY <2>2, <2>5
  <2>7. Len(more[Len(more)]) # Width
    <3>1. more[Len(more)] = none
      BY <2>6, Zenon
    <3>2. Width # 0
      BY ScreenSize
    <3>3. QED BY <2>4, <3>1, <3>2
  <2>8. Extended(more, c) = [more EXCEPT ![Len(more)] = Append(@, c)]
    BY <1>3, <2>7
  <2>9. Append(none, c) = line
    <3>1. Append(<<>>, c) = <<c>>
      OBVIOUS
    <3>2. QED BY <2>3, <2>4, <3>1, Zenon DEF NoChars
  <2>10. [more EXCEPT ![Len(more)] = Append(@, c)] = [more EXCEPT ![n + 1] = line]
    BY <2>6, <2>9
  <2>11. [more EXCEPT ![n + 1] = line] = Append(lines, line)
    BY <2>2, <2>5, LastReplaced
  <2>12. QED BY <2>1, <2>3, <2>4, <2>5, <2>8, <2>10, <2>11, Zenon
<1>5. QED BY <1>3, <1>4

LEMMA ShowingType ==
  ASSUME NEW s, NEW lines, Showing(s, lines)
  PROVE  /\ OnScreen(s) /\ lines \in Seq(Seq(Glyph)) /\ Len(lines) \in Nat \ {0}
         /\ s.x = Len(lines[Len(lines)]) /\ s.x \in 0 .. Width /\ s.y \in Nat
<1>1. PICK R, k, f : Told(lines, s.x, s.y, R, k, f)
  BY Zenon DEF Showing
<1>2. OnScreen(s)
  BY Zenon DEF Showing
<1>3. QED BY <1>1, <1>2, Zenon DEF Told

\* s shows lines or, where c begins a line of its own, already that line.
Opened(s, lines, c) ==
  s.x < Width /\ \E more : Showing(s, more) /\ Extended(more, c) = Extended(lines, c)

LEMMA OpenedHere ==
  ASSUME NEW s, NEW lines, NEW c, Showing(s, lines), s.x < Width
  PROVE  Opened(s, lines, c)
BY Zenon DEF Opened

LEMMA OpenedBelow ==
  ASSUME NEW s, NEW lines, NEW c \in Glyph, Showing(s, lines), s.x = Width,
         NEW u, u = Return(s), NEW t, t = Down(u)
  PROVE  Opened(t, lines, c)
<1>1. Showing(t, Append(lines, NoChars)) /\ t.x = 0
  BY NewLineShows
<1>2. Extended(lines, c) = Extended(Append(lines, NoChars), c)
  BY ShowingType, ExtendedBy
<1>3. t.x < Width
  BY <1>1, ScreenSize
<1>4. QED BY <1>1, <1>2, <1>3, Zenon DEF Opened

LEMMA OpenedScrolled ==
  ASSUME NEW s, NEW lines, NEW c, Opened(s, lines, c), s.y >= Height, NEW t, OnScreen(t),
         t.x = s.x, t.y = Height - 1, ScrolledTo(s, t)
  PROVE  Opened(t, lines, c)
<1>1. PICK more : Showing(s, more) /\ Extended(more, c) = Extended(lines, c)
  BY Zenon DEF Opened
<1>2. Showing(t, more)
  BY <1>1, ScrollShows
<1>3. t.x < Width
  BY Zenon DEF Opened
<1>4. QED BY <1>1, <1>2, <1>3, Zenon DEF Opened

LEMMA GlyphOpened ==
  ASSUME NEW s, NEW lines, NEW c \in Glyph, Opened(s, lines, c), s.y < Height,
         NEW t, t = Advance(Store(s, c))
  PROVE  Showing(t, Extended(lines, c))
<1>1. PICK more : Showing(s, more) /\ Extended(more, c) = Extended(lines, c)
  BY Zenon DEF Opened
<1>2. s.x < Width
  BY Zenon DEF Opened
<1>3. Showing(t, [more EXCEPT ![Len(more)] = Append(@, c)])
  BY <1>1, <1>2, GlyphShows
<1>4. /\ more \in Seq(Seq(Glyph)) /\ Len(more) \in Nat \ {0}
      /\ s.x = Len(more[Len(more)]) /\ s.x \in 0 .. Width
  BY <1>1, ShowingType
<1>5. Len(more[Len(more)]) # Width
  BY <1>2, <1>4, ScreenSize
<1>6. Extended(more, c) = [more EXCEPT ![Len(more)] = Append(@, c)]
  BY <1>4, <1>5, ExtendedBy
<1>7. QED BY <1>1, <1>3, <1>6, Zenon

(***************************************************************************)
(* Text without control characters but newlines, while it is being put.    *)
(***************************************************************************)
Quiet == Plain /\ \A c \in Control \ {"LF"} : ~Contains(Printed, c)

\* The first r rows of s are those of u, one further down.
Moving(u, s, r) ==
  \A c \in Cell : s.cell[c] = IF c \div Width < r THEN u.cell[c + Width] ELSE u.cell[c]

\* Where the screen s stands at p when lines are behind it and t is to come: it shows
\* them, or what the next character has begun to make of them.
Stage(p, t, s, r, lines) ==
  /\ p \in {"serial_init", "idle", "hang", "putc", "switch"} => Showing(s, lines)
  /\ p = "down" => Head(t) = "LF" /\ \E u : Showing(u, lines) /\ s = Return(u)
  /\ p = "wrap" => Head(t) \in Glyph /\ \E u : Showing(u, lines) /\ u.x = Width /\ s = Return(u)
  /\ p \in {"fit", "store"} => Head(t) \in Glyph /\ OnScreen(s) /\ Opened(s, lines, Head(t))
  /\ p \in {"scroll", "pull", "bottom"} =>
       /\ t # <<>> /\ Head(t) \in Glyph /\ OnScreen(s)
       /\ \E u : /\ OnScreen(u) /\ Opened(u, lines, Head(t)) /\ u.y >= Height /\ s.x = u.x
                 /\ p = "scroll" => Moving(u, s, r)
                 /\ p # "scroll" => ScrolledTo(u, s)
  /\ p = "advance" => /\ Head(t) \in Glyph
                      /\ \E u : Opened(u, lines, Head(t)) /\ u.y < Height /\ s = Store(u, Head(t))
  /\ p = "hw" => t # <<>> /\ Showing(s, Extended(lines, Head(t)))
  /\ p # "home"

TextInv ==
  /\ row \in 0 .. Height - 1 /\ (pc \notin {"scroll", "fault"} => row = 0)
  /\ pc = "vga_init" => OnScreen(screen)
  /\ pc \in {"vga_init", "serial_init"} => Printed = <<>>
  /\ Quiet /\ pc \notin {"vga_init", "fault"} =>
       \E done \in Seq(Char) : /\ Printed = done \o text
                               /\ Stage(pc, text, screen, row, LinesOf(done))

LEMMA QuietChar ==
  ASSUME ConsoleInv, Quiet, text # <<>>
  PROVE  Head(text) \in Glyph \cup {"LF"}
<1>1. PICK c \in Char : c = Head(text)
  <2>1. text \in Seq(Char)
    BY DEF ConsoleInv, CallInv
  <2>2. Head(text) \in Char
    BY <2>1, HeadTailProperties
  <2>3. QED BY <2>2
<1>2. Contains(Printed, c)
  BY <1>1, TextPrinted DEF ConsoleInv
<1>3. c \notin Control \ {"LF"}
  BY <1>2 DEF Quiet
<1>4. QED BY <1>1, <1>3 DEF Char, Control

\* A step within a character.
LEMMA StepTells ==
  ASSUME TextInv, UNCHANGED <<text, calls>>,
         pc \notin {"vga_init", "fault"}, pc' \notin {"vga_init", "serial_init", "fault"},
         row' \in 0 .. Height - 1, pc' # "scroll" => row' = 0,
         \A lines : Quiet /\ Stage(pc, text, screen, row, lines)
                      => Stage(pc', text, screen', row', lines)
  PROVE  TextInv'
<1>1. Printed' = Printed
  BY DEF Printed
<1>2. Quiet' => Quiet
  BY <1>1 DEF Quiet, Plain
<1>3. ASSUME Quiet'
      PROVE  \E done \in Seq(Char) : /\ Printed' = done \o text'
                                     /\ Stage(pc', text', screen', row', LinesOf(done))
  <2>1. PICK done \in Seq(Char) : /\ Printed = done \o text
                                  /\ Stage(pc, text, screen, row, LinesOf(done))
    BY <1>2, <1>3, Zenon DEF TextInv
  <2>2. Stage(pc', text, screen', row', LinesOf(done))
    BY <1>2, <1>3, <2>1
  <2>3. QED BY <1>1, <2>1, <2>2
<1>4. QED BY <1>3 DEF TextInv

LEMMA InitTells == Init => TextInv
<1> SUFFICES ASSUME Init PROVE TextInv
  OBVIOUS
<1>1. OnScreen(screen)
  BY InitShows DEF ShownInv
<1>2. Printed = <<>>
  <2>1. PICK q : q = [i \in DOMAIN calls |-> calls[i].text]
    OBVIOUS
  <2>2. q = <<>>
    BY <2>1 DEF Init
  <2>3. QED BY <2>1, <2>2 DEF Printed, FlattenSeq
<1>3. row = 0 /\ pc = "vga_init" /\ 0 \in 0 .. Height - 1
  BY ScreenSize DEF Init
<1>4. QED BY <1>1, <1>2, <1>3 DEF TextInv

LEMMA StartTells ==
  ASSUME ConsoleInv, TextInv
  PROVE  /\ vga_init => TextInv'
         /\ serial_init => TextInv'
         /\ serial_putc => TextInv'
         /\ drain \/ UNCHANGED vars => TextInv'
         /\ fault => TextInv'
<1>1. ASSUME vga_init PROVE TextInv'
  <2>1. OnScreen(screen) /\ Printed = <<>> /\ pc = "vga_init" /\ text = <<>>
    BY <1>1 DEF TextInv, vga_init, ConsoleInv, CallInv, Located
  <2>2. PICK blank : blank = Blanked(screen)
    OBVIOUS
  <2>3. OnScreen(blank) /\ \A c \in Cell : blank.cell[c].char = Space
    <3>1. OnScreen(blank)
      BY <2>1, <2>2, KeepsCells
    <3>2. blank.cell = [i \in Cell |-> Shown(" ", screen.colour)]
      BY <2>1, <2>2 DEF Blanked, OnScreen, ScreenOK
    <3>3. Shown(" ", screen.colour).char = Space
      BY DEF Shown, Space
    <3>4. QED BY <3>1, <3>2, <3>3
  <2>4. PICK top : top = Home(blank)
    OBVIOUS
  <2>5. OnScreen(top) /\ top.cell = blank.cell /\ top.x = 0 /\ top.y = 0
    BY <2>3, <2>4, KeepsCells DEF Home, OnScreen, ScreenOK
  <2>6. screen' = [top EXCEPT !.colour = White]
    BY <1>1, <2>2, <2>4 DEF vga_init
  <2>7. /\ OnScreen(screen') /\ screen'.cell = blank.cell /\ screen'.x = 0 /\ screen'.y = 0
    BY <2>5, <2>6 DEF OnScreen, ScreenOK
  <2>8. Showing(screen', <<NoChars>>)
    BY <2>3, <2>7, EmptyShows
  <2>9. LinesOf(<<>>) = <<NoChars>>
    <3>1. <<>> \in Seq(Char) /\ "LF" \in Char
      BY DEF Char, Control
    <3>2. QED BY <3>1, LinesMore, Zenon
  <2>10. pc' = "serial_init" /\ text' = text /\ row' = row /\ calls' = calls
    BY <1>1 DEF vga_init, call
  <2>11. Stage(pc', text', screen', row', LinesOf(<<>>))
    BY <2>8, <2>9, <2>10 DEF Stage
  <2>12. Printed' = Printed
    BY <2>10 DEF Printed
  <2>13. <<>> \in Seq(Char) /\ <<>> = <<>> \o <<>>
    OBVIOUS
  <2>14. row' \in 0 .. Height - 1 /\ row' = 0
    BY <2>1, <2>10 DEF TextInv
  <2>15. \E done \in Seq(Char) : /\ Printed' = done \o text'
                                 /\ Stage(pc', text', screen', row', LinesOf(done))
    BY <2>1, <2>10, <2>11, <2>12, <2>13
  <2>16. QED BY <2>1, <2>10, <2>12, <2>14, <2>15 DEF TextInv
<1>2. ASSUME serial_init \/ serial_putc PROVE TextInv'
  <2>1. /\ UNCHANGED <<screen, text, calls, row>>
        /\ (pc = "serial_init" /\ pc' = "idle") \/ (pc = "putc" /\ pc' = "switch")
    BY <1>2 DEF serial_init, serial_putc, call
  <2>2. row' \in 0 .. Height - 1 /\ row' = 0
    BY <2>1 DEF TextInv
  <2>3. \A lines : Stage(pc, text, screen, row, lines) => Stage(pc', text, screen', row', lines)
    BY <2>1 DEF Stage
  <2>4. QED BY <2>1, <2>2, <2>3, StepTells
<1>3. ASSUME drain \/ UNCHANGED vars PROVE TextInv'
  <2>1. UNCHANGED <<screen, pc, text, row, calls>>
    BY <1>3 DEF drain, vars, call
  <2>2. Printed' = Printed /\ (Quiet' <=> Quiet)
    BY <2>1 DEF Printed, Quiet, Plain
  <2>3. QED BY <2>1, <2>2 DEF TextInv
<1>4. ASSUME fault PROVE TextInv'
  <2>1. pc' = "fault" /\ row' = row
    BY <1>4 DEF fault, call
  <2>2. QED BY <2>1 DEF TextInv
<1>5. QED BY <1>1, <1>2, <1>3, <1>4

\* The first statements of vga_putc: newline, wrap, or nothing.
LEMMA SwitchTells ==
  ASSUME ConsoleInv, TextInv
  PROVE  /\ switch => TextInv'
         /\ down => TextInv'
         /\ wrap => TextInv'
         /\ fit => TextInv'
<1>1. 0 \in 0 .. Height - 1
  BY ScreenSize
<1>2. ASSUME switch PROVE TextInv'
  <2>1. /\ pc = "switch" /\ text # <<>> /\ UNCHANGED <<text, calls, row>> /\ row = 0
        /\ pc' \in {"down", "hw", "wrap", "fit"}
    BY <1>2 DEF switch, Step, call, ConsoleInv, CallInv, Located, TextInv
  <2>2. ASSUME NEW lines, Quiet, Stage(pc, text, screen, row, lines)
        PROVE  Stage(pc', text, screen', row', lines)
    <3>1. Showing(screen, lines)
      BY <2>1, <2>2 DEF Stage
    <3>2. PICK c : c = Head(text)
      OBVIOUS
    <3>3. c \in Glyph \/ c = "LF"
      BY <2>1, <2>2, <3>2, QuietChar
    <3>4. c # "CR" /\ c # "HT" /\ c # "BS"
      BY <3>3, ScreenAssumption DEF Control
    <3>5. OnScreen(screen) /\ screen.x \in 0 .. Width
      BY <3>1, ShowingType
    <3>6. CASE c = "LF" /\ Step("switch", Return(screen), "down")
      <4>1. pc' = "down" /\ screen' = Return(screen)
        BY <3>6 DEF Step
      <4>2. QED BY <3>1, <3>2, <3>6, <4>1 DEF Stage
    <3>7. CASE c \in Glyph /\ AtEdge(screen) /\ Step("switch", Return(screen), "wrap")
      <4>1. pc' = "wrap" /\ screen' = Return(screen)
        BY <3>7 DEF Step
      <4>2. screen.x = Width
        BY <3>5, <3>7, ScreenSize DEF AtEdge
      <4>3. QED BY <3>1, <3>2, <3>7, <4>1, <4>2 DEF Stage
    <3>8. CASE c \in Glyph /\ ~AtEdge(screen) /\ Step("switch", screen, "fit")
      <4>1. pc' = "fit" /\ screen' = screen
        BY <3>8 DEF Step
      <4>2. screen.x < Width
        BY <3>5, <3>8, ScreenSize DEF AtEdge
      <4>3. Opened(screen, lines, c)
        BY <3>1, <4>2, OpenedHere
      <4>4. QED BY <3>2, <3>5, <3>8, <4>1, <4>3 DEF Stage
    <3>9. QED BY <1>2, <3>2, <3>4, <3>6, <3>7, <3>8 DEF switch, char
  <2>3. QED BY <1>1, <2>1, <2>2, StepTells
<1>3. ASSUME down PROVE TextInv'
  <2>1. /\ pc = "down" /\ pc' = "hw" /\ text # <<>> /\ UNCHANGED <<text, calls, row>> /\ row = 0
        /\ screen' = Down(screen)
    BY <1>3 DEF down, Step, call, ConsoleInv, CallInv, Located, TextInv
  <2>2. ASSUME NEW lines, Stage(pc, text, screen, row, lines)
        PROVE  Stage(pc', text, screen', row', lines)
    <3>1. PICK u : Showing(u, lines) /\ screen = Return(u)
      BY <2>1, <2>2 DEF Stage
    <3>2. Head(text) = "LF"
      BY <2>1, <2>2 DEF Stage
    <3>3. Showing(screen', Append(lines, NoChars))
      BY <2>1, <3>1, NewLineShows
    <3>4. Extended(lines, "LF") = Append(lines, NoChars)
      BY LineEnded
    <3>5. Showing(screen', Extended(lines, Head(text)))
      BY <3>2, <3>3, <3>4
    <3>6. QED BY <2>1, <3>5 DEF Stage
  <2>3. QED BY <1>1, <2>1, <2>2, StepTells
<1>4. ASSUME wrap PROVE TextInv'
  <2>1. /\ pc = "wrap" /\ pc' = "fit" /\ UNCHANGED <<text, calls, row>> /\ row = 0
        /\ screen' = Down(screen)
    BY <1>4 DEF wrap, Step, call, TextInv
  <2>2. ASSUME NEW lines, Stage(pc, text, screen, row, lines)
        PROVE  Stage(pc', text, screen', row', lines)
    <3>1. PICK u : Showing(u, lines) /\ u.x = Width /\ screen = Return(u)
      BY <2>1, <2>2 DEF Stage
    <3>2. PICK c \in Glyph : c = Head(text)
      BY <2>1, <2>2 DEF Stage
    <3>3. Opened(screen', lines, c)
      BY <2>1, <3>1, OpenedBelow
    <3>4. OnScreen(screen')
      BY <3>3, ShowingType DEF Opened
    <3>5. QED BY <2>1, <3>2, <3>3, <3>4 DEF Stage
  <2>3. QED BY <1>1, <2>1, <2>2, StepTells
<1>5. ASSUME fit PROVE TextInv'
  <2>1. /\ pc = "fit" /\ pc' = (IF Below(screen) THEN "scroll" ELSE "store") /\ text # <<>>
        /\ UNCHANGED <<screen, text, calls, row>> /\ row = 0
    BY <1>5 DEF fit, Step, call, ConsoleInv, CallInv, Located, TextInv
  <2>2. ASSUME NEW lines, Stage(pc, text, screen, row, lines)
        PROVE  Stage(pc', text, screen', row', lines)
    <3>1. Head(text) \in Glyph /\ OnScreen(screen) /\ Opened(screen, lines, Head(text))
      BY <2>1, <2>2 DEF Stage
    <3>2. CASE Below(screen)
      <4>1. pc' = "scroll" /\ screen.y >= Height
        BY <2>1, <3>2 DEF Below
      <4>2. Moving(screen, screen, 0)
        <5>1. \A c \in Cell : ~(c \div Width < 0)
          BY RowBelow, ScreenSize
        <5>2. QED BY <5>1 DEF Moving
      <4>3. QED BY <2>1, <3>1, <4>1, <4>2 DEF Stage
    <3>3. CASE ~Below(screen)
      BY <2>1, <3>1, <3>3 DEF Stage
    <3>4. QED BY <3>2, <3>3
  <2>3. pc' \in {"scroll", "store"}
    BY <2>1
  <2>4. QED BY <1>1, <2>1, <2>2, <2>3, StepTells
<1>6. QED BY <1>2, <1>3, <1>4, <1>5

\* vga_scroll_up in vga_putc, one row after the other.
LEMMA ScrollTells ==
  ASSUME ConsoleInv, TextInv
  PROVE  /\ scroll => TextInv'
         /\ scroll_last => TextInv'
         /\ pull => TextInv'
         /\ bottom => TextInv'
<1>1. 0 \in 0 .. Height - 1 /\ row \in 0 .. Height - 1
  BY ScreenSize DEF TextInv
<1>2. ASSUME scroll PROVE TextInv'
  <2>1. /\ pc = "scroll" /\ pc' = "scroll" /\ UNCHANGED <<text, calls>> /\ row < Height - 1
        /\ row' = row + 1 /\ screen' = CopyRow(screen, row)
    BY <1>2 DEF scroll, RowAt
  <2>2. ASSUME NEW lines, Stage(pc, text, screen, row, lines)
        PROVE  Stage(pc', text, screen', row', lines)
    <3>1. text # <<>> /\ Head(text) \in Glyph /\ OnScreen(screen)
      BY <2>1, <2>2 DEF Stage
    <3>2. PICK u : /\ OnScreen(u) /\ Opened(u, lines, Head(text)) /\ u.y >= Height
                   /\ screen.x = u.x /\ Moving(u, screen, row)
      BY <2>1, <2>2 DEF Stage
    <3>3. OnScreen(screen') /\ screen'.x = screen.x
      BY <2>1, <3>1, KeepsCells, ClearedOK DEF OnScreen
    <3>4. PICK new : new = [c \in Cell |-> IF c \div Width = row THEN screen.cell[c + Width]
                                           ELSE screen.cell[c]]
      OBVIOUS
    <3>5. screen'.cell = new
      BY <2>1, <3>1, <3>4 DEF CopyRow, OnScreen, ScreenOK
    <3>6. ASSUME NEW c \in Cell
          PROVE  new[c] = IF c \div Width < row + 1 THEN u.cell[c + Width] ELSE u.cell[c]
      <4>1. PICK q \in Nat : q = c \div Width
        BY RowBelow
      <4>2. CASE q = row
        <5>1. c + Width \in Cell /\ (c + Width) \div Width = q + 1
          BY <2>1, <4>1, <4>2, RowBelow
        <5>2. screen.cell[c + Width] = u.cell[c + Width]
          <6>1. ~(q + 1 < row)
            BY <4>2
          <6>2. QED BY <3>2, <5>1, <6>1, Zenon DEF Moving
        <5>3. q < row + 1
          BY <4>2
        <5>4. QED BY <3>4, <4>1, <4>2, <5>2, <5>3, Zenon
      <4>3. CASE q # row
        <5>1. new[c] = screen.cell[c]
          BY <3>4, <4>1, <4>3, Zenon
        <5>2. q < row <=> q < row + 1
          BY <1>1, <4>3
        <5>3. screen.cell[c] = IF q < row THEN u.cell[c + Width] ELSE u.cell[c]
          BY <3>2, <4>1, Zenon DEF Moving
        <5>4. QED BY <4>1, <5>1, <5>2, <5>3, Zenon
      <4>4. QED BY <4>2, <4>3
    <3>7. Moving(u, screen', row')
      BY <2>1, <3>5, <3>6, Zenon DEF Moving
    <3>8. screen'.x = u.x
      BY <3>2, <3>3
    <3>9. QED BY <2>1, <3>1, <3>2, <3>3, <3>7, <3>8 DEF Stage
  <2>3. row' \in 0 .. Height - 1
    BY <1>1, <2>1, ScreenSize
  <2>4. QED BY <2>1, <2>2, <2>3, StepTells
<1>3. ASSUME scroll_last PROVE TextInv'
  <2>1. /\ pc = "scroll" /\ pc' = "pull" /\ UNCHANGED <<text, calls>> /\ row = Height - 1
        /\ row' = 0 /\ screen' = ClearLast(screen)
    BY <1>3 DEF scroll_last
  <2>2. ASSUME NEW lines, Stage(pc, text, screen, row, lines)
        PROVE  Stage(pc', text, screen', row', lines)
    <3>1. text # <<>> /\ Head(text) \in Glyph /\ OnScreen(screen)
      BY <2>1, <2>2 DEF Stage
    <3>2. PICK u : /\ OnScreen(u) /\ Opened(u, lines, Head(text)) /\ u.y >= Height
                   /\ screen.x = u.x /\ Moving(u, screen, row)
      BY <2>1, <2>2 DEF Stage
    <3>3. OnScreen(screen') /\ screen'.x = screen.x
      BY <2>1, <3>1, KeepsCells, ClearedOK DEF OnScreen
    <3>4. PICK new : new = [c \in Cell |-> IF c \div Width = Height - 1
                                           THEN Shown(" ", screen.colour) ELSE screen.cell[c]]
      OBVIOUS
    <3>5. screen'.cell = new
      BY <2>1, <3>1, <3>4 DEF ClearLast, OnScreen, ScreenOK
    <3>6. ASSUME NEW c \in Cell
          PROVE  new[c].char = IF c \div Width < Height - 1 THEN u.cell[c + Width].char ELSE Space
      <4>1. c \div Width \in 0 .. Height - 1
        BY RowBelow
      <4>2. CASE c \div Width = Height - 1
        <5>1. ~(c \div Width < Height - 1)
          BY <4>1, <4>2, ScreenSize
        <5>2. new[c] = Shown(" ", screen.colour)
          BY <3>4, <4>2, Zenon
        <5>3. Shown(" ", screen.colour).char = Space
          BY DEF Shown, Space
        <5>4. QED BY <5>1, <5>2, <5>3, Zenon
      <4>3. CASE c \div Width # Height - 1
        <5>1. c \div Width < Height - 1
          BY <4>1, <4>3, ScreenSize
        <5>2. new[c] = screen.cell[c]
          BY <3>4, <4>3, Zenon
        <5>3. screen.cell[c] = u.cell[c + Width]
          BY <2>1, <3>2, <5>1, Zenon DEF Moving
        <5>4. QED BY <5>1, <5>2, <5>3, Zenon
      <4>4. QED BY <4>2, <4>3
    <3>7. ScrolledTo(u, screen')
      BY <3>5, <3>6, Zenon DEF ScrolledTo
    <3>8. screen'.x = u.x
      BY <3>2, <3>3
    <3>9. QED BY <2>1, <3>1, <3>2, <3>3, <3>7, <3>8 DEF Stage
  <2>3. QED BY <1>1, <2>1, <2>2, StepTells
<1>4. ASSUME pull PROVE TextInv'
  <2>1. /\ pc = "pull" /\ pc' = (IF text # <<>> THEN "bottom" ELSE "idle")
        /\ UNCHANGED <<text, calls, row>> /\ row = 0 /\ screen' = PullCursor(screen)
    BY <1>4 DEF pull, Step, call, InPutc, TextInv
  <2>2. ASSUME NEW lines, Stage(pc, text, screen, row, lines)
        PROVE  Stage(pc', text, screen', row', lines)
    <3>1. text # <<>> /\ Head(text) \in Glyph /\ OnScreen(screen)
      BY <2>1, <2>2 DEF Stage
    <3>2. PICK u : /\ OnScreen(u) /\ Opened(u, lines, Head(text)) /\ u.y >= Height
                   /\ screen.x = u.x /\ ScrolledTo(u, screen)
      BY <2>1, <2>2 DEF Stage
    <3>3. OnScreen(screen') /\ screen'.x = screen.x
      BY <2>1, <3>1, KeepsCells, MovesOK DEF OnScreen
    <3>4. screen'.cell = screen.cell
      BY <2>1, <3>1 DEF PullCursor, OnScreen, ScreenOK
    <3>5. ScrolledTo(u, screen')
      BY <3>2, <3>4 DEF ScrolledTo
    <3>6. screen'.x = u.x /\ pc' = "bottom"
      BY <2>1, <3>1, <3>2, <3>3
    <3>7. QED BY <3>1, <3>2, <3>3, <3>5, <3>6 DEF Stage
  <2>3. pc' \in {"bottom", "idle"}
    BY <2>1
  <2>4. QED BY <1>1, <2>1, <2>2, <2>3, StepTells
<1>5. ASSUME bottom PROVE TextInv'
  <2>1. /\ pc = "bottom" /\ pc' = "store" /\ UNCHANGED <<text, calls, row>> /\ row = 0
        /\ screen' = Bottom(screen)
    BY <1>5 DEF bottom, Step, call, TextInv
  <2>2. ASSUME NEW lines, Stage(pc, text, screen, row, lines)
        PROVE  Stage(pc', text, screen', row', lines)
    <3>1. text # <<>> /\ OnScreen(screen)
      BY <2>1, <2>2 DEF Stage
    <3>2. PICK c \in Glyph : c = Head(text)
      BY <2>1, <2>2 DEF Stage
    <3>3. PICK u : /\ OnScreen(u) /\ Opened(u, lines, c) /\ u.y >= Height
                   /\ screen.x = u.x /\ ScrolledTo(u, screen)
      BY <2>1, <2>2, <3>2 DEF Stage
    <3>4. OnScreen(screen') /\ screen'.x = screen.x /\ screen'.y = Height - 1
      BY <2>1, <3>1, KeepsCells, MovesOK DEF OnScreen
    <3>5. screen'.cell = screen.cell
      BY <2>1, <3>1 DEF Bottom, OnScreen, ScreenOK
    <3>6. ScrolledTo(u, screen')
      BY <3>3, <3>5 DEF ScrolledTo
    <3>7. Opened(screen', lines, c)
      BY <3>3, <3>4, <3>6, OpenedScrolled
    <3>8. QED BY <2>1, <3>2, <3>4, <3>7 DEF Stage
  <2>3. QED BY <1>1, <2>1, <2>2, StepTells
<1>6. QED BY <1>2, <1>3, <1>4, <1>5

\* The store, the cursor's step and the end of the character.
LEMMA StoreTells ==
  ASSUME ConsoleInv, TextInv
  PROVE  /\ store => TextInv'
         /\ advance => TextInv'
         /\ home => TextInv'
         /\ vga_set_hw_cursor => TextInv'
<1>1. 0 \in 0 .. Height - 1
  BY ScreenSize
<1>2. ASSUME store PROVE TextInv'
  <2>1. /\ pc = "store" /\ pc' = "advance" /\ UNCHANGED <<text, calls, row>> /\ row = 0
        /\ screen' = Store(screen, Head(text)) /\ screen.y < Height
    BY <1>2 DEF store, Step, call, char, TextInv, ConsoleInv, ScreenInv, Placed
  <2>2. ASSUME NEW lines, Stage(pc, text, screen, row, lines)
        PROVE  Stage(pc', text, screen', row', lines)
    BY <2>1, <2>2 DEF Stage
  <2>3. QED BY <1>1, <2>1, <2>2, StepTells
<1>3. ASSUME advance PROVE TextInv'
  <2>1. /\ pc = "advance" /\ pc' = "hw" /\ UNCHANGED <<text, calls, row>> /\ row = 0
        /\ screen' = Advance(screen) /\ text # <<>>
    BY <1>3 DEF advance, Step, call, TextInv, ConsoleInv, CallInv, Located
  <2>2. ASSUME NEW lines, Stage(pc, text, screen, row, lines)
        PROVE  Stage(pc', text, screen', row', lines)
    <3>1. PICK c \in Glyph : c = Head(text)
      BY <2>1, <2>2 DEF Stage
    <3>2. PICK u : Opened(u, lines, c) /\ u.y < Height /\ screen = Store(u, c)
      BY <2>1, <2>2, <3>1 DEF Stage
    <3>3. Showing(screen', Extended(lines, c))
      BY <2>1, <3>2, GlyphOpened
    <3>4. QED BY <2>1, <3>1, <3>3 DEF Stage
  <2>3. QED BY <1>1, <2>1, <2>2, StepTells
<1>4. ASSUME home PROVE TextInv'
  <2>1. /\ pc = "home" /\ pc' = "hw" /\ UNCHANGED <<text, calls, row>> /\ row = 0
    BY <1>4 DEF home, Step, call, TextInv
  <2>2. ASSUME NEW lines, Stage(pc, text, screen, row, lines)
        PROVE  Stage(pc', text, screen', row', lines)
    BY <2>1, <2>2 DEF Stage
  <2>3. QED BY <1>1, <2>1, <2>2, StepTells
<1>5. ASSUME vga_set_hw_cursor PROVE TextInv'
  <2>1. /\ pc = "hw" /\ UNCHANGED <<screen, row, calls>> /\ row = 0
        /\ text' = IF text # <<>> THEN Tail(text) ELSE <<>>
        /\ pc' = IF Len(text) > 1 THEN "putc" ELSE after
    BY <1>5 DEF vga_set_hw_cursor, InPutc, TextInv
  <2>2. text \in Seq(Char) /\ after \in {"idle", "hang"}
    BY DEF ConsoleInv, CallInv
  <2>3. pc' \in {"putc", "idle", "hang"}
    BY <2>1, <2>2
  <2>4. Printed' = Printed /\ (Quiet' <=> Quiet)
    BY <2>1 DEF Printed, Quiet, Plain
  <2>5. ASSUME Quiet
        PROVE  \E done \in Seq(Char) : /\ Printed = done \o text'
                                       /\ Stage(pc', text', screen', row', LinesOf(done))
    <3>1. PICK done \in Seq(Char) : /\ Printed = done \o text
                                    /\ Stage(pc, text, screen, row, LinesOf(done))
      BY <2>1, <2>5 DEF TextInv
    <3>2. text # <<>> /\ Showing(screen, Extended(LinesOf(done), Head(text)))
      BY <2>1, <3>1 DEF Stage
    <3>3. PICK c \in Char, rest \in Seq(Char) : c = Head(text) /\ rest = Tail(text)
      BY <2>2, <3>2, HeadTailProperties
    <3>4. text = <<c>> \o rest
      BY <2>2, <3>2, <3>3
    <3>5. PICK more \in Seq(Char) : more = Append(done, c)
      <4>1. Append(done, c) \in Seq(Char)
        BY Longer
      <4>2. QED BY <4>1, Zenon
    <3>6. Printed = more \o rest
      <4>1. done \o (<<c>> \o rest) = Append(done, c) \o rest
        OBVIOUS
      <4>2. QED BY <3>1, <3>4, <3>5, <4>1, Zenon
    <3>7. LinesOf(more) = Extended(LinesOf(done), c)
      BY <3>5, LinesMore
    <3>8. Showing(screen', LinesOf(more))
      BY <2>1, <3>2, <3>3, <3>7, Zenon
    <3>9. Stage(pc', text', screen', row', LinesOf(more))
      BY <2>3, <3>8 DEF Stage
    <3>10. text' = rest
      BY <2>1, <3>2, <3>3
    <3>11. QED BY <3>6, <3>9, <3>10
  <2>6. QED BY <1>1, <2>1, <2>3, <2>4, <2>5 DEF TextInv
<1>6. QED BY <1>2, <1>3, <1>4, <1>5

\* A call begins: it only adds text.
LEMMA QuietBefore ==
  ASSUME ConsoleInv, NEW op \in Ops, NEW printed \in Seq(Char), Begin(op, printed), Quiet'
  PROVE  /\ Quiet /\ op \in {"puts", "set_color", "panic"}
         /\ Printed \in Seq(Char) /\ Printed' = Printed \o printed
<1>1. calls \in Seq(CallRecord) /\ calls' = Append(calls, Call(op, printed))
  BY DEF ConsoleInv, CallInv, Begin
<1>2. Printed \in Seq(Char) /\ Printed' = Printed \o printed
  BY <1>1, PrintedMore
<1>3. \A c \in Control \ {"LF"} : ~Contains(Printed, c)
  <2>1. ASSUME NEW c \in Control \ {"LF"}, Contains(Printed, c) PROVE FALSE
    <3>1. Contains(Printed', c)
      BY <1>2, <2>1, ContainsAppend
    <3>2. QED BY <3>1 DEF Quiet
  <2>2. QED BY <2>1
<1>4. PICK r : r = Call(op, printed)
  OBVIOUS
<1>5. r \in CallRecord /\ r.op = op
  BY <1>4 DEF Call, CallRecord
<1>6. PICK n \in Nat : n = Len(calls)
  BY <1>1
<1>7. /\ DOMAIN calls = 1 .. n /\ DOMAIN calls' = 1 .. n + 1 /\ calls'[n + 1] = r
      /\ \A i \in 1 .. n : calls'[i] = calls[i]
  BY <1>1, <1>4, <1>5, <1>6
<1>8. \A i \in 1 .. n + 1 : calls'[i].op \in {"puts", "set_color", "panic"}
  BY <1>7 DEF Quiet, Plain
<1>9. op \in {"puts", "set_color", "panic"}
  BY <1>5, <1>7, <1>8
<1>10. Plain
  BY <1>7, <1>8 DEF Plain
<1>11. QED BY <1>2, <1>3, <1>9, <1>10 DEF Quiet

LEMMA CallsTell ==
  ASSUME ConsoleInv, TextInv
  PROVE  /\ (\E printed \in Texts : vga_puts_call(printed)) => TextInv'
         /\ (\E printed \in Panics : panic(printed)) => TextInv'
         /\ vga_clear => TextInv'
         /\ vga_scroll_up_call => TextInv'
         /\ (\E position \in Positions : vga_set_cursor(position)) => TextInv'
         /\ (\E colour \in Colour : vga_set_color(colour)) => TextInv'
<1>1. ASSUME NEW op \in Ops, NEW printed \in Seq(Char), Begin(op, printed),
             pc' \in {"putc", "idle", "home", "scroll", "hw"},
             op \in {"puts", "set_color", "panic"} =>
               /\ pc' \in {"putc", "idle"}
               /\ \A lines : Showing(screen, lines) => Showing(screen', lines)
      PROVE  TextInv'
  <2>1. pc = "idle" /\ text = <<>> /\ text' = printed /\ row' = 0
    BY <1>1 DEF Begin, ConsoleInv, CallInv, Located
  <2>2. ASSUME Quiet'
        PROVE  \E done \in Seq(Char) : /\ Printed' = done \o text'
                                       /\ Stage(pc', text', screen', row', LinesOf(done))
    <3>1. /\ Quiet /\ op \in {"puts", "set_color", "panic"}
          /\ Printed \in Seq(Char) /\ Printed' = Printed \o printed
      BY <1>1, <2>2, QuietBefore
    <3>2. PICK done \in Seq(Char) : /\ Printed = done \o text
                                    /\ Stage(pc, text, screen, row, LinesOf(done))
      BY <2>1, <3>1 DEF TextInv
    <3>3. Printed = done
      BY <2>1, <3>2
    <3>4. Showing(screen, LinesOf(done))
      BY <2>1, <3>2 DEF Stage
    <3>5. Showing(screen', LinesOf(done)) /\ pc' \in {"putc", "idle"}
      BY <1>1, <3>1, <3>4
    <3>6. Stage(pc', text', screen', row', LinesOf(done))
      BY <3>5 DEF Stage
    <3>7. QED BY <2>1, <3>1, <3>2, <3>3, <3>6
  <2>3. 0 \in 0 .. Height - 1
    BY ScreenSize
  <2>4. QED BY <1>1, <2>1, <2>2, <2>3 DEF TextInv
<1>2. <<>> \in Seq(Char) /\ \A printed \in Texts \cup Panics : printed \in Seq(Char)
  BY ConsoleAssumption
<1>3. Ops = {"puts", "panic", "clear", "scroll_up", "set_cursor", "set_color"}
  BY DEF Ops
<1>4. ASSUME NEW printed \in Texts, vga_puts_call(printed) PROVE TextInv'
  <2>1. Begin("puts", printed) /\ pc' = "putc" /\ screen' = screen
    BY <1>4 DEF vga_puts_call
  <2>2. QED BY <1>1, <1>2, <1>3, <2>1
<1>5. ASSUME NEW printed \in Panics, panic(printed) PROVE TextInv'
  <2>1. Begin("panic", printed) /\ pc' = "putc" /\ screen' = screen
    BY <1>5 DEF panic
  <2>2. QED BY <1>1, <1>2, <1>3, <2>1
<1>6. ASSUME vga_clear PROVE TextInv'
  <2>1. Begin("clear", <<>>) /\ pc' = "home"
    BY <1>6 DEF vga_clear
  <2>2. QED BY <1>1, <1>2, <1>3, <2>1
<1>7. ASSUME vga_scroll_up_call PROVE TextInv'
  <2>1. Begin("scroll_up", <<>>) /\ pc' = "scroll"
    BY <1>7 DEF vga_scroll_up_call
  <2>2. QED BY <1>1, <1>2, <1>3, <2>1
<1>8. ASSUME NEW position \in Positions, vga_set_cursor(position) PROVE TextInv'
  <2>1. Begin("set_cursor", <<>>) /\ pc' \in {"hw", "idle"}
    BY <1>8 DEF vga_set_cursor
  <2>2. QED BY <1>1, <1>2, <1>3, <2>1
<1>9. ASSUME NEW colour \in Colour, vga_set_color(colour) PROVE TextInv'
  <2>1. /\ screen' = [screen EXCEPT !.colour = colour] /\ Begin("set_color", <<>>)
        /\ pc' = "idle"
    BY <1>9 DEF vga_set_color
  <2>2. ASSUME NEW lines, Showing(screen, lines) PROVE Showing(screen', lines)
    <3>1. OnScreen(screen)
      BY <2>2, ShowingType
    <3>2. /\ OnScreen(screen') /\ screen'.cell = screen.cell
          /\ screen'.x = screen.x /\ screen'.y = screen.y
      BY <2>1, <3>1 DEF OnScreen, ScreenOK
    <3>3. PICK R, k, f : RowsAre(screen, R) /\ Told(lines, screen.x, screen.y, R, k, f)
      BY <2>2, Zenon DEF Showing
    <3>4. RowsAre(screen', R)
      <4>1. ASSUME NEW r \in 1 .. Height, NEW i \in 1 .. Width
            PROVE  screen'.cell[CellAt(r, i)].char = IF i <= Len(R[r]) THEN R[r][i] ELSE Space
        <5>1. screen.cell[CellAt(r, i)].char = IF i <= Len(R[r]) THEN R[r][i] ELSE Space
          BY <3>3, Zenon DEF RowsAre
        <5>2. QED BY <3>2, <5>1, Zenon
      <4>2. QED BY <4>1, Zenon DEF RowsAre
    <3>5. QED BY <3>2, <3>3, <3>4 DEF Showing
  <2>3. QED BY <1>1, <1>2, <1>3, <2>1, <2>2
<1>10. QED BY <1>4, <1>5, <1>6, <1>7, <1>8, <1>9

LEMMA StepTextKept ==
  ASSUME ConsoleInv, TextInv, [Next]_vars
  PROVE  TextInv'
<1>1. CASE main
  <2>1. CASE vga_init \/ serial_init \/ serial_putc
    BY <2>1, StartTells
  <2>2. CASE switch \/ down \/ wrap \/ fit
    BY <2>2, SwitchTells
  <2>3. CASE scroll \/ scroll_last \/ pull \/ bottom
    BY <2>3, ScrollTells
  <2>4. CASE store \/ advance \/ home \/ vga_set_hw_cursor
    BY <2>4, StoreTells
  <2>5. QED BY <1>1, <2>1, <2>2, <2>3, <2>4 DEF main
<1>2. CASE drain \/ fault \/ UNCHANGED vars
  BY <1>2, StartTells
<1>3. CASE \/ \E printed \in Texts : vga_puts_call(printed)
           \/ \E printed \in Panics : panic(printed)
           \/ vga_clear \/ vga_scroll_up_call
           \/ \E position \in Positions : vga_set_cursor(position)
           \/ \E colour \in Colour : vga_set_color(colour)
  BY <1>3, CallsTell
<1>4. QED BY <1>1, <1>2, <1>3 DEF Next

LEMMA ShowingKeeps ==
  ASSUME Showing(screen, Lines)
  PROVE  /\ IsSuffix(NotBlank(Rows), NotBlank(Lines))
         /\ Len(NotBlank(Rows)) >=
              Len(NotBlank(SubSeq(Lines, IF Len(Lines) > Height THEN Len(Lines) - Height + 1
                                         ELSE 1, Len(Lines))))
         /\ Len(Lines) <= Height => \A r \in DOMAIN Lines : Rows[r] = Lines[r]
<1>1. PICK R, k, f : RowsAre(screen, R) /\ Told(Lines, screen.x, screen.y, R, k, f)
  BY Zenon DEF Showing
<1>2. R \in [1 .. Height -> Seq(Glyph)] /\ \A r \in 1 .. Height : Len(R[r]) <= Width
  BY <1>1, Zenon DEF Told
<1>3. \A kept, c : Visible(kept, c) = IF c = Space THEN kept ELSE Append(kept, c)
  BY Zenon DEF Visible, Space
<1>4. Space \notin Glyph
  BY ScreenAssumption DEF Char, Space
<1>5. ASSUME NEW r \in 1 .. Height PROVE Rows[r] = R[r]
  <2>1. PICK cells : cells = [i \in 1 .. Width |-> screen.cell[CellAt(r, i)].char]
    OBVIOUS
  <2>2. Rows[r] = FoldLeft(Visible, <<>>, cells)
    BY <2>1, Zenon DEF Rows, CellAt
  <2>3. PICK ell \in Seq(Glyph) : ell = R[r] /\ Len(ell) <= Width
    BY <1>2
  <2>4. ASSUME NEW i \in 1 .. Width
        PROVE  cells[i] = IF i <= Len(ell) THEN ell[i] ELSE Space
    <3>1. cells[i] = screen.cell[CellAt(r, i)].char
      BY <2>1, Zenon
    <3>2. screen.cell[CellAt(r, i)].char = IF i <= Len(R[r]) THEN R[r][i] ELSE Space
      BY <1>1, Zenon DEF RowsAre
    <3>3. QED BY <2>3, <3>1, <3>2, Zenon
  <2>5. DOMAIN cells = 1 .. Width /\ Width \in Nat
    BY <2>1, ScreenSize
  <2>6. FoldLeft(Visible, <<>>, cells) = ell
    BY <1>3, <1>4, <2>3, <2>4, <2>5, VisibleRow
  <2>7. QED BY <2>2, <2>3, <2>6, Zenon
<1>6. Rows = R
  <2>1. R = [r \in 1 .. Height |-> R[r]]
    BY <1>2, Zenon
  <2>2. DOMAIN Rows = 1 .. Height /\ Rows = [r \in DOMAIN Rows |-> Rows[r]]
    BY Zenon DEF Rows
  <2>3. QED BY <1>5, <2>1, <2>2, Zenon
<1>7. QED BY <1>1, <1>6, LinesKept, Zenon

\* However long the text and whatever its newlines, wraps and scrolls, the screen shows
\* its last lines, whole and in their order, and drops blank ones only
\* (vga.c:80, 108-122; README.md:45).
THEOREM TextIsKept == Spec => []TextKept
<1>1. Init => TextInv
  BY InitTells
<1>2. ConsoleInv /\ TextInv /\ [Next]_vars => TextInv'
  BY StepTextKept
<1>3. ConsoleInv /\ TextInv => TextKept
  <2> SUFFICES ASSUME ConsoleInv, TextInv, pc = "idle", Quiet
               PROVE  TextKept
    BY DEF TextKept, Quiet
  <2>1. text = <<>>
    BY DEF ConsoleInv, CallInv, Located
  <2>2. PICK done \in Seq(Char) : /\ Printed = done \o text
                                  /\ Stage(pc, text, screen, row, LinesOf(done))
    BY DEF TextInv
  <2>3. Printed = done
    BY <2>1, <2>2
  <2>4. Showing(screen, LinesOf(done))
    BY <2>2 DEF Stage
  <2>5. LinesOf(done) = Lines
    BY <2>3, Zenon DEF LinesOf, Lines
  <2>6. Showing(screen, Lines)
    BY <2>4, <2>5
  <2>7. QED BY <2>6, ShowingKeeps, Zenon DEF TextKept
<1>4. QED BY <1>1, <1>2, <1>3, ConsoleInvariance, PTL DEF Spec
==============================================================================
