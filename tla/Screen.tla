-------------------------------- MODULE Screen --------------------------------
(***************************************************************************)
(* kernel/vga.c: the text screen as a record of its cells, the cursor and  *)
(* the colour, and what each statement of vga_putc and vga_scroll_up does  *)
(* to it.  A store beyond the last cell goes to memory that is not shown   *)
(* and never read again; spilled remembers that there was one.             *)
(***************************************************************************)
EXTENDS Integers, Sequences, SequencesExt

CONSTANTS Width, Height,    \* VGA_WIDTH, VGA_HEIGHT
          TabStop,          \* 8
          Glyph,            \* the characters that are shown
          Colour            \* the colours in use

Control == {"LF", "CR", "HT", "BS"}
Char    == Glyph \cup Control
Cell    == 0 .. Width * Height - 1          \* VGA_BUFFER_SIZE
White   == 15                               \* VGA_COLOR_DEFAULT
Shown(char, colour) == [char |-> char, colour |-> colour]

ASSUME ScreenAssumption ==
  /\ Width \in Nat \ {0} /\ TabStop \in Nat \ {0}
  /\ Height \in Nat \ {0, 1}
  /\ " " \notin Char /\ Glyph \cap Control = {}
  /\ White \in Colour

Blanked(s) == [s EXCEPT !.cell = [i \in Cell |-> Shown(" ", s.colour)]]
Home(s)    == [s EXCEPT !.x = 0, !.y = 0]

\* A store at the cursor.
Store(s, char) ==
  LET at == s.y * Width + s.x
  IN  IF at \in Cell THEN [s EXCEPT !.cell[at] = Shown(char, s.colour)]
      ELSE [s EXCEPT !.spilled = TRUE]

(***************************************************************************)
(* vga_scroll_up: one row after the other, from the top, then the last row *)
(* and the cursor.                                                         *)
(***************************************************************************)
CopyRow(s, row) ==
  [s EXCEPT !.cell = [i \in Cell |-> IF i \div Width = row THEN s.cell[i + Width]
                                     ELSE s.cell[i]]]
ClearLast(s) ==
  [s EXCEPT !.cell = [i \in Cell |-> IF i \div Width = Height - 1
                                     THEN Shown(" ", s.colour) ELSE s.cell[i]]]
PullCursor(s) == [s EXCEPT !.y = IF @ >= Height - 1 THEN Height - 2 ELSE @]

vga_scroll_up(s) ==
  PullCursor(ClearLast(FoldLeft(CopyRow, s, [r \in 1 .. Height - 1 |-> r - 1])))

(***************************************************************************)
(* vga_putc.  A newline moves the cursor and never scrolls; a character is *)
(* wrapped and scrolled for when it is put.                                *)
(***************************************************************************)
Return(s)    == [s EXCEPT !.x = 0]
Down(s)      == [s EXCEPT !.y = @ + 1]
Tab(s)       == [s EXCEPT !.x = ((@ + TabStop) \div TabStop) * TabStop]
Bottom(s)    == [s EXCEPT !.y = Height - 1]
Advance(s)   == [s EXCEPT !.x = @ + 1]

Backspace(s) == IF s.x > 0 THEN Store([s EXCEPT !.x = @ - 1], " ") ELSE s

\* Mutant: one column too late.
AtEdge_late(s) == s.x > Width
AtEdge(s) == s.x >= Width

\* Mutant: one row too late.
Below_late(s) == s.y > Height
Below(s) == s.y >= Height

vga_putc(s, char) ==
  CASE char = "LF" -> Down(Return(s))
    [] char = "CR" -> Return(s)
    [] char = "HT" -> Tab(s)
    [] char = "BS" -> Backspace(s)
    [] char \in Glyph ->
         LET wrapped == IF AtEdge(s) THEN Down(Return(s)) ELSE s
             fitted  == IF Below(wrapped) THEN Bottom(vga_scroll_up(wrapped)) ELSE wrapped
         IN  Advance(Store(fitted, char))

vga_puts(s, text) == FoldLeft(vga_putc, s, text)

\* Where vga_set_hw_cursor puts the blinking cursor: a 16-bit position.
HwPosition(s) == (s.y * Width + s.x) % 65536
==============================================================================
