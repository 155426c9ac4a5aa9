------------------------------- MODULE Console -------------------------------
(***************************************************************************)
(* The console: kernel/vga.c over the VGA text buffer, kernel/port.c over  *)
(* the serial port COM1, and panic.c.  Every character goes to the serial  *)
(* port first and to the screen then.                                      *)
(*                                                                         *)
(* kernel_main prints statement by statement.  Between any two of them an  *)
(* exception or an NMI may come in; its handler prints a message through   *)
(* the same screen, cursor and port and never returns (interrupt.c:92-115, *)
(* mmu.c:264-288).  The timer's handler does not print.                    *)
(***************************************************************************)
EXTENDS Screen

CONSTANTS
  Texts,       \* what the kernel prints: sequences of characters
  Panics,      \* what panic prints, with its banner and trailer
  Positions,   \* the cursor positions clients ask for, on the screen or not
  Message,     \* what an exception handler prints: glyphs and newlines
  Calls        \* bound on the calls of a behaviour

VARIABLES
  screen,      \* vga_buffer, cursor_x, cursor_y, current_color
  hw,          \* the position of the hardware cursor
  uart,        \* the registers of COM1, and what has left through it
  pc,          \* where the call in progress stands
  text,        \* the characters the call has yet to print, the current one first
  row,         \* the loop counter of vga_scroll_up
  after,       \* where the call goes when it is done
  calls        \* history: the calls so far

vars == <<screen, hw, uart, pc, text, row, after, calls>>
call == <<text, row, after, calls>>

ASSUME ConsoleAssumption ==
  /\ Texts \cup Panics \subseteq Seq(Char) \ {<<>>}
  /\ Message \in Seq(Glyph \cup {"LF"})
  /\ Calls \in Nat
------------------------------------------------------------------------------
(***************************************************************************)
(* COM1, hardware.  While DLAB is set the first two registers are the two  *)
(* halves of the divisor; otherwise a byte written to the first one is     *)
(* sent, and busy until it is gone.                                        *)
(***************************************************************************)
UartOff == [dlab |-> FALSE, low |-> 12, high |-> 0, ier |-> 1, lcr |-> 0,
            busy |-> FALSE, sent |-> <<>>]

UartWritten(u, w) ==
  CASE w[1] = 0 /\ u.dlab  -> [u EXCEPT !.low = w[2]]
    [] w[1] = 0 /\ ~u.dlab -> [u EXCEPT !.busy = TRUE, !.sent = Append(@, w[2])]
    [] w[1] = 1 /\ u.dlab  -> [u EXCEPT !.high = w[2]]
    [] w[1] = 1 /\ ~u.dlab -> [u EXCEPT !.ier = w[2]]
    [] w[1] = 3 -> [u EXCEPT !.dlab = w[2] >= 128, !.lcr = w[2] % 128]
    [] OTHER    -> u

drain ==
  /\ uart.busy
  /\ uart' = [uart EXCEPT !.busy = FALSE]
  /\ UNCHANGED <<screen, hw, pc, call>>

\* serial_init: the mutant forgets to set DLAB.
InitWrites_noDlab ==
  <<<<1, 0>>, <<3, 3>>, <<0, 3>>, <<1, 0>>, <<3, 3>>, <<2, 199>>, <<4, 11>>>>
InitWrites ==
  <<<<1, 0>>, <<3, 128>>, <<0, 3>>, <<1, 0>>, <<3, 3>>, <<2, 199>>, <<4, 11>>>>

vga_init ==
  /\ pc = "vga_init"
  /\ screen' = [Home(Blanked(screen)) EXCEPT !.colour = White]
  /\ hw' = HwPosition(screen')
  /\ pc' = "serial_init"
  /\ UNCHANGED <<uart, call>>

serial_init ==
  /\ pc = "serial_init"
  /\ uart' = FoldLeft(UartWritten, uart, InitWrites)
  /\ pc' = "idle"
  /\ UNCHANGED <<screen, hw, call>>
------------------------------------------------------------------------------
(***************************************************************************)
(* The calls of vga.h and panic.  vprintf ends in vga_putc and vga_puts.   *)
(***************************************************************************)
Call(op, printed) == [op |-> op, text |-> printed]

Begin(op, printed) ==
  /\ pc = "idle" /\ Len(calls) < Calls
  /\ calls' = Append(calls, Call(op, printed))
  /\ text' = printed
  /\ after' = IF op = "panic" THEN "hang" ELSE "idle"
  /\ row' = 0
  /\ uart' = uart

vga_puts_call(printed) ==
  /\ Begin("puts", printed) /\ pc' = "putc"
  /\ UNCHANGED <<screen, hw>>

panic(printed) ==
  /\ Begin("panic", printed) /\ pc' = "putc"
  /\ UNCHANGED <<screen, hw>>

vga_clear ==
  /\ Begin("clear", <<>>) /\ pc' = "home"
  /\ screen' = Blanked(screen) /\ hw' = hw

\* A position off the screen is ignored.
vga_set_cursor(position) ==
  /\ Begin("set_cursor", <<>>)
  /\ \/ /\ position.x \in 0 .. Width - 1 /\ position.y \in 0 .. Height - 1
        /\ screen' = [screen EXCEPT !.x = position.x, !.y = position.y]
        /\ pc' = "hw"
     \/ /\ ~(position.x \in 0 .. Width - 1 /\ position.y \in 0 .. Height - 1)
        /\ screen' = screen /\ pc' = "idle"
  /\ hw' = hw

vga_set_color(colour) ==
  /\ Begin("set_color", <<>>) /\ pc' = "idle"
  /\ screen' = [screen EXCEPT !.colour = colour] /\ hw' = hw

vga_scroll_up_call ==
  /\ Begin("scroll_up", <<>>) /\ pc' = "scroll"
  /\ UNCHANGED <<screen, hw>>
------------------------------------------------------------------------------
(***************************************************************************)
(* vga_putc and vga_scroll_up, statement by statement.                     *)
(***************************************************************************)
Step(from, changed, to) ==
  /\ pc = from /\ pc' = to
  /\ screen' = changed
  /\ UNCHANGED <<hw, uart, call>>

char == Head(text)
InPutc == text # <<>>

\* The busy wait of serial_putc ends when the port is free; the mutant reads the
\* status bit the wrong way round.
PortFree_inverted == uart.busy
PortFree == ~uart.busy

serial_putc ==
  /\ pc = "putc" /\ PortFree
  /\ uart' = UartWritten(uart, <<0, char>>)
  /\ pc' = "switch"
  /\ UNCHANGED <<screen, hw, call>>

switch ==
  /\ pc = "switch"
  /\ \/ char = "LF" /\ Step("switch", Return(screen), "down")
     \/ char = "CR" /\ Step("switch", Return(screen), "hw")
     \/ char = "HT" /\ Step("switch", Tab(screen), "hw")
     \/ char = "BS" /\ Step("switch", Backspace(screen), "hw")
     \/ char \in Glyph /\ AtEdge(screen) /\ Step("switch", Return(screen), "wrap")
     \/ char \in Glyph /\ ~AtEdge(screen) /\ Step("switch", screen, "fit")

down == Step("down", Down(screen), "hw")
wrap == Step("wrap", Down(screen), "fit")
fit  == Step("fit", screen, IF Below(screen) THEN "scroll" ELSE "store")

\* Mutant: the rows are moved from the bottom up.
RowAt_up(n) == Height - 2 - n
RowAt(n) == n

scroll ==
  /\ pc = "scroll" /\ row < Height - 1
  /\ screen' = CopyRow(screen, RowAt(row))
  /\ row' = row + 1
  /\ UNCHANGED <<hw, uart, pc, text, after, calls>>

scroll_last ==
  /\ pc = "scroll" /\ row = Height - 1
  /\ screen' = ClearLast(screen)
  /\ row' = 0 /\ pc' = "pull"
  /\ UNCHANGED <<hw, uart, text, after, calls>>

pull   == Step("pull", PullCursor(screen), IF InPutc THEN "bottom" ELSE "idle")
bottom == Step("bottom", Bottom(screen), "store")
store  == Step("store", Store(screen, char), "advance")
advance == Step("advance", Advance(screen), "hw")
home   == Step("home", Home(screen), "hw")

\* vga_set_hw_cursor, and back to the loop over the string.
vga_set_hw_cursor ==
  /\ pc = "hw"
  /\ hw' = HwPosition(screen)
  /\ text' = IF InPutc THEN Tail(text) ELSE <<>>
  /\ pc' = IF Len(text) > 1 THEN "putc" ELSE after
  /\ UNCHANGED <<screen, uart, row, after, calls>>

main ==
  \/ vga_init \/ serial_init
  \/ serial_putc \/ switch \/ down \/ wrap \/ fit \/ scroll \/ scroll_last
  \/ pull \/ bottom \/ store \/ advance \/ home \/ vga_set_hw_cursor

\* An exception or an NMI: its handler prints the message and hangs.  It waits
\* for the port before every character, so all of them get through.  An NMI may
\* cut a handler off in mid-print, but the next handler then starts from a state
\* this one may start from, too, and the message of the last one is the end.
fault ==
  /\ pc \notin {"vga_init", "serial_init", "fault"}
  /\ screen' = vga_puts(screen, Message)
  /\ hw' = HwPosition(screen')
  /\ uart' = [uart EXCEPT !.sent = @ \o Message]
  /\ pc' = "fault"
  /\ UNCHANGED call

Init ==
  /\ screen \in [cell : {[i \in Cell |-> Shown(glyph, White)] : glyph \in Glyph},
                 x : {0}, y : {0}, colour : {White}, spilled : {FALSE}]
  /\ hw = 0
  /\ uart = UartOff
  /\ pc = "vga_init" /\ text = <<>> /\ row = 0 /\ after = "idle" /\ calls = <<>>

Next ==
  \/ main
  \/ \E printed \in Texts : vga_puts_call(printed)
  \/ \E printed \in Panics : panic(printed)
  \/ vga_clear \/ vga_scroll_up_call
  \/ \E position \in Positions : vga_set_cursor(position)
  \/ \E colour \in Colour : vga_set_color(colour)
  \/ drain \/ fault

Spec == Init /\ [][Next]_vars /\ WF_vars(main) /\ WF_vars(drain)
------------------------------------------------------------------------------
Printed == FlattenSeq([i \in DOMAIN calls |-> calls[i].text])

\* Only a backspace ever stores beyond the last line of the screen: a newline at
\* the bottom leaves the cursor there, and a character scrolls before it is
\* stored, also when a handler breaks into the middle of either (vga.c:101-122).
OnlyBackspaceSpills == screen.spilled => Contains(Printed, "BS")

(***************************************************************************)
(* What was printed, as lines: a newline ends one, and so does the right   *)
(* edge when there is more to come.                                        *)
(***************************************************************************)
Extended(lines, c) ==
  IF c = "LF" THEN Append(lines, <<>>)
  ELSE IF Len(Last(lines)) = Width THEN Append(lines, <<c>>)
  ELSE [lines EXCEPT ![Len(lines)] = Append(@, c)]
Lines == FoldLeft(Extended, << <<>> >>, Printed)

\* The characters of a row of the screen, and the lines that hold any.
Visible(kept, c) == IF c = " " THEN kept ELSE Append(kept, c)
Rows == [r \in 1 .. Height |->
           FoldLeft(Visible, <<>>,
                    [i \in 1 .. Width |-> screen.cell[(r - 1) * Width + i - 1].char])]
Filled(kept, line) == IF line = <<>> THEN kept ELSE Append(kept, line)
NotBlank(lines) == FoldLeft(Filled, <<>>, lines)

\* Text without control characters but newlines: the screen shows the last lines
\* in their order, whole, and at least those a terminal of this height would
\* show.  Scrolling late, and once for several newlines, drops blank lines only;
\* text that fits is where it belongs (vga.c:80, 114-117; README.md:45).
Plain == \A i \in DOMAIN calls : calls[i].op \in {"puts", "set_color", "panic"}
TextKept ==
  /\ pc = "idle" /\ Plain
  /\ \A c \in Control \ {"LF"} : ~Contains(Printed, c)
  => /\ IsSuffix(NotBlank(Rows), NotBlank(Lines))
     /\ Len(NotBlank(Rows)) >=
          Len(NotBlank(SubSeq(Lines, IF Len(Lines) > Height THEN Len(Lines) - Height + 1
                                     ELSE 1, Len(Lines))))
     /\ Len(Lines) <= Height => \A r \in DOMAIN Lines : Rows[r] = Lines[r]

\* Wherever an exception strikes, its message ends up on the screen in one
\* piece, with the cursor at the start of the line below it (interrupt.c:114).
FaultShown ==
  pc = "fault" =>
    \E at \in Cell :
      /\ \A i \in 1 .. Len(Message) - 1 :
           at + i - 1 \in Cell /\ screen.cell[at + i - 1].char = Message[i]
      /\ screen.x = 0 /\ screen.y = (at + Len(Message) - 2) \div Width + 1
      /\ hw = HwPosition(screen)

\* The serial port repeats what was printed, character by character: complete
\* whenever no call is in progress, and otherwise up to the character being put;
\* an exception's message follows directly (README.md:47).
Begun == Len(Printed) - Len(text)
SerialMirrors ==
  LET shown == SubSeq(Printed, 1, Begun)
      now   == IF InPutc THEN {shown, SubSeq(Printed, 1, Begun + 1)} ELSE {shown}
  IN  uart.sent \in (IF pc = "fault" THEN {s \o Message : s \in now} ELSE now)

\* A call that prints comes to its end, whatever the port's pace.
CallsReturn == pc = "putc" ~> pc \in {"idle", "hang", "fault"}
==============================================================================
