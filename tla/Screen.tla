------------------------------- MODULE Screen -------------------------------
(***************************************************************************)
(* The screen of the x86_64 terminal (drivers/x86_64/tty.c): tty_write,    *)
(* called by threads and, one character at a time, by kprintf through      *)
(* polltty_putchar (drivers/x86_64/polltty.c).  A call runs under the      *)
(* spinlock with interrupts disabled, so it is one step.                   *)
(*                                                                         *)
(* Nothing clears the screen: tty_init homes the driver's cursor and       *)
(* leaves video memory, and the cursor of the hardware, as it finds them.  *)
(*                                                                         *)
(* shown and column are the terminal as its users think of it: the lines   *)
(* written last, over what the screen held before, and the place in the    *)
(* last of them.                                                           *)
(***************************************************************************)
EXTENDS Integers, Sequences, Functions, FiniteSetsExt

CONSTANTS
  Rows, Columns,     \* VIDEO_MEMORY_ROWS, VIDEO_MEMORY_COLUMNS
  Boot,              \* what video memory holds before tty_init
  Texts              \* what is written: sequences of characters

Cells == 0 .. Rows * Columns - 1

ASSUME ScreenAssumption ==
  /\ Rows \in Nat \ {0} /\ Columns \in Nat \ {0}
  /\ Boot \in [Cells -> Range(Boot)]
  /\ \A text \in Texts : text \in Seq(Range(text))

VARIABLES
  video,               \* video memory, line after line
  cursor_x, cursor_y,  \* tty_t
  hw_cursor,           \* the place tty_write told the hardware, or AsBooted
  shown, column        \* history

screenvars == <<video, cursor_x, cursor_y, hw_cursor, shown, column>>

Blank == " "
AsBooted == -1

(* Row y of the screen as it was before tty_init. *)
BootLine(y) == [x \in 0 .. Columns - 1 |-> Boot[y * Columns + x]]

tty_init ==
  /\ video = Boot /\ hw_cursor = AsBooted
  /\ cursor_x = 0 /\ cursor_y = 0
  /\ shown = <<BootLine(0)>> /\ column = 0

-----------------------------------------------------------------------------
(* The character itself: s is the screen, [v, x, y]. *)
PutChar(s, c) ==
  CASE c = "BS" -> IF s.x = 0 THEN s
                   ELSE [s EXCEPT !.x = @ - 1,
                                  !.v[s.y * Columns + s.x - 1] = Blank]
    [] c = "CR" -> [s EXCEPT !.x = 0]
    [] c = "NL" -> [s EXCEPT !.x = 0, !.y = @ + 1]
    [] OTHER    -> [s EXCEPT !.x = @ + 1, !.v[s.y * Columns + s.x] = c]

(* The checks that follow it: the end of the line, ... *)
Wrap(s) == IF s.x < Columns THEN s ELSE [s EXCEPT !.x = 0, !.y = @ + 1]

(* Mutant: the last line is not cleared. *)
ScrollKeepsLast(s) ==
  IF s.y < Rows THEN s
  ELSE [v |-> [i \in Cells |->
          IF i < (Rows - 1) * Columns THEN s.v[i + Columns] ELSE s.v[i]],
        x |-> 0, y |-> s.y - 1]

(* ... and the end of the screen: every line moves up, the last is cleared. *)
Scroll(s) ==
  IF s.y < Rows THEN s
  ELSE [v |-> [i \in Cells |->
          IF i < (Rows - 1) * Columns THEN s.v[i + Columns] ELSE Blank],
        x |-> 0, y |-> s.y - 1]

(* Every character of a text in turn. *)
Put(s, c) == Scroll(Wrap(PutChar(s, c)))
PutAll(s, text) ==
  LET screen[i \in 0 .. Len(text)] == IF i = 0 THEN s ELSE Put(screen[i - 1], text[i])
  IN  screen[Len(text)]

(* The text counts up to its first NUL. *)
UpToNul(text) ==
  LET nuls == {i \in 1 .. Len(text) : text[i] = "NUL"}
  IN  SubSeq(text, 1, Min(nuls \cup {Len(text) + 1}) - 1)

-----------------------------------------------------------------------------
(* The terminal that is promised: a new line lies over the next row of the *)
(* screen while there is one; then it is blank and the oldest is dropped.  *)
NewLine(p) ==
  [lines |-> IF Len(p.lines) < Rows
             THEN Append(p.lines, BootLine(Len(p.lines)))
             ELSE Tail(Append(p.lines, [x \in 0 .. Columns - 1 |-> Blank])),
   x |-> 0]

Promise(p, c) ==
  LET last == Len(p.lines) IN
  CASE c = "NL" -> NewLine(p)
    [] c = "CR" -> [p EXCEPT !.x = 0]
    [] c = "BS" -> IF p.x = 0 THEN p
                   ELSE [p EXCEPT !.x = @ - 1, !.lines[last][p.x - 1] = Blank]
    [] OTHER    -> LET q == [p EXCEPT !.x = @ + 1, !.lines[last][p.x] = c]
                   IN  IF q.x = Columns THEN NewLine(q) ELSE q

PromiseAll(p, text) ==
  LET lines[i \in 0 .. Len(text)] == IF i = 0 THEN p ELSE Promise(lines[i - 1], text[i])
  IN  lines[Len(text)]

-----------------------------------------------------------------------------
tty_write(text) ==
  LET after == PutAll([v |-> video, x |-> cursor_x, y |-> cursor_y], UpToNul(text))
      promised == PromiseAll([lines |-> shown, x |-> column], UpToNul(text))
  IN
  /\ video' = after.v /\ cursor_x' = after.x /\ cursor_y' = after.y
  /\ hw_cursor' = after.y * Columns + after.x
  /\ shown' = promised.lines /\ column' = promised.x

ScreenNext == \E text \in Texts : tty_write(text)

ScreenSpec == tty_init /\ [][ScreenNext]_screenvars

-----------------------------------------------------------------------------
(* The screen shows the last lines that were written, and below them what  *)
(* it held at boot, with tty_t's cursor where the next character will      *)
(* appear and, from the first tty_write on, the hardware's there as well:  *)
(* wrapping and scrolling lose, repeat or leave behind no character, also  *)
(* when a line ends exactly at the last cell.                              *)
ScreenShowsLines ==
  /\ \A y \in 0 .. Rows - 1, x \in 0 .. Columns - 1 :
       video[y * Columns + x] =
         IF y < Len(shown) THEN shown[y + 1][x] ELSE BootLine(y)[x]
  /\ <<cursor_x, cursor_y>> = <<column, Len(shown) - 1>>
  /\ hw_cursor # AsBooted => hw_cursor = cursor_y * Columns + cursor_x
=============================================================================
