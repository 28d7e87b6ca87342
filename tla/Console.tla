-------------------------------- MODULE Console --------------------------------
(***************************************************************************)
(* kernel/console.cpp: the debug text.  Before the layers exist it is      *)
(* drawn on the frame buffer and a scroll redraws it from buffer_; later   *)
(* it is drawn in a window, a scroll moves the window's pixels and leaves  *)
(* buffer_ as it is.                                                       *)
(*                                                                         *)
(* These are operators on one console: a record of buffer_, the cursor,    *)
(* whether there is a window, and the cells of whatever it draws on.  A    *)
(* cell is the set of glyphs drawn over its background.                    *)
(***************************************************************************)
EXTENDS Integers, Sequences, SequencesExt

CONSTANTS
  kConsoleRows, kConsoleColumns   \* 25 and 80 in the code

ASSUME ConsoleAssumption == {kConsoleRows, kConsoleColumns} \subseteq Nat \ {0}

NewLine == "\n"
Rows == 0..(kConsoleRows - 1)
Cells == Rows \X (0..(kConsoleColumns - 1))
Blank == [cell \in Cells |-> {}]

\* A row of buffer_ is the string up to its terminating zero.
NewConsole ==
  [buffer |-> [row \in Rows |-> <<>>], row |-> 0, column |-> 0,
   window |-> FALSE, cells |-> Blank]

\* WriteString for every row, on a background filled before.
DrawRows(buffer) ==
  [cell \in Cells |->
     IF cell[2] < Len(buffer[cell[1]]) THEN {buffer[cell[1]][cell[2] + 1]} ELSE {}]

Refresh(c) == [c EXCEPT !.cells = DrawRows(c.buffer)]
SetWriter(c) == Refresh([c EXCEPT !.window = FALSE])
SetWindow(c) == Refresh([c EXCEPT !.window = TRUE])

\* The row at the end of buffer_ is cleared last, when it has been copied.
ScrollBuffer(c) ==
  LET moved == [row \in Rows |->
                  IF row < kConsoleRows - 1 THEN c.buffer[row + 1] ELSE c.buffer[row]]
  IN  [c EXCEPT !.buffer = [moved EXCEPT ![kConsoleRows - 1] = <<>>],
                !.cells = DrawRows([moved EXCEPT ![kConsoleRows - 1] = <<>>])]

\* Mutant: the last row keeps its pixels.
ScrollWindowUnfilled(c) ==
  [c EXCEPT !.cells = [cell \in Cells |->
     IF cell[1] < kConsoleRows - 1 THEN @[<<cell[1] + 1, cell[2]>>] ELSE @[cell]]]

\* Window::Move, then the last row filled.
ScrollWindow(c) ==
  [c EXCEPT !.cells = [cell \in Cells |->
     IF cell[1] < kConsoleRows - 1 THEN @[<<cell[1] + 1, cell[2]>>] ELSE {}]]

Newline(c) ==
  IF c.row < kConsoleRows - 1 THEN [c EXCEPT !.row = @ + 1, !.column = 0]
  ELSE IF c.window THEN ScrollWindow([c EXCEPT !.column = 0])
  ELSE ScrollBuffer([c EXCEPT !.column = 0])

\* buffer_[row][column] = ch; what followed in the row stays.
Stored(s, column, ch) ==
  IF column < Len(s) THEN [s EXCEPT ![column + 1] = ch] ELSE Append(s, ch)

\* One iteration of PutString; what does not fit in the row is dropped.
PutChar(c, ch) ==
  IF ch = NewLine THEN Newline(c)
  ELSE IF c.column < kConsoleColumns - 1
  THEN [c EXCEPT !.cells[<<c.row, c.column>>] = @ \cup {ch},
                 !.buffer[c.row] = Stored(@, c.column, ch),
                 !.column = @ + 1]
  ELSE c

PutString(c, s) == FoldLeft(PutChar, c, s)

-----------------------------------------------------------------------------
(* What a console promises: the last lines of all that was written. *)

\* The lines written so far, the last one unfinished.
NoLines == <<<<>>>>
PutInLog(lines, ch) ==
  IF ch = NewLine THEN Append(lines, <<>>)
  ELSE IF Len(Last(lines)) < kConsoleColumns - 1
  THEN [lines EXCEPT ![Len(lines)] = Append(@, ch)]
  ELSE lines
Logged(lines, s) == FoldLeft(PutInLog, lines, s)

\* The console c shows the end of lines, down to its cursor, and nothing else.
ShowsEndOf(c, lines) ==
  /\ c.row = (IF Len(lines) < kConsoleRows THEN Len(lines) ELSE kConsoleRows) - 1
  /\ c.cells = DrawRows([row \in Rows |->
                 IF row <= c.row THEN lines[Len(lines) - c.row + row] ELSE <<>>])
===============================================================================
