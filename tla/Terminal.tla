------------------------------- MODULE Terminal -------------------------------
(***************************************************************************)
(* kernel/terminal.cpp: the line editor, command history and text window   *)
(* of the terminal task, and the screen, which shows a change only where   *)
(* the area the terminal returned reaches main as a DrawArea message.      *)
(*                                                                         *)
(* A cell is the set of what is drawn over its background: a glyph adds to *)
(* it (WriteAscii draws no background), a filled rectangle empties it.     *)
(***************************************************************************)
EXTENDS Integers, Sequences, SequencesExt, FiniteSets

CONSTANTS
  kRows, kColumns,   \* 15 and 60 in the code
  kLineMax,          \* 128
  kHistory,          \* the 8 of cmd_history_.resize(8)
  Chars,             \* the characters typed
  Devices,           \* pci::devices, a sequence of one text for each
  RootDir,           \* the root directory, a sequence of [base, ext, attr]
  MaxKeys,           \* bound on the keys and timeouts handled
  MaxPending         \* bound on the DrawArea messages main has not read

\* The characters that can be printed.
Drawable ==
  Chars \cup {">", "?", "."} \cup UNION {Range(text) : text \in Range(Devices)}
        \cup UNION {Range(entry.base) \cup Range(entry.ext) : entry \in Range(RootDir)}

ASSUME TerminalAssumption ==
  /\ {kRows, kColumns, kLineMax, kHistory, MaxKeys, MaxPending} \subseteq Nat \ {0}
  /\ 2 < kColumns /\ kColumns < kLineMax
  /\ Devices \in Seq(Seq(Drawable))
  /\ RootDir \in Seq([base : Seq(Drawable), ext : Seq(Drawable), attr : STRING])
  /\ "cursor" \notin Drawable

\* A command's name is one character here.  The other texts are as short.
echo == <<"e">>
clear == <<"c">>
lspci == <<"p">>
ls == <<"l">>
Space == " "
NewLine == "\n"
Prompt == <<">">>
NoSuchCommand == <<"?">>

VARIABLES
  window,              \* cells of the window, with cursor_ as x and y
  cursor_visible_,
  linebuf_,            \* its first linebuf_index_ characters
  cmd_history_, cmd_history_index_,
  areas,               \* DrawArea messages on their way to main, oldest first
  screen,              \* what the frame buffer shows of the window
  entered,             \* the lines accepted so far, newest first
  prompt_erased,       \* a backspace has erased the prompt of this line
  keys                 \* keys and timeouts handled so far

lineVars == <<linebuf_, cmd_history_, cmd_history_index_, entered, prompt_erased>>
vars == <<window, cursor_visible_, lineVars, areas, screen, keys>>

\* One column more than the text has: a cursor may stray there.
Cells == (0..kColumns) \X (0..(kRows - 1))
Text == {c \in Cells : c[1] < kColumns}
cursor_ == <<window.x, window.y>>
Columns(x, y, n) == {c \in Cells : c[2] = y /\ x <= c[1] /\ c[1] < x + n}

-----------------------------------------------------------------------------
(* Drawing: operators from a window to a window *)

FillRectangle(w, area) ==
  [w EXCEPT !.cells = [c \in Cells |-> IF c \in area THEN {} ELSE @[c]]]

WriteAscii(w, x, y, c) ==
  IF c = Space THEN w ELSE [w EXCEPT !.cells[<<x, y>>] = @ \cup {c}]

DrawCursor(w, visible) ==
  [w EXCEPT !.cells[<<w.x, w.y>>] = IF visible THEN {"cursor"} ELSE {}]

\* Mutant: the row that becomes free is not cleared.
Scroll1Unfilled(w) ==
  [w EXCEPT !.cells = [c \in Cells |->
     IF c \in Text /\ c[2] < kRows - 1 THEN @[<<c[1], c[2] + 1>>] ELSE @[c]]]

Scroll1(w) ==
  FillRectangle(
    [w EXCEPT !.cells = [c \in Cells |->
       IF c \in Text /\ c[2] < kRows - 1 THEN @[<<c[1], c[2] + 1>>] ELSE @[c]]],
    Columns(0, w.y, kColumns))

\* The lambda of Print; InputKey('\n') does the same.
newline(w) ==
  IF w.y < kRows - 1 THEN [w EXCEPT !.x = 0, !.y = @ + 1]
  ELSE Scroll1([w EXCEPT !.x = 0])

\* One iteration of the loop in Print.
Put(w, c) ==
  IF c = NewLine THEN newline(w)
  ELSE LET drawn == WriteAscii(w, w.x, w.y, c)
       IN  IF w.x = kColumns - 1 THEN newline(drawn) ELSE [drawn EXCEPT !.x = @ + 1]

TerminalPrint(w, s) == DrawCursor(FoldLeft(Put, DrawCursor(w, FALSE), s), TRUE)

-----------------------------------------------------------------------------
(* Commands *)

\* strchr(linebuf_, ' '): the line up to the first space, and what follows it.
Spaces(line) == {i \in 1..Len(line) : line[i] = Space}
FirstSpace(line) == CHOOSE i \in Spaces(line) : \A j \in Spaces(line) : i <= j
Command(line) == IF Spaces(line) = {} THEN line ELSE SubSeq(line, 1, FirstSpace(line) - 1)
FirstArg(line) == IF Spaces(line) = {} THEN <<>> ELSE SubSeq(line, FirstSpace(line) + 1, Len(line))

AddLine(s, text) == s \o Append(text, NewLine)
Lines(texts) == FoldLeft(AddLine, <<>>, texts)

\* fat::ReadName: both parts of a name without the spaces that pad them.
Trimmed(s) ==
  LET used == {i \in 1..Len(s) : s[i] # Space}
  IN  IF used = {} THEN <<>> ELSE SubSeq(s, 1, CHOOSE i \in used : \A j \in used : j <= i)
ReadName(entry) == [base |-> Trimmed(entry.base), ext |-> Trimmed(entry.ext)]
FileName(n) == IF n.ext = <<>> THEN n.base ELSE n.base \o <<".">> \o n.ext

\* The loop of ls over the first cluster of the directory: entries up to the
\* first whose name is empty, without the erased ones and the long names.
AddName(s, entry) ==
  IF entry.base[1] = "e5" \/ entry.attr = "kLongName" THEN s
  ELSE AddLine(s, FileName(ReadName(entry)))
ListRoot(dir) ==
  LET ends == {i \in 1..Len(dir) : ReadName(dir[i]).base = <<>>}
      last == IF ends = {} THEN Len(dir) ELSE (CHOOSE i \in ends : \A j \in ends : i <= j) - 1
  IN  FoldLeft(AddName, <<>>, SubSeq(dir, 1, last))

ExecuteLine(w, line) ==
  CASE Command(line) = echo  -> TerminalPrint(TerminalPrint(w, FirstArg(line)), <<NewLine>>)
    [] Command(line) = clear -> [FillRectangle(w, Text) EXCEPT !.y = 0]
    [] Command(line) = lspci -> TerminalPrint(w, Lines(Devices))
    [] Command(line) = ls    -> TerminalPrint(w, ListRoot(RootDir))
    [] Command(line) = <<>>  -> w
    [] OTHER -> TerminalPrint(w, NoSuchCommand \o Command(line) \o <<NewLine>>)

-----------------------------------------------------------------------------
(* Keys *)

\* What MakeLayerMessage sends main.
SendArea(area) ==
  /\ Len(areas) < MaxPending /\ keys < MaxKeys
  /\ keys' = keys + 1
  /\ areas' = Append(areas, area)
  /\ UNCHANGED screen

\* InputKey draws the cursor away first and back last.
Erased == DrawCursor(window, FALSE)
TwoCells(w) == Columns(w.x, w.y, 2)

Resized(h) == [i \in 1..kHistory |-> IF i <= Len(h) THEN h[i] ELSE <<>>]

\* Mutant: the line goes to the wrong end of the history.
RememberedLast(line) ==
  IF cmd_history_ = <<>> THEN {<<>>, <<line>>} ELSE {Append(Front(cmd_history_), line)}

\* pop_back, push_front.  The history is empty before the first line: pop_back
\* is undefined then.  The library this is built with lets the size wrap
\* around to -1, so push_front makes it 0 and the line is lost; a library
\* that ignores the call keeps it.
Remembered(line) ==
  IF cmd_history_ = <<>> THEN {<<>>, <<line>>}
  ELSE {<<line>> \o Front(cmd_history_)}

Enter ==
  /\ IF linebuf_ = <<>> THEN cmd_history_' = Resized(cmd_history_) /\ UNCHANGED entered
     ELSE /\ \E h \in Remembered(linebuf_) : cmd_history_' = Resized(h)
          /\ entered' = <<linebuf_>> \o entered
  /\ linebuf_' = <<>>
  /\ cmd_history_index_' = -1
  /\ window' = DrawCursor(TerminalPrint(ExecuteLine(newline(Erased), linebuf_), Prompt), TRUE)
  /\ SendArea(Text)
  /\ prompt_erased' = FALSE
  /\ UNCHANGED cursor_visible_

\* Mutant: the area redrawn starts at the cursor's old place.
BackspaceArea(w) == TwoCells([w EXCEPT !.x = @ + 1])

\* draw_area of a backspace
ErasedArea(w) == TwoCells(w)

\* It looks at the cursor only, so it erases the prompt of an empty line.
Backspace ==
  /\ IF window.x > 0
     THEN LET moved == [Erased EXCEPT !.x = @ - 1]
          IN  /\ window' = DrawCursor(FillRectangle(moved, {<<moved.x, moved.y>>}), TRUE)
              /\ linebuf_' = IF linebuf_ = <<>> THEN <<>> ELSE Front(linebuf_)
              /\ SendArea(ErasedArea(moved))
     ELSE /\ window' = DrawCursor(Erased, TRUE)
          /\ SendArea(TwoCells(Erased))
          /\ UNCHANGED linebuf_
  /\ prompt_erased' = (prompt_erased \/ (linebuf_ = <<>> /\ window.x > 0))
  /\ UNCHANGED <<cursor_visible_, cmd_history_, cmd_history_index_, entered>>

\* Writes a character at the cursor and moves the cursor behind it.
WriteNext(w, c) == [WriteAscii(w, w.x, w.y, c) EXCEPT !.x = @ + 1]

\* Is there room for another character?
Room == window.x < kColumns - 1 /\ Len(linebuf_) < kLineMax - 1

Type(c) ==
  /\ IF Room
     THEN /\ linebuf_' = Append(linebuf_, c)
          /\ window' = DrawCursor(WriteNext(Erased, c), TRUE)
     ELSE window' = DrawCursor(Erased, TRUE) /\ UNCHANGED linebuf_
  /\ SendArea(TwoCells(Erased))
  /\ UNCHANGED <<cursor_visible_, cmd_history_, cmd_history_index_, entered, prompt_erased>>

\* up is direction = 1: the next older line, down the next newer one; past the
\* newest the line is empty.
HistoryUpDown(up) ==
  LET index == IF up THEN IF cmd_history_index_ + 1 < Len(cmd_history_)
                          THEN cmd_history_index_ + 1 ELSE cmd_history_index_
               ELSE IF cmd_history_index_ >= 0
                    THEN cmd_history_index_ - 1 ELSE cmd_history_index_
      history == IF index >= 0 THEN cmd_history_[index + 1] ELSE <<>>
      draw_area == Columns(1, window.y, kColumns - 1)
      shown == FoldLeft(WriteNext, [FillRectangle(Erased, draw_area) EXCEPT !.x = 1], history)
  IN  /\ cmd_history_index_' = index
      /\ linebuf_' = history
      /\ window' = DrawCursor(shown, TRUE)
      /\ SendArea(draw_area)
      /\ UNCHANGED <<cursor_visible_, cmd_history_, entered, prompt_erased>>

\* A key with no character and no meaning here: the cursor is drawn.
OtherKey ==
  /\ window' = DrawCursor(Erased, TRUE)
  /\ SendArea(TwoCells(Erased))
  /\ UNCHANGED <<cursor_visible_, lineVars>>

\* kTimerTimeout.  InputKey shows the cursor without setting cursor_visible_.
BlinkCursor ==
  /\ cursor_visible_' = ~cursor_visible_
  /\ window' = DrawCursor(window, cursor_visible_')
  /\ SendArea({cursor_})
  /\ UNCHANGED lineVars

\* Main's LayerManager::Draw of the area: what the window holds by now.
MainDrawsArea ==
  /\ areas # <<>>
  /\ areas' = Tail(areas)
  /\ screen' = [c \in Cells |-> IF c \in Head(areas) THEN window.cells[c] ELSE screen[c]]
  /\ UNCHANGED <<window, cursor_visible_, lineVars, keys>>

\* The constructor; Activate draws the whole window.
Init ==
  /\ window = TerminalPrint([x |-> 0, y |-> 0, cells |-> [c \in Cells |-> {}]], Prompt)
  /\ screen = window.cells
  /\ cursor_visible_ = FALSE
  /\ linebuf_ = <<>>
  /\ cmd_history_ = <<>> /\ cmd_history_index_ = -1
  /\ areas = <<>>
  /\ entered = <<>>
  /\ prompt_erased = FALSE
  /\ keys = 0

Next ==
  \/ Enter \/ Backspace
  \/ \E c \in Chars : Type(c)
  \/ \E up \in BOOLEAN : HistoryUpDown(up)
  \/ OtherKey \/ BlinkCursor
  \/ MainDrawsArea

Spec == Init /\ [][Next]_vars
-----------------------------------------------------------------------------
(* Safety *)

Marks == Drawable \cup {"cursor"}
Glyph(c) == IF c = Space THEN {} ELSE {c}

\* linebuf_ never needs the byte its terminating zero takes.
TypeOK ==
  /\ cursor_ \in Cells
  /\ window.cells \in [Cells -> SUBSET Marks]
  /\ screen \in [Cells -> SUBSET Marks]
  /\ cursor_visible_ \in BOOLEAN /\ prompt_erased \in BOOLEAN
  /\ linebuf_ \in Seq(Chars) /\ Len(linebuf_) < kLineMax
  /\ cmd_history_ \in Seq(Seq(Chars)) /\ Len(cmd_history_) \in {0, kHistory}
  /\ cmd_history_index_ \in -1..(Len(cmd_history_) - 1)
  /\ areas \in Seq(SUBSET Cells) /\ Len(areas) <= MaxPending
  /\ keys \in 0..MaxKeys

\* What Enter would execute stands in the row of the cursor, right before the
\* cursor, from column 0 or 1 on, whatever was typed, erased, recalled or
\* scrolled before; nothing is drawn after the cursor.
LineIsShown ==
  LET first == window.x - Len(linebuf_)
  IN  /\ first \in {0, 1}
      /\ \A i \in 1..Len(linebuf_) :
           window.cells[<<first + i - 1, window.y>>] = Glyph(linebuf_[i])
      /\ \A c \in Columns(window.x + 1, window.y, kColumns) : window.cells[c] = {}

\* What is in front of the line is the prompt and nothing else: the row shows
\* exactly what Enter would execute.  The exception is a line whose prompt a
\* Backspace has erased: typed then, it starts in column 0; recalled then, it
\* starts in column 1, and a character typed before may be left in column 0,
\* which HistoryUpDown does not redraw.
PromptIsShown ==
  ~prompt_erased => /\ window.x = Len(linebuf_) + 1
                    /\ window.cells[<<0, window.y>>] = {">"}

\* No cursor is left behind where the cursor has been.
OneCursor == \A c \in Cells : "cursor" \in window.cells[c] => c = cursor_ /\ window.cells[c] = {"cursor"}

\* Types; the line Enter executes is the one shown, behind its prompt; one cursor.
TerminalInv == TypeOK /\ LineIsShown /\ PromptIsShown /\ OneCursor

\* The areas on their way to main cover every cell where the screen is behind
\* the window: once main has read its messages the screen shows the window.
\* The first cell of the cursor's row may be missed after its prompt was erased:
\* HistoryUpDown redraws from the second column on.
ScreenCatchesUp ==
  \A c \in Text :
    \/ screen[c] = window.cells[c]
    \/ \E i \in 1..Len(areas) : c \in areas[i]
    \/ prompt_erased /\ c = <<0, window.y>>

\* The history holds the newest kHistory lines entered, newest first.  The
\* first line of all may be lost: pop_back was called on an empty deque.
HistoryKeepsLines ==
  \A i \in 1..Len(entered) :
    i < Len(entered) /\ i <= kHistory => cmd_history_[i] = entered[i]
===============================================================================
