-------------------------------- MODULE Layers --------------------------------
(***************************************************************************)
(* The window system: LayerManager and ActiveLayer (kernel/layer.cpp) with *)
(* the drawing they call (Window::DrawTo, FrameBuffer::Copy, operator&),   *)
(* driven by the mouse (kernel/mouse.cpp), the start-up code, the main     *)
(* loop's redraws and the terminal's draw messages.                        *)
(*                                                                         *)
(* What a window shows is abstracted to which window it is and whether its *)
(* title was drawn active.  Every handler is one step: Kernel checks that  *)
(* main and the terminal never use the layers at the same time.            *)
(***************************************************************************)
EXTENDS Integers, Sequences, SequencesExt, FiniteSets

CONSTANTS
  ScreenSize,      \* <<width, height>>
  Size,            \* the size of each layer's window
  StartPos,        \* where the start-up code puts each layer
  MouseShape,      \* the pixels of the mouse window that are not transparent
  Displacements,   \* what the mouse may report as its movement
  DrawAreas        \* the areas a DrawArea message may name, in the window

\* Layer ids, in the order NewLayer hands them out.
Background == 1
ConsoleLayer == 2
MainWindow == 3
TextWindow == 4
MouseLayer == 5
Terminal == 6
Layers == 1..6
Toplevel == {MainWindow, TextWindow, Terminal}
Draggable == Toplevel

\* The background is as large as the screen and the cursor starts on it; the
\* pixels of the mouse window lie within its size.
ASSUME LayersAssumption ==
  /\ ScreenSize \in (Nat \ {0}) \X (Nat \ {0})
  /\ Size \in [Layers -> Nat \X Nat]
  /\ StartPos \in [Layers -> Int \X Int]
  /\ Size[Background] = ScreenSize /\ StartPos[Background] = <<0, 0>>
  /\ StartPos[MouseLayer] \in (0..(ScreenSize[1] - 1)) \X (0..(ScreenSize[2] - 1))
  /\ MouseShape \subseteq
       (0..(Size[MouseLayer][1] - 1)) \X (0..(Size[MouseLayer][2] - 1))
  /\ Displacements \subseteq Int \X Int
  /\ DrawAreas \subseteq [pos : Int \X Int, size : Int \X Int]

Plus(a, b) == <<a[1] + b[1], a[2] + b[2]>>
Minus(a, b) == <<a[1] - b[1], a[2] - b[2]>>
Lesser(x, y) == IF x < y THEN x ELSE y
Greater(x, y) == IF x < y THEN y ELSE x
ElementMin(a, b) == <<Lesser(a[1], b[1]), Lesser(a[2], b[2])>>
ElementMax(a, b) == <<Greater(a[1], b[1]), Greater(a[2], b[2])>>

Rect(pos, size) == [pos |-> pos, size |-> size]
Inside(p, r) ==
  \A k \in 1..2 : r.pos[k] <= p[k] /\ p[k] < r.pos[k] + r.size[k]

\* operator& of two rectangles
Intersect(l, r) ==
  LET l_end == Plus(l.pos, l.size)
      r_end == Plus(r.pos, r.size)
      pos   == ElementMax(l.pos, r.pos)
  IN  IF \E k \in 1..2 : l_end[k] < r.pos[k] \/ r_end[k] < l.pos[k]
      THEN Rect(<<0, 0>>, <<0, 0>>)
      ELSE Rect(pos, Minus(ElementMin(l_end, r_end), pos))

Screen == Rect(<<0, 0>>, ScreenSize)
Pixels == (0..(ScreenSize[1] - 1)) \X (0..(ScreenSize[2] - 1))

VARIABLES
  g,       \* what LayerManager keeps, see below
  active_layer_, mouse_layer_,                    \* ActiveLayer
  position_, drag_layer_id_, previous_left,       \* Mouse
  mouse_moved                                     \* OnInterrupt has run

mouseVars == <<position_, drag_layer_id_, previous_left, mouse_moved>>
layersVars == <<g, active_layer_, mouse_layer_, mouseVars>>

(***************************************************************************)
(* g.stack    layer_stack_, bottom first                                   *)
(* g.pos      Layer::pos_                                                  *)
(* g.lit      the windows whose title is drawn active                      *)
(* g.back, g.screen   the back buffer and the frame buffer: for each pixel *)
(*            the window it shows and whether that was active              *)
(***************************************************************************)
Shows(s, id) == <<id, id \in s.lit>>
Nothing == <<0, FALSE>>
Contents == (Layers \X BOOLEAN) \cup {Nothing}
WindowArea(s, id) == Rect(s.pos[id], Size[id])

\* FrameBuffer::Copy: the part of the destination that is written.
CopyArea(dst_pos, src_size, src_area) ==
  Intersect(Intersect(Screen, Rect(Minus(dst_pos, src_area.pos), src_size)),
            Rect(dst_pos, src_area.size))

\* Window::DrawTo on the back buffer.  A window with a transparent colour is
\* drawn pixel by pixel and without regard to the area.
DrawTo(s, id, area) ==
  LET part    == Intersect(area, WindowArea(s, id))
      copied  == CopyArea(part.pos, Size[id], Rect(Minus(part.pos, s.pos[id]), part.size))
      drawn   == IF id = MouseLayer
                 THEN {p \in Pixels : Minus(p, s.pos[id]) \in MouseShape}
                 ELSE {p \in Pixels : Inside(p, copied)}
  IN  [s EXCEPT !.back = [p \in Pixels |-> IF p \in drawn THEN Shows(s, id) ELSE @[p]]]

DrawLayers(s, ids, area) == FoldLeft(LAMBDA acc, id : DrawTo(acc, id, area), s, ids)

\* screen_->Copy(area.pos, back_buffer_, area)
CopyToScreen(s, area) ==
  LET copied == CopyArea(area.pos, ScreenSize, area)
  IN  [s EXCEPT !.screen = [p \in Pixels |-> IF Inside(p, copied) THEN s.back[p] ELSE @[p]]]

\* Draw(area)
DrawAll(s, area) == CopyToScreen(DrawLayers(s, s.stack, area), area)

InStack(s, id) == \E h \in 1..Len(s.stack) : s.stack[h] = id
IndexIn(s, id) == CHOOSE h \in 1..Len(s.stack) : s.stack[h] = id

\* Draw(id, area): the layer and those above it.  For a layer that is not in
\* the stack window_area is never assigned: some rectangle, junk, is copied.
WholeWindow == Rect(<<0, 0>>, <<-1, -1>>)
Draw(s, id, area, junk) ==
  LET whole == WindowArea(s, id)
      clip  == IF area.size[1] >= 0 \/ area.size[2] >= 0
               THEN Intersect(whole, Rect(Plus(area.pos, whole.pos), area.size))
               ELSE whole
  IN  IF InStack(s, id)
      THEN CopyToScreen(DrawLayers(s, SubSeq(s.stack, IndexIn(s, id), Len(s.stack)), clip), clip)
      ELSE CopyToScreen(s, junk)

\* Mutant: the area the window leaves is not redrawn.
MoveWithoutErase(s, id, new_pos, junk) == Draw([s EXCEPT !.pos[id] = new_pos], id, WholeWindow, junk)

\* Move and MoveRelative
Move(s, id, new_pos, junk) ==
  LET moved == [s EXCEPT !.pos[id] = new_pos]
  IN  Draw(DrawAll(moved, WindowArea(s, id)), id, WholeWindow, junk)
MoveRelative(s, id, pos_diff, junk) == Move(s, id, Plus(s.pos[id], pos_diff), junk)

Hide(s, id) ==
  IF InStack(s, id) THEN [s EXCEPT !.stack = RemoveAt(@, IndexIn(s, id))] ELSE s

\* Mutant: a layer already in the stack is not erased first.
UpDownTwice(s, id, new_height) ==
  IF new_height < 0 THEN Hide(s, id)
  ELSE [s EXCEPT !.stack = InsertAt(@, Lesser(new_height, Len(s.stack)) + 1, id)]

\* Heights count from 0.  A layer already in the stack is erased before it is
\* inserted, so the highest place it can take is one lower.
UpDown(s, id, new_height) ==
  LET n == Len(s.stack)
      h == Lesser(new_height, n)
  IN  IF new_height < 0 THEN Hide(s, id)
      ELSE IF ~InStack(s, id) THEN [s EXCEPT !.stack = InsertAt(@, h + 1, id)]
      ELSE [s EXCEPT !.stack = InsertAt(RemoveAt(@, IndexIn(s, id)), Lesser(h, n - 1) + 1, id)]

\* Mutant: off by one.
HeightBelow(s, id) == IF InStack(s, id) THEN IndexIn(s, id) - 2 ELSE -1

GetHeight(s, id) == IF InStack(s, id) THEN IndexIn(s, id) - 1 ELSE -1

\* The topmost layer with a window at a position; 0 for none.
FindLayerByPosition(s, p, exclude_id) ==
  LET hits == {h \in 1..Len(s.stack) :
                 s.stack[h] # exclude_id /\ Inside(p, WindowArea(s, s.stack[h]))}
  IN  IF hits = {} THEN 0
      ELSE s.stack[CHOOSE h \in hits : \A k \in hits : k <= h]

\* ActiveLayer::Activate: active is active_layer_ before the call.
Activate(s, active, mouse, id, junk) ==
  LET off == [s EXCEPT !.lit = @ \ {active}]
      s1  == IF active > 0 THEN Draw(off, active, WholeWindow, junk) ELSE s
      on  == [s1 EXCEPT !.lit = @ \cup {id}]
      up  == UpDown(on, id, GetHeight(on, mouse) - 1)
  IN  IF active = id THEN s
      ELSE IF id = 0 THEN s1
      ELSE Draw(up, id, WholeWindow, junk)

-----------------------------------------------------------------------------
\* What uninitialised coordinates can name, once clipped to the screen.
JunkRects ==
  {Rect(p, z) : p \in Pixels, z \in (0..ScreenSize[1]) \X (0..ScreenSize[2])}

\* InitializeLayer, InitializeMainWindow, InitializeTextWindow and the full
\* Draw that follows.
Top == 1000
LayersInit ==
  /\ g = LET empty == [stack  |-> <<>>,
                       pos    |-> [id \in Layers |->
                                     IF id \in {MouseLayer, Terminal} THEN <<0, 0>>
                                     ELSE StartPos[id]],
                       lit    |-> {},
                       back   |-> [p \in Pixels |-> Nothing],
                       screen |-> [p \in Pixels |-> Nothing]]
             desk  == UpDown(UpDown(empty, Background, 0), ConsoleLayer, 1)
             wins  == UpDown(UpDown(desk, MainWindow, Top), TextWindow, Top)
         IN  DrawAll(wins, Screen)
  /\ active_layer_ = 0 /\ mouse_layer_ = 0
  /\ position_ = <<0, 0>> /\ drag_layer_id_ = 0 /\ previous_left = FALSE
  /\ mouse_moved = FALSE

\* InitializeMouse: SetPosition draws the layer before UpDown shows it.
InitializeMouse(junk) ==
  /\ mouse_layer_ = 0
  /\ g' = UpDown(Move(g, MouseLayer, StartPos[MouseLayer], junk), MouseLayer, Top)
  /\ position_' = StartPos[MouseLayer]
  /\ mouse_layer_' = MouseLayer
  /\ UNCHANGED <<active_layer_, drag_layer_id_, previous_left, mouse_moved>>

\* TaskTerminal's set-up, which Kernel shows to run after InitializeMouse:
\* Move of a layer not yet in the stack, then its first Activate.
StartTerminal(junk) ==
  /\ mouse_layer_ # 0
  /\ ~InStack(g, Terminal)
  /\ g' = Activate(Move(g, Terminal, StartPos[Terminal], junk),
                   active_layer_, mouse_layer_, Terminal, junk)
  /\ active_layer_' = Terminal
  /\ UNCHANGED <<mouse_layer_, mouseVars>>

\* Mouse::OnInterrupt.  Every layer involved is in the stack.
MoveCursor(displacement) ==
  ElementMax(ElementMin(Plus(position_, displacement), Minus(ScreenSize, <<1, 1>>)), <<0, 0>>)

\* The layer a press hits, if it can be dragged: what is activated.
Pressed(s, p) ==
  LET hit == FindLayerByPosition(s, p, MouseLayer)
  IN  IF hit \in Draggable THEN hit ELSE 0

\* Mutant: a dragged window follows what the mouse reports.
DragRaw(new, displacement) == displacement

\* posdiff: a dragged window follows what the cursor really does.
DragDistance(new, displacement) == Minus(new, position_)

\* drag_layer_id_ after a report.
DragAfter(press, left, hit) ==
  CASE press /\ hit # 0       -> hit
    [] previous_left /\ ~left -> 0
    [] OTHER                  -> drag_layer_id_

OnInterrupt(left, displacement) ==
  LET new   == MoveCursor(displacement)
      moved == Move(g, MouseLayer, new, Screen)
      hit   == Pressed(moved, new)
      press == ~previous_left /\ left
      drag  == previous_left /\ left /\ drag_layer_id_ > 0
  IN  /\ mouse_layer_ # 0
      /\ position_' = new
      /\ previous_left' = left
      /\ mouse_moved' = TRUE
      /\ g' = CASE press -> Activate(moved, active_layer_, mouse_layer_, hit, Screen)
                [] drag  -> MoveRelative(moved, drag_layer_id_, DragDistance(new, displacement), Screen)
                [] OTHER -> moved
      /\ active_layer_' = IF press THEN hit ELSE active_layer_
      /\ drag_layer_id_' = DragAfter(press, left, hit)
      /\ UNCHANGED mouse_layer_

\* Redraws: the console's PutString, the main loop's counter and text cursor,
\* and the area of the terminal a kLayer message names (ProcessLayerMessage).
Redraw(id) ==
  /\ g' = Draw(g, id, WholeWindow, Screen)
  /\ UNCHANGED <<active_layer_, mouse_layer_, mouseVars>>

RedrawArea(area) ==
  /\ InStack(g, Terminal)
  /\ g' = Draw(g, Terminal, area, Screen)
  /\ UNCHANGED <<active_layer_, mouse_layer_, mouseVars>>

LayersNext ==
  \/ \E junk \in JunkRects : InitializeMouse(junk) \/ StartTerminal(junk)
  \/ \E left \in BOOLEAN, d \in Displacements : OnInterrupt(left, d)
  \/ \E id \in {ConsoleLayer, MainWindow, TextWindow} : Redraw(id)
  \/ \E area \in DrawAreas : RedrawArea(area)

LayersSpec == LayersInit /\ [][LayersNext]_layersVars
-----------------------------------------------------------------------------
(* Safety *)

\* Every variable keeps its type.
LayersTypeOK ==
  /\ g.stack \in Seq(Layers)
  /\ g.pos \in [Layers -> Int \X Int]
  /\ g.lit \subseteq Toplevel
  /\ g.back \in [Pixels -> Contents] /\ g.screen \in [Pixels -> Contents]
  /\ active_layer_ \in Toplevel \cup {0} /\ mouse_layer_ \in {0, MouseLayer}
  /\ position_ \in Pixels /\ drag_layer_id_ \in Draggable \cup {0}
  /\ previous_left \in BOOLEAN /\ mouse_moved \in BOOLEAN

\* Raising windows keeps the stack a permutation of the visible layers, with
\* the background at the bottom, the console above it and the mouse on top:
\* UpDown's erase and insert never drop, double or misplace a layer.
StackWellFormed ==
  /\ IsInjective(g.stack)
  /\ g.stack[1] = Background /\ g.stack[2] = ConsoleLayer
  /\ mouse_layer_ # 0 => g.stack[Len(g.stack)] = MouseLayer
  /\ \A id \in {MainWindow, TextWindow} : InStack(g, id)

\* Exactly the active layer's title is lit.
OnlyActiveLit == g.lit = {active_layer_} \ {0}

\* The mouse's layer is where the mouse is, on the screen.
CursorFollowsMouse == mouse_layer_ # 0 => g.pos[MouseLayer] = position_

\* A window is being dragged only while the button is down.
DragNeedsButton == drag_layer_id_ # 0 => previous_left

\* The state the window system keeps between two calls: the stack, the active
\* window and the drag agree with each other and with the mouse.
WindowsInv ==
  LayersTypeOK /\ StackWellFormed /\ OnlyActiveLit /\ CursorFollowsMouse /\ DragNeedsButton

\* What the user sees is the stack: each pixel of the screen shows the topmost
\* window that covers it, as it looks now, although every operation redraws
\* only the areas it thinks it has changed.  The back buffer, which the next
\* partial copy relies on, agrees.  (Until the first movement the cursor may
\* not have been drawn yet.)
Covers(s, id, p) ==
  IF id = MouseLayer THEN Minus(p, s.pos[id]) \in MouseShape
  ELSE Inside(p, WindowArea(s, id))
TopAt(s, p, ids) ==
  LET over == {h \in 1..Len(s.stack) : s.stack[h] \in ids /\ Covers(s, s.stack[h], p)}
  IN  Shows(s, s.stack[CHOOSE h \in over : \A k \in over : k <= h])
ScreenShowsStack ==
  \A p \in Pixels :
    \/ g.screen[p] = TopAt(g, p, Layers) /\ g.back[p] = TopAt(g, p, Layers)
    \/ ~mouse_moved /\ {g.screen[p], g.back[p]} \subseteq
                          {TopAt(g, p, Layers), TopAt(g, p, Layers \ {MouseLayer})}

\* A press that changes the active window puts the new one above every other
\* window, directly below the mouse.
PressRaises ==
  [][(previous_left' /\ ~previous_left /\ active_layer_' \notin {0, active_layer_}) =>
       g'.stack[Len(g'.stack) - 1] = active_layer_']_layersVars

\* A dragged window keeps its offset to the cursor, even where the cursor is
\* stopped at the edge of the screen, and no other window moves.
DragKeepsOffset ==
  [][mouse_layer_ # 0 =>
       \A id \in Toplevel \cap ToSet(g.stack) :
         IF id = drag_layer_id_ /\ previous_left /\ previous_left'
         THEN Minus(g'.pos[id], position_') = Minus(g.pos[id], position_)
         ELSE g'.pos[id] = g.pos[id]]_layersVars
===============================================================================
