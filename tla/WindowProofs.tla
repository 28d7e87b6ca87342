----------------------------- MODULE WindowProofs -----------------------------
(***************************************************************************)
(* Proofs about the layers and windows, and about the terminal.  Loops     *)
(* over layers, characters and directory entries are folds; Induction says *)
(* how they are unrolled.                                                  *)
(***************************************************************************)
EXTENDS Layers, Terminal, Induction

-----------------------------------------------------------------------------
(* Rectangles *)

Points == Int \X Int
Rects == [pos : Points, size : Points]

LEMMA PointArithmetic ==
  ASSUME NEW a \in Points, NEW b \in Points
  PROVE  /\ Plus(a, b) \in Points /\ Minus(a, b) \in Points
         /\ ElementMin(a, b) \in Points /\ ElementMax(a, b) \in Points
         /\ Minus(a, Minus(a, b)) = b /\ Minus(a, a) = <<0, 0>>
BY DEF Points, Plus, Minus, ElementMin, ElementMax, Lesser, Greater

LEMMA RectIsRect ==
  ASSUME NEW a \in Points, NEW b \in Points
  PROVE  Rect(a, b) \in Rects /\ Rect(a, b).pos = a /\ Rect(a, b).size = b
BY DEF Rect, Rects

\* Inside, coordinate by coordinate.
LEMMA InsideIs ==
  ASSUME NEW p, NEW r
  PROVE  Inside(p, r) <=> /\ r.pos[1] <= p[1] /\ p[1] < r.pos[1] + r.size[1]
                          /\ r.pos[2] <= p[2] /\ p[2] < r.pos[2] + r.size[2]
<1>1. 1..2 = {1, 2} OBVIOUS
<1> QED BY <1>1 DEF Inside

\* operator& computes the intersection, whatever the rectangles are.
LEMMA IntersectIs ==
  ASSUME NEW l \in Rects, NEW r \in Rects, NEW p \in Points
  PROVE  /\ Intersect(l, r) \in Rects
         /\ Inside(p, Intersect(l, r)) <=> Inside(p, l) /\ Inside(p, r)
<1> DEFINE l_end == Plus(l.pos, l.size)
           r_end == Plus(r.pos, r.size)
           pos == ElementMax(l.pos, r.pos)
           size == Minus(ElementMin(l_end, r_end), pos)
           apart == \E k \in 1..2 : l_end[k] < r.pos[k] \/ r_end[k] < l.pos[k]
<1>0. l.pos \in Points /\ r.pos \in Points /\ l.size \in Points /\ r.size \in Points
  BY DEF Rects
<1>1. l_end \in Points /\ r_end \in Points BY <1>0, PointArithmetic
<1>2. pos \in Points BY <1>0, PointArithmetic
<1>3. size \in Points
  <2> HIDE DEF pos, l_end, r_end
  <2>1. ElementMin(l_end, r_end) \in Points BY <1>1, PointArithmetic
  <2> QED BY <1>2, <2>1, PointArithmetic
<1>4. Intersect(l, r) = IF apart THEN Rect(<<0, 0>>, <<0, 0>>) ELSE Rect(pos, size)
  BY DEF Intersect
<1>5. <<0, 0>> \in Points BY DEF Points
<1>6. Intersect(l, r) \in Rects
  <2> HIDE DEF apart, pos, size
  <2> QED BY <1>2, <1>3, <1>4, <1>5, RectIsRect
<1>7a. PICK px \in Int, py \in Int : p = <<px, py>> BY DEF Points
<1>7b. PICK lx \in Int, ly \in Int : l.pos = <<lx, ly>> BY <1>0 DEF Points
<1>7c. PICK lw \in Int, lh \in Int : l.size = <<lw, lh>> BY <1>0 DEF Points
<1>7d. PICK rx \in Int, ry \in Int : r.pos = <<rx, ry>> BY <1>0 DEF Points
<1>7e. PICK rw \in Int, rh \in Int : r.size = <<rw, rh>> BY <1>0 DEF Points
<1>7. /\ p = <<px, py>> /\ l.pos = <<lx, ly>> /\ l.size = <<lw, lh>>
      /\ r.pos = <<rx, ry>> /\ r.size = <<rw, rh>>
  BY <1>7a, <1>7b, <1>7c, <1>7d, <1>7e
<1>8. Inside(p, l) <=> lx <= px /\ px < lx + lw /\ ly <= py /\ py < ly + lh
  BY <1>7, InsideIs
<1>9. Inside(p, r) <=> rx <= px /\ px < rx + rw /\ ry <= py /\ py < ry + rh
  BY <1>7, InsideIs
<1>10. l_end = <<lx + lw, ly + lh>> /\ r_end = <<rx + rw, ry + rh>>
  BY <1>7 DEF Plus
<1>11. apart <=> \/ lx + lw < rx \/ rx + rw < lx
                 \/ ly + lh < ry \/ ry + rh < ly
  <2>1. 1..2 = {1, 2} OBVIOUS
  <2> HIDE DEF l_end, r_end
  <2> QED BY <2>1, <1>7, <1>10
<1>12. CASE apart
  <2>1. Intersect(l, r) = Rect(<<0, 0>>, <<0, 0>>) BY <1>4, <1>12
  <2>2. Inside(p, Intersect(l, r)) <=> 0 <= px /\ px < 0 + 0 /\ 0 <= py /\ py < 0 + 0
    BY <2>1, <1>7, InsideIs DEF Rect
  <2> HIDE DEF apart
  <2> QED BY <2>2, <1>8, <1>9, <1>11, <1>12, <1>6
<1>13. CASE ~apart
  <2>1. Intersect(l, r) = Rect(pos, size) BY <1>4, <1>13
  <2>2. pos = <<Greater(lx, rx), Greater(ly, ry)>> BY <1>7 DEF ElementMax
  <2>3. size = <<Lesser(lx + lw, rx + rw) - Greater(lx, rx),
                 Lesser(ly + lh, ry + rh) - Greater(ly, ry)>>
    <3> HIDE DEF pos, l_end, r_end
    <3> QED BY <1>10, <2>2 DEF Minus, ElementMin
  <2> HIDE DEF apart, pos, size
  <2>4. Inside(p, Intersect(l, r)) <=>
          /\ Greater(lx, rx) <= px
          /\ px < Greater(lx, rx) + (Lesser(lx + lw, rx + rw) - Greater(lx, rx))
          /\ Greater(ly, ry) <= py
          /\ py < Greater(ly, ry) + (Lesser(ly + lh, ry + rh) - Greater(ly, ry))
    BY <2>1, <2>2, <2>3, <1>7, InsideIs DEF Rect
  <2> QED BY <2>4, <1>6, <1>8, <1>9 DEF Greater, Lesser
<1> HIDE DEF apart
<1> QED BY <1>12, <1>13

LEMMA ScreenIs ==
  /\ ScreenSize \in Points /\ <<0, 0>> \in Points /\ Screen \in Rects
  /\ Pixels \subseteq Points
  /\ \A p \in Pixels : Inside(p, Screen)
<1>1. PICK w \in Nat \ {0}, h \in Nat \ {0} : ScreenSize = <<w, h>>
  BY LayersAssumption
<1>2. ScreenSize \in Points /\ <<0, 0>> \in Points BY <1>1 DEF Points
<1>3. Screen \in Rects BY <1>2, RectIsRect DEF Screen
<1>4. Pixels \subseteq Points BY <1>1 DEF Pixels, Points
<1>5. ASSUME NEW p \in Pixels PROVE Inside(p, Screen)
  <2>1. p[1] \in 0..(w - 1) /\ p[2] \in 0..(h - 1) BY <1>1 DEF Pixels
  <2>2. Screen.pos = <<0, 0>> /\ Screen.size = <<w, h>> BY <1>1 DEF Screen, Rect
  <2> QED BY <2>1, <2>2, InsideIs
<1> QED BY <1>2, <1>3, <1>4, <1>5

\* What Copy writes: the pixels of both the source, put where it belongs, and
\* the area copied.
LEMMA CopyAreaIs ==
  ASSUME NEW dst \in Points, NEW size \in Points, NEW area \in Rects, NEW p \in Pixels
  PROVE  Inside(p, CopyArea(dst, size, area)) <=>
           /\ Inside(p, Rect(Minus(dst, area.pos), size))
           /\ Inside(p, Rect(dst, area.size))
<1>1. area.pos \in Points /\ area.size \in Points BY DEF Rects
<1>2. PICK from \in Points : from = Minus(dst, area.pos) BY <1>1, PointArithmetic
<1>3. PICK a \in Rects : a = Rect(from, size) BY RectIsRect
<1>4. PICK b \in Rects : b = Rect(dst, area.size) BY <1>1, RectIsRect
<1>5. p \in Points /\ Screen \in Rects /\ Inside(p, Screen) BY ScreenIs
<1>6. PICK c \in Rects : c = Intersect(Screen, a) BY <1>5, IntersectIs
<1>7. Inside(p, c) <=> Inside(p, a) BY <1>5, <1>6, IntersectIs
<1>8. Inside(p, Intersect(c, b)) <=> Inside(p, c) /\ Inside(p, b) BY <1>5, IntersectIs
<1>9. CopyArea(dst, size, area) = Intersect(c, b) BY <1>2, <1>3, <1>4, <1>6 DEF CopyArea
<1> QED BY <1>2, <1>3, <1>4, <1>7, <1>8, <1>9

-----------------------------------------------------------------------------
(* Drawing the layers of a list into the back buffer *)

States ==
  [stack : Seq(Layers), pos : [Layers -> Points], lit : SUBSET Layers,
   back : [Pixels -> Contents], screen : [Pixels -> Contents]]

\* Two states with the same layers in the same places.
SameLayout(r, s) == r.stack = s.stack /\ r.pos = s.pos /\ r.lit = s.lit

\* Does DrawTo draw the pixel?
Draws(s, id, area, p) == Covers(s, id, p) /\ (id = MouseLayer \/ Inside(p, area))

LEMMA StateIs ==
  ASSUME NEW s \in States
  PROVE  /\ s.stack \in Seq(Layers) /\ s.pos \in [Layers -> Points] /\ s.lit \in SUBSET Layers
         /\ s.back \in [Pixels -> Contents] /\ s.screen \in [Pixels -> Contents]
BY DEF States

LEMMA WindowAreaIs ==
  ASSUME NEW s \in States, NEW id \in Layers
  PROVE  /\ s.pos[id] \in Points /\ Size[id] \in Points
         /\ WindowArea(s, id) \in Rects
         /\ WindowArea(s, id).pos = s.pos[id] /\ WindowArea(s, id).size = Size[id]
<1>1. s.pos[id] \in Points BY StateIs
<1>2. Size[id] \in Points BY LayersAssumption DEF Points
<1> QED BY <1>1, <1>2, RectIsRect DEF WindowArea

LEMMA ShowsIs ==
  ASSUME NEW s \in States, NEW id \in Layers
  PROVE  Shows(s, id) \in Contents
<1>1. <<id, TRUE>> \in Layers \X BOOLEAN /\ <<id, FALSE>> \in Layers \X BOOLEAN
  OBVIOUS
<1>2. CASE id \in s.lit
  <2>1. (id \in s.lit) = TRUE BY <1>2
  <2> QED BY <1>1, <2>1, Zenon DEF Shows, Contents
<1>3. CASE id \notin s.lit
  <2>1. (id \in s.lit) = FALSE BY <1>3
  <2> QED BY <1>1, <2>1, Zenon DEF Shows, Contents
<1> QED BY <1>2, <1>3

LEMMA DrawToIs ==
  ASSUME NEW s \in States, NEW id \in Layers, NEW area \in Rects
  PROVE  /\ DrawTo(s, id, area) \in States
         /\ SameLayout(DrawTo(s, id, area), s)
         /\ DrawTo(s, id, area).screen = s.screen
         /\ \A p \in Pixels : DrawTo(s, id, area).back[p] =
              IF Draws(s, id, area, p) THEN Shows(s, id) ELSE s.back[p]
<1> DEFINE part == Intersect(area, WindowArea(s, id))
           source == Rect(Minus(part.pos, s.pos[id]), part.size)
           copied == CopyArea(part.pos, Size[id], source)
           drawn == IF id = MouseLayer
                    THEN {p \in Pixels : Minus(p, s.pos[id]) \in MouseShape}
                    ELSE {p \in Pixels : Inside(p, copied)}
           new == [p \in Pixels |-> IF p \in drawn THEN Shows(s, id) ELSE s.back[p]]
<1>1. DrawTo(s, id, area) = [s EXCEPT !.back = new] BY DEF DrawTo
<1>2. /\ s.pos[id] \in Points /\ Size[id] \in Points /\ WindowArea(s, id) \in Rects
  BY WindowAreaIs
<1>3. part \in Rects BY <1>2, IntersectIs, ScreenIs
<1>4. ASSUME NEW p \in Pixels, id # MouseLayer
      PROVE  Inside(p, copied) <=> Inside(p, area) /\ Inside(p, WindowArea(s, id))
  <2>1. p \in Points BY ScreenIs
  <2>2. Inside(p, part) <=> Inside(p, area) /\ Inside(p, WindowArea(s, id))
    BY <2>1, <1>2, IntersectIs
  <2>3. PICK r \in Rects : r = part BY <1>3
  <2>4. r.pos \in Points /\ r.size \in Points BY DEF Rects
  <2>5. PICK from \in Points : from = Minus(r.pos, s.pos[id]) BY <1>2, <2>4, PointArithmetic
  <2>6. PICK src \in Rects : src = source /\ src.pos = from /\ src.size = r.size
    BY <2>3, <2>4, <2>5, RectIsRect
  <2>7. Minus(r.pos, from) = s.pos[id] BY <1>2, <2>4, <2>5, PointArithmetic
  <2>8. Inside(p, CopyArea(r.pos, Size[id], src)) <=>
           /\ Inside(p, Rect(Minus(r.pos, src.pos), Size[id]))
           /\ Inside(p, Rect(r.pos, src.size))
    BY <1>2, <2>4, CopyAreaIs
  <2>9. Inside(p, Rect(r.pos, r.size)) <=> Inside(p, r)
    BY <2>4, RectIsRect, InsideIs
  <2>10. Inside(p, copied) <=> Inside(p, Rect(s.pos[id], Size[id])) /\ Inside(p, r)
    BY <2>3, <2>6, <2>7, <2>8, <2>9
  <2> QED BY <2>2, <2>3, <2>10 DEF WindowArea
<1>5. \A p \in Pixels : p \in drawn <=> Draws(s, id, area, p)
  <2> SUFFICES ASSUME NEW p \in Pixels PROVE p \in drawn <=> Draws(s, id, area, p)
    OBVIOUS
  <2>1. CASE id = MouseLayer BY <2>1 DEF Draws, Covers
  <2>2. CASE id # MouseLayer
    <3> HIDE DEF copied
    <3> QED BY <2>2, <1>4 DEF Draws, Covers
  <2> QED BY <2>1, <2>2
<1>6. Shows(s, id) \in Contents BY ShowsIs
<1> HIDE DEF drawn
<1>7. new \in [Pixels -> Contents] BY <1>6, StateIs
<1>8. \A p \in Pixels : new[p] = IF Draws(s, id, area, p) THEN Shows(s, id) ELSE s.back[p]
  BY <1>5
<1> HIDE DEF new
<1>9. [s EXCEPT !.back = new] \in States BY <1>7 DEF States
<1>10. SameLayout([s EXCEPT !.back = new], s) /\ [s EXCEPT !.back = new].screen = s.screen
  BY DEF States, SameLayout
<1>11. [s EXCEPT !.back = new].back = new BY DEF States
<1> QED BY <1>1, <1>8, <1>9, <1>10, <1>11

\* What a pixel of the back buffer shows after the layers of ids are drawn,
\* one over the other.
Drawn(s, ids, n, area, p, v) ==
  \/ v = s.back[p] /\ \A h \in 1..n : ~Draws(s, ids[h], area, p)
  \/ \E h \in 1..n : /\ Draws(s, ids[h], area, p) /\ v = Shows(s, ids[h])
                     /\ \A k \in (h + 1)..n : ~Draws(s, ids[k], area, p)

LEMMA SameDraws ==
  ASSUME NEW r, NEW s, SameLayout(r, s), NEW id, NEW area, NEW p
  PROVE  /\ Draws(r, id, area, p) <=> Draws(s, id, area, p)
         /\ Covers(r, id, p) <=> Covers(s, id, p)
         /\ Shows(r, id) = Shows(s, id)
BY DEF SameLayout, Draws, Covers, Shows, WindowArea

\* FoldLeft, unrolled.
LEMMA DrawLayersSteps ==
  ASSUME NEW s \in States, NEW ids \in Seq(Layers), NEW area \in Rects
  PROVE  \E f \in [0..Len(ids) -> States] :
           /\ f[0] = s
           /\ \A i \in 1..Len(ids) : f[i] = DrawTo(f[i - 1], ids[i], area)
           /\ DrawLayers(s, ids, area) = f[Len(ids)]
<1> DEFINE n == Len(ids)
           F == [p \in States \X Layers |-> DrawTo(p[1], p[2], area)]
           Eqn(it) == it = [T \in SUBSET (DOMAIN ids) |->
              IF T = {} THEN s ELSE DrawTo(it[T \ {Max(T)}], ids[Max(T)], area)]
           iter == CHOOSE it : Eqn(it)
<1>1. DOMAIN ids = 1..n /\ n \in Nat /\ n \in 0..Len(ids) /\ ids \in [1..n -> Layers]
  OBVIOUS
<1>2. F \in [States \X Layers -> States]
  BY DrawToIs
<1>3. DrawLayers(s, ids, area) = iter[DOMAIN ids]
  BY DEF DrawLayers, FoldLeft, MapThenFoldSet
<1>4. ASSUME NEW a \in States, NEW T \in SUBSET (1..n), T # {}
      PROVE  F[<<a, ids[Max(T)]>>] = DrawTo(a, ids[Max(T)], area)
  <2>1. Max(T) \in 1..n
    BY <1>1, <1>4, MaxOf
  <2>2. PICK id \in Layers : id = ids[Max(T)]
    BY <1>1, <2>1
  <2> QED  BY <2>2
<1> HIDE DEF F
<1>5. PICK it \in [SUBSET (1..n) -> States] : IsIter(it, F, s, ids, n)
  BY <1>1, <1>2, IterExists
<1>6. Eqn(it)
  BY <1>1, <1>4, <1>5 DEF IsIter
<1>7. Eqn(iter)
  BY <1>6
<1> HIDE DEF iter
<1>8. IsFold(iter, F, s, ids, n, States, Layers)
  BY <1>1, <1>2, <1>4, <1>7 DEF IsFold
<1> HIDE DEF n
<1>10. PICK f \in [0..n -> States] : Steps(f, F, s, ids, n) /\ f[n] = iter[1..n]
  BY <1>8, FoldSteps
<1>11. \A i \in 1..n : f[i] = DrawTo(f[i - 1], ids[i], area)
  <2> SUFFICES ASSUME NEW i \in 1..n PROVE f[i] = DrawTo(f[i - 1], ids[i], area)
    OBVIOUS
  <2>1. ids[i] \in Layers /\ f[i - 1] \in States
    BY <1>1
  <2> QED  BY <1>10, <2>1 DEF F, Steps
<1> QED  BY <1>1, <1>3, <1>10, <1>11 DEF n, Steps

LEMMA DrawLayersIs ==
  ASSUME NEW s \in States, NEW ids \in Seq(Layers), NEW area \in Rects
  PROVE  /\ DrawLayers(s, ids, area) \in States
         /\ SameLayout(DrawLayers(s, ids, area), s)
         /\ DrawLayers(s, ids, area).screen = s.screen
         /\ \A p \in Pixels :
              Drawn(s, ids, Len(ids), area, p, DrawLayers(s, ids, area).back[p])
<1> DEFINE n == Len(ids)
<1>0. n \in Nat OBVIOUS
<1>1. PICK f \in [0..n -> States] :
        /\ f[0] = s
        /\ \A i \in 1..n : f[i] = DrawTo(f[i - 1], ids[i], area)
        /\ DrawLayers(s, ids, area) = f[n]
  BY DrawLayersSteps
<1> DEFINE Good(i) == /\ SameLayout(f[i], s) /\ f[i].screen = s.screen
                      /\ \A p \in Pixels : Drawn(s, ids, i, area, p, f[i].back[p])
           G == {i \in 0..n : Good(i)}
<1>2. 0 \in G
  <2>1. 0 \in 0..n /\ \A h \in 1..0 : FALSE BY <1>0
  <2>2. Good(0) BY <1>1, <2>1 DEF SameLayout, Drawn
  <2> QED BY <2>1, <2>2
<1>3. ASSUME NEW i \in 1..n, (i - 1) \in G PROVE i \in G
  <2>1. f[i - 1] \in States /\ ids[i] \in Layers /\ i \in 0..n BY <1>3
  <2>2. PICK r \in States : r = f[i - 1] BY <2>1
  <2>3. SameLayout(r, s) /\ r.screen = s.screen BY <1>3, <2>2
  <2>4. \A p \in Pixels : Drawn(s, ids, i - 1, area, p, r.back[p]) BY <1>3, <2>2
  <2>5. f[i] = DrawTo(r, ids[i], area) BY <1>1, <2>2
  <2>6. SameLayout(f[i], r) /\ f[i].screen = r.screen BY <2>1, <2>5, DrawToIs
  <2>7. SameLayout(f[i], s) /\ f[i].screen = s.screen BY <2>3, <2>6 DEF SameLayout
  <2>8. ASSUME NEW p \in Pixels PROVE Drawn(s, ids, i, area, p, f[i].back[p])
    <3>1. f[i].back[p] = IF Draws(r, ids[i], area, p) THEN Shows(r, ids[i]) ELSE r.back[p]
      BY <2>1, <2>5, DrawToIs
    <3>2. (Draws(r, ids[i], area, p) <=> Draws(s, ids[i], area, p)) /\ Shows(r, ids[i]) = Shows(s, ids[i])
      BY <2>3, SameDraws
    <3>3. i \in 1..i /\ \A k \in (i + 1)..i : FALSE OBVIOUS
    <3>4. CASE Draws(s, ids[i], area, p)
      BY <3>1, <3>2, <3>3, <3>4 DEF Drawn
    <3>5. CASE ~Draws(s, ids[i], area, p)
      <4>1. f[i].back[p] = r.back[p] BY <3>1, <3>2, <3>5
      <4>2. \A k \in 1..i : k = i \/ k \in 1..(i - 1) OBVIOUS
      <4>3. CASE r.back[p] = s.back[p] /\ \A h \in 1..(i - 1) : ~Draws(s, ids[h], area, p)
        BY <4>1, <4>2, <4>3, <3>5 DEF Drawn
      <4>4. ASSUME NEW h \in 1..(i - 1), Draws(s, ids[h], area, p), r.back[p] = Shows(s, ids[h]),
                   \A k \in (h + 1)..(i - 1) : ~Draws(s, ids[k], area, p)
            PROVE  Drawn(s, ids, i, area, p, f[i].back[p])
        <5>1. h \in 1..i /\ \A k \in (h + 1)..i : k = i \/ k \in (h + 1)..(i - 1) OBVIOUS
        <5>2. \A k \in (h + 1)..i : ~Draws(s, ids[k], area, p) BY <5>1, <4>4, <3>5
        <5> QED BY <4>1, <4>4, <5>1, <5>2 DEF Drawn
      <4> QED BY <2>4, <4>3, <4>4 DEF Drawn
    <3> QED BY <3>4, <3>5
  <2> QED BY <2>1, <2>7, <2>8
<1>4. \A i \in 0..n : i \in G
  <2> HIDE DEF G, n
  <2> QED BY <1>0, <1>2, <1>3, CountUp
<1>5. n \in 0..n /\ n \in G BY <1>0, <1>4
<1>6. Good(n) BY <1>5
<1>7. f[n] \in States BY <1>5
<1> QED BY <1>1, <1>6, <1>7

-----------------------------------------------------------------------------
(* Copying to the screen *)

LEMMA CopyToScreenIs ==
  ASSUME NEW s \in States, NEW area \in Rects
  PROVE  /\ CopyToScreen(s, area) \in States
         /\ SameLayout(CopyToScreen(s, area), s)
         /\ CopyToScreen(s, area).back = s.back
         /\ \A p \in Pixels : CopyToScreen(s, area).screen[p] =
              IF Inside(p, area) THEN s.back[p] ELSE s.screen[p]
<1> DEFINE copied == CopyArea(area.pos, ScreenSize, area)
           new == [p \in Pixels |-> IF Inside(p, copied) THEN s.back[p] ELSE s.screen[p]]
<1>1. CopyToScreen(s, area) = [s EXCEPT !.screen = new] BY DEF CopyToScreen
<1>2. ASSUME NEW p \in Pixels PROVE Inside(p, copied) <=> Inside(p, area)
  <2>1. area.pos \in Points /\ area.size \in Points BY DEF Rects
  <2>2. ScreenSize \in Points /\ Inside(p, Screen) BY ScreenIs
  <2>3. Minus(area.pos, area.pos) = <<0, 0>> BY <2>1, PointArithmetic
  <2>4. Inside(p, copied) <=> /\ Inside(p, Rect(Minus(area.pos, area.pos), ScreenSize))
                              /\ Inside(p, Rect(area.pos, area.size))
    BY <2>1, <2>2, CopyAreaIs
  <2>5. Inside(p, Rect(area.pos, area.size)) <=> Inside(p, area)
    BY <2>1, RectIsRect, InsideIs
  <2> HIDE DEF copied
  <2> QED BY <2>2, <2>3, <2>4, <2>5 DEF Screen
<1> HIDE DEF copied
<1>3. new \in [Pixels -> Contents] BY StateIs
<1>4. \A p \in Pixels : new[p] = IF Inside(p, area) THEN s.back[p] ELSE s.screen[p] BY <1>2
<1> HIDE DEF new
<1>5. [s EXCEPT !.screen = new] \in States BY <1>3 DEF States
<1>6. SameLayout([s EXCEPT !.screen = new], s) /\ [s EXCEPT !.screen = new].back = s.back
  BY DEF States, SameLayout
<1>7. [s EXCEPT !.screen = new].screen = new BY DEF States
<1> QED BY <1>1, <1>4, <1>5, <1>6, <1>7

Copied(r, s, area) ==
  /\ r \in States /\ SameLayout(r, s) /\ r.back = s.back
  /\ \A p \in Pixels : r.screen[p] = IF Inside(p, area) THEN s.back[p] ELSE s.screen[p]
LEMMA CopiedIs ==
  ASSUME NEW s \in States, NEW area \in Rects
  PROVE  Copied(CopyToScreen(s, area), s, area)
<1>1. PICK r : r = CopyToScreen(s, area) OBVIOUS
<1>2. Copied(r, s, area) BY <1>1, CopyToScreenIs DEF Copied
<1> QED BY <1>1, <1>2

-----------------------------------------------------------------------------
(* The topmost layer at a pixel *)

\* The layer at index h of the stack is the topmost of ids at the pixel.
TopOf(s, p, ids, h) ==
  /\ h \in 1..Len(s.stack) /\ s.stack[h] \in ids /\ Covers(s, s.stack[h], p)
  /\ \A k \in 1..Len(s.stack) : s.stack[k] \in ids /\ Covers(s, s.stack[k], p) => k <= h

LEMMA TopAtIs ==
  ASSUME NEW s \in States, NEW p, NEW ids, NEW h, TopOf(s, p, ids, h)
  PROVE  TopAt(s, p, ids) = Shows(s, s.stack[h])
<1> DEFINE over == {k \in 1..Len(s.stack) : s.stack[k] \in ids /\ Covers(s, s.stack[k], p)}
           top == CHOOSE k \in over : \A j \in over : j <= k
<1>1. h \in over /\ \A k \in over : k <= h BY DEF TopOf
<1>2. top \in over /\ \A k \in over : k <= top BY <1>1
<1>3. over \subseteq Int OBVIOUS
<1>4. top = h
  <2>1. top <= h /\ h <= top BY <1>1, <1>2
  <2>2. top \in Int /\ h \in Int BY <1>1, <1>2, <1>3
  <2> HIDE DEF top
  <2> QED BY <2>1, <2>2
<1>5. TopAt(s, p, ids) = Shows(s, s.stack[top]) BY DEF TopAt
<1> QED BY <1>4, <1>5

LEMMA TopExists ==
  ASSUME NEW s \in States, NEW p, NEW ids, NEW h \in 1..Len(s.stack),
         s.stack[h] \in ids, Covers(s, s.stack[h], p)
  PROVE  \E k \in 1..Len(s.stack) : TopOf(s, p, ids, k) /\ h <= k
<1> DEFINE over == {k \in 1..Len(s.stack) : s.stack[k] \in ids /\ Covers(s, s.stack[k], p)}
<1>1. h \in over /\ over \in SUBSET (1..Len(s.stack)) OBVIOUS
<1>2. Len(s.stack) \in Nat BY StateIs
<1>3. Max(over) \in over /\ \A k \in over : k <= Max(over)
  <2> HIDE DEF over
  <2> QED BY <1>1, <1>2, MaxOf
<1>4. TopOf(s, p, ids, Max(over)) BY <1>3 DEF TopOf
<1> QED BY <1>1, <1>3, <1>4

\* What the drawing relies on: the background is at the bottom and covers the
\* screen, the mouse can only be on top.
WellStacked(s) ==
  /\ Len(s.stack) >= 1 /\ s.stack[1] = Background
  /\ s.pos[Background] = <<0, 0>>
  /\ \A h \in 1..Len(s.stack) : s.stack[h] = MouseLayer => h = Len(s.stack)

LEMMA SameWellStacked ==
  ASSUME NEW r, NEW s, SameLayout(r, s), WellStacked(s)
  PROVE  WellStacked(r)
BY DEF SameLayout, WellStacked

LEMMA SameTop ==
  ASSUME NEW r, NEW s, SameLayout(r, s), NEW p, NEW ids
  PROVE  TopAt(r, p, ids) = TopAt(s, p, ids)
BY DEF SameLayout, TopAt, Covers, Shows, WindowArea

LEMMA BackgroundCovers ==
  ASSUME NEW s \in States, WellStacked(s), NEW p \in Pixels
  PROVE  Covers(s, Background, p)
<1>1. WindowArea(s, Background) = Screen
  BY LayersAssumption DEF WellStacked, WindowArea, Screen
<1>2. Background # MouseLayer BY DEF Background, MouseLayer
<1> QED BY <1>1, <1>2, ScreenIs DEF Covers

\* A pixel of the mouse lies in its window.
LEMMA CoveredIsInside ==
  ASSUME NEW s \in States, NEW id \in Layers, NEW p \in Pixels, Covers(s, id, p)
  PROVE  Inside(p, WindowArea(s, id))
<1>1. CASE id # MouseLayer BY <1>1 DEF Covers
<1>2. CASE id = MouseLayer
  <2>0. MouseLayer \in Layers BY DEF MouseLayer, Layers
  <2>1a. Size[MouseLayer] \in Nat \X Nat BY <2>0, LayersAssumption
  <2>1. PICK w \in Nat, h \in Nat : Size[MouseLayer] = <<w, h>> BY <2>1a
  <2>2a. s.pos[MouseLayer] \in Points BY <2>0, StateIs
  <2>2. PICK x \in Int, y \in Int : s.pos[MouseLayer] = <<x, y>> BY <2>2a DEF Points
  <2>3. PICK px \in Int, py \in Int : p = <<px, py>> BY ScreenIs DEF Points
  <2>4. Minus(p, s.pos[MouseLayer]) \in (0..(w - 1)) \X (0..(h - 1))
    BY <1>2, <2>1, LayersAssumption DEF Covers
  <2>5. px - x \in 0..(w - 1) /\ py - y \in 0..(h - 1) BY <2>2, <2>3, <2>4 DEF Minus
  <2>6. WindowArea(s, id).pos = <<x, y>> /\ WindowArea(s, id).size = <<w, h>>
    BY <1>2, <2>1, <2>2, WindowAreaIs
  <2>7. x <= px /\ px < x + w /\ y <= py /\ py < y + h BY <2>5
  <2> QED BY <2>3, <2>6, <2>7, InsideIs
<1> QED BY <1>1, <1>2

-----------------------------------------------------------------------------
(* Draw *)

\* Drawing a layer and all above it: a pixel that is drawn at all then shows
\* the topmost layer of the whole stack.
LEMMA DrawUp ==
  ASSUME NEW s \in States, WellStacked(s), NEW b \in 1..Len(s.stack), NEW area \in Rects,
         NEW p \in Pixels, NEW r,
         r = DrawLayers(s, SubSeq(s.stack, b, Len(s.stack)), area)
  PROVE  \/ r.back[p] = TopAt(s, p, Layers)
         \/ /\ r.back[p] = s.back[p]
            /\ \A h \in b..Len(s.stack) : ~Draws(s, s.stack[h], area, p)
<1> DEFINE n == Len(s.stack)
           ids == SubSeq(s.stack, b, n)
<1>0. n \in Nat /\ s.stack \in Seq(Layers) BY StateIs
<1>1. \A i \in b..n : s.stack[i] \in Layers
  BY <1>0
<1>2. ids \in Seq(Layers) /\ Len(ids) = n - b + 1 /\ \A i \in 1..(n - b + 1) : ids[i] = s.stack[b + i - 1]
  BY <1>0, <1>1, SubSeqProperties
<1>3. Drawn(s, ids, Len(ids), area, p, r.back[p]) BY <1>2, DrawLayersIs
<1> HIDE DEF ids, n
<1>4. CASE /\ r.back[p] = s.back[p]
           /\ \A h \in 1..Len(ids) : ~Draws(s, ids[h], area, p)
  <2>1. ASSUME NEW h \in b..n PROVE ~Draws(s, s.stack[h], area, p)
    <3>1. PICK i \in 1..(n - b + 1) : h = b + i - 1
      <4>1. h - b + 1 \in 1..(n - b + 1) /\ h = b + (h - b + 1) - 1 BY <1>0
      <4> QED BY <4>1
    <3> QED BY <1>2, <1>4, <3>1
  <2> QED BY <1>4, <2>1 DEF n
<1>5. ASSUME NEW i \in 1..Len(ids), Draws(s, ids[i], area, p), r.back[p] = Shows(s, ids[i]),
             \A k \in (i + 1)..Len(ids) : ~Draws(s, ids[k], area, p)
      PROVE  r.back[p] = TopAt(s, p, Layers)
  <2>1. PICK h \in b..n : h = b + i - 1 /\ ids[i] = s.stack[h]
    <3>1. b + i - 1 \in b..n BY <1>0, <1>2
    <3> QED BY <1>2, <3>1
  <2>2. h \in 1..n /\ s.stack[h] \in Layers BY <1>0, <1>1
  <2>3. Draws(s, s.stack[h], area, p) BY <1>5, <2>1
  <2>4. ASSUME NEW k \in 1..n, Covers(s, s.stack[k], p), ~(k <= h) PROVE FALSE
    <3>1. CASE s.stack[h] = MouseLayer BY <3>1, <2>2, <2>4, <1>0 DEF WellStacked, n
    <3>2. CASE Inside(p, area)
      <4>1. Draws(s, s.stack[k], area, p) BY <2>4, <3>2 DEF Draws
      <4>2. PICK j \in (i + 1)..Len(ids) : k = b + j - 1
        <5>1. k - b + 1 \in (i + 1)..Len(ids) /\ k = b + (k - b + 1) - 1 BY <1>0, <1>2, <2>1, <2>4
        <5> QED BY <5>1
      <4>3. ids[j] = s.stack[k]
        <5>1. j \in 1..(n - b + 1) BY <1>2, <4>2, <1>0
        <5> QED BY <1>2, <4>2, <5>1
      <4> QED BY <1>5, <4>1, <4>2, <4>3
    <3> QED BY <2>3, <3>1, <3>2 DEF Draws
  <2>5. TopOf(s, p, Layers, h) BY <2>2, <2>3, <2>4 DEF TopOf, Draws, n
  <2>6. TopAt(s, p, Layers) = Shows(s, s.stack[h]) BY <2>5, TopAtIs
  <2> QED BY <1>5, <2>1, <2>6
<1> QED BY <1>3, <1>4, <1>5 DEF Drawn

\* Draw(area): the area is right afterwards.
LEMMA DrawAllIs ==
  ASSUME NEW s \in States, WellStacked(s), NEW area \in Rects, NEW r, r = DrawAll(s, area)
  PROVE  /\ r \in States /\ SameLayout(r, s)
         /\ \A p \in Pixels :
              /\ Inside(p, area) => r.back[p] = TopAt(s, p, Layers) /\ r.screen[p] = TopAt(s, p, Layers)
              /\ ~Inside(p, area) => r.screen[p] = s.screen[p]
              /\ r.back[p] = TopAt(s, p, Layers) \/ r.back[p] = s.back[p]
<1> DEFINE n == Len(s.stack)
           t == DrawLayers(s, s.stack, area)
<1>0. n \in Nat /\ s.stack \in Seq(Layers) BY StateIs
<1>1. t \in States /\ SameLayout(t, s) /\ t.screen = s.screen BY <1>0, DrawLayersIs
<1>2. SubSeq(s.stack, 1, n) = s.stack BY <1>0, SubSeqFull
<1>3. 1 \in 1..n BY <1>0 DEF WellStacked
<1>4. t = DrawLayers(s, SubSeq(s.stack, 1, n), area) BY <1>2
<1>5. r = CopyToScreen(t, area) BY DEF DrawAll
<1> HIDE DEF t
<1>6. r \in States /\ SameLayout(r, t) /\ r.back = t.back BY <1>1, <1>5, CopyToScreenIs
<1>7. ASSUME NEW p \in Pixels
      PROVE  /\ Inside(p, area) => r.back[p] = TopAt(s, p, Layers) /\ r.screen[p] = TopAt(s, p, Layers)
             /\ ~Inside(p, area) => r.screen[p] = s.screen[p]
             /\ r.back[p] = TopAt(s, p, Layers) \/ r.back[p] = s.back[p]
  <2>1. r.screen[p] = IF Inside(p, area) THEN t.back[p] ELSE t.screen[p]
    BY <1>1, <1>5, CopyToScreenIs
  <2>2. \/ t.back[p] = TopAt(s, p, Layers)
        \/ /\ t.back[p] = s.back[p]
           /\ \A h \in 1..n : ~Draws(s, s.stack[h], area, p)
    BY <1>3, <1>4, DrawUp
  <2>3. Inside(p, area) => Draws(s, s.stack[1], area, p)
    BY BackgroundCovers DEF Draws, WellStacked
  <2> QED BY <1>1, <1>3, <1>6, <2>1, <2>2, <2>3
<1>8. SameLayout(r, s) BY <1>1, <1>6 DEF SameLayout
<1> QED BY <1>6, <1>7, <1>8

LEMMA IndexInIs ==
  ASSUME NEW s, NEW id, InStack(s, id)
  PROVE  IndexIn(s, id) \in 1..Len(s.stack) /\ s.stack[IndexIn(s, id)] = id
BY DEF InStack, IndexIn

\* Draw(id, area): only what is wrong can change, and after a draw of the
\* whole layer what it covers is right.
LEMMA DrawIs ==
  ASSUME NEW s \in States, WellStacked(s), NEW id \in Layers, NEW area \in Rects,
         NEW junk \in Rects, NEW r, r = Draw(s, id, area, junk)
  PROVE  /\ r \in States /\ SameLayout(r, s)
         /\ \A p \in Pixels :
              /\ r.back[p] = TopAt(s, p, Layers) \/ r.back[p] = s.back[p]
              /\ r.screen[p] = r.back[p] \/ r.screen[p] = s.screen[p]
              /\ InStack(s, id) /\ area = WholeWindow /\ Covers(s, id, p) =>
                   r.back[p] = TopAt(s, p, Layers) /\ r.screen[p] = TopAt(s, p, Layers)
<1> DEFINE n == Len(s.stack)
           whole == WindowArea(s, id)
           clip == IF area.size[1] >= 0 \/ area.size[2] >= 0
                   THEN Intersect(whole, Rect(Plus(area.pos, whole.pos), area.size))
                   ELSE whole
           b == IndexIn(s, id)
           t == DrawLayers(s, SubSeq(s.stack, b, n), clip)
<1>0. n \in Nat /\ s.stack \in Seq(Layers) BY StateIs
<1>1. whole \in Rects /\ whole.pos \in Points BY WindowAreaIs
<1>2. clip \in Rects
  <2>1. area.pos \in Points /\ area.size \in Points BY DEF Rects
  <2>2. PICK at \in Points : at = Plus(area.pos, whole.pos) BY <1>1, <2>1, PointArithmetic
  <2>3. PICK a \in Rects : a = Rect(at, area.size) BY <2>1, RectIsRect
  <2>4. Intersect(whole, a) \in Rects BY <1>1, <2>3, IntersectIs, ScreenIs
  <2> QED BY <1>1, <2>2, <2>3, <2>4
<1>3. area = WholeWindow => clip = whole
  <2>1. WholeWindow.size[1] = -1 /\ WholeWindow.size[2] = -1 BY DEF WholeWindow, Rect
  <2>2. ~(-1 >= 0) OBVIOUS
  <2> HIDE DEF whole
  <2> QED BY <2>1, <2>2
<1>4. CASE InStack(s, id)
  <2>1. b \in 1..n /\ s.stack[b] = id BY <1>4, IndexInIs
  <2> HIDE DEF clip, b
  <2>2. SubSeq(s.stack, b, n) \in Seq(Layers)
    <3>1. \A i \in b..n : s.stack[i] \in Layers BY <1>0, <2>1
    <3> QED BY <1>0, <2>1, <3>1, SubSeqProperties
  <2>3. t \in States /\ SameLayout(t, s) /\ t.screen = s.screen BY <1>2, <2>2, DrawLayersIs
  <2>4. r = CopyToScreen(t, clip) BY <1>4 DEF Draw, clip, b
  <2>a. /\ r \in States /\ SameLayout(r, t) /\ r.back = t.back
        /\ \A p \in Pixels : r.screen[p] = IF Inside(p, clip) THEN t.back[p] ELSE t.screen[p]
    <3>1. PICK u \in States : u = t BY <2>3
    <3> HIDE DEF t
    <3>2. r = CopyToScreen(u, clip) BY <2>4, <3>1
    <3>3. /\ r \in States /\ SameLayout(r, u) /\ r.back = u.back
          /\ \A p \in Pixels : r.screen[p] = IF Inside(p, clip) THEN u.back[p] ELSE u.screen[p]
      <4>1. Copied(r, u, clip) BY <1>2, <3>2, CopiedIs
      <4> QED BY <4>1 DEF Copied
    <3> QED BY <3>1, <3>3
  <2>5. r \in States /\ SameLayout(r, t) /\ r.back = t.back BY <2>a
  <2>6. SameLayout(r, s) BY <2>3, <2>5 DEF SameLayout
  <2>7. ASSUME NEW p \in Pixels
        PROVE  /\ r.back[p] = TopAt(s, p, Layers) \/ r.back[p] = s.back[p]
               /\ r.screen[p] = r.back[p] \/ r.screen[p] = s.screen[p]
               /\ area = WholeWindow /\ Covers(s, id, p) =>
                    r.back[p] = TopAt(s, p, Layers) /\ r.screen[p] = TopAt(s, p, Layers)
    <3>1. r.screen[p] = IF Inside(p, clip) THEN t.back[p] ELSE t.screen[p]
      BY <2>a
    <3>2. \/ t.back[p] = TopAt(s, p, Layers)
          \/ /\ t.back[p] = s.back[p]
             /\ \A h \in b..n : ~Draws(s, s.stack[h], clip, p)
      BY <1>2, <2>1, DrawUp
    <3>3. area = WholeWindow /\ Covers(s, id, p) =>
            Inside(p, clip) /\ Draws(s, s.stack[b], clip, p)
      BY <1>3, <2>1, CoveredIsInside DEF Draws
    <3>4. b \in b..n BY <1>0, <2>1
    <3> HIDE DEF t
    <3> QED BY <2>3, <2>5, <3>1, <3>2, <3>3, <3>4
  <2> QED BY <1>4, <2>5, <2>6, <2>7
<1>5. CASE ~InStack(s, id)
  <2>1. r = CopyToScreen(s, junk) BY <1>5 DEF Draw
  <2>2. r \in States /\ SameLayout(r, s) /\ r.back = s.back BY <2>1, CopyToScreenIs
  <2>3. \A p \in Pixels : r.screen[p] = IF Inside(p, junk) THEN s.back[p] ELSE s.screen[p]
    BY <2>1, CopyToScreenIs
  <2> QED BY <1>5, <2>2, <2>3
<1> QED BY <1>4, <1>5

-----------------------------------------------------------------------------
(* Changing the stack *)

LEMMA InsertAtIs ==
  ASSUME NEW S, NEW ss \in Seq(S), NEW id \in S, NEW i \in 1..(Len(ss) + 1)
  PROVE  /\ InsertAt(ss, i, id) \in Seq(S) /\ Len(InsertAt(ss, i, id)) = Len(ss) + 1
         /\ \A k \in 1..(Len(ss) + 1) : InsertAt(ss, i, id)[k] =
              IF k < i THEN ss[k] ELSE IF k = i THEN id ELSE ss[k - 1]
<1> DEFINE n == Len(ss)
           a == SubSeq(ss, 1, i - 1)
           b == SubSeq(ss, i, n)
<1>0. n \in Nat /\ i \in Int /\ i - 1 \in Int /\ 1 \in Int OBVIOUS
<1>1. /\ a \in Seq(S) /\ Len(a) = i - 1
      /\ \A k \in 1..(i - 1) : a[k] = ss[k]
  <2>1. \A k \in 1..(i - 1) : ss[k] \in S OBVIOUS
  <2>2. /\ a \in Seq(S) /\ Len(a) = IF 1 <= i - 1 THEN i - 1 - 1 + 1 ELSE 0
        /\ \A k \in 1..(i - 1 - 1 + 1) : a[k] = ss[1 + k - 1]
    BY <1>0, <2>1, SubSeqProperties
  <2> HIDE DEF a
  <2> QED BY <1>0, <2>2
<1>2. /\ b \in Seq(S) /\ Len(b) = n - i + 1
      /\ \A k \in 1..(n - i + 1) : b[k] = ss[i + k - 1]
  <2>1. \A k \in i..n : ss[k] \in S OBVIOUS
  <2>2. /\ b \in Seq(S) /\ Len(b) = IF i <= n THEN n - i + 1 ELSE 0
        /\ \A k \in 1..(n - i + 1) : b[k] = ss[i + k - 1]
    BY <1>0, <2>1, SubSeqProperties
  <2> HIDE DEF b
  <2> QED BY <1>0, <2>2
<1> HIDE DEF a, b
<1>3. <<id>> \in Seq(S) /\ Len(<<id>>) = 1 /\ <<id>>[1] = id OBVIOUS
<1>4a. a \o <<id>> \in Seq(S) BY <1>1, <1>3, ConcatProperties
<1>4. PICK c \in Seq(S) : c = a \o <<id>> BY <1>4a
<1>5. Len(c) = i /\ \A k \in 1..i : c[k] = IF k < i THEN ss[k] ELSE id
  BY <1>0, <1>1, <1>3, <1>4
<1>6. InsertAt(ss, i, id) = c \o b BY <1>4 DEF InsertAt, a, b
<1>7a. c \o b \in Seq(S) /\ Len(c \o b) = Len(c) + Len(b) BY <1>2, ConcatProperties
<1>7. c \o b \in Seq(S) /\ Len(c \o b) = n + 1
  BY <1>0, <1>2, <1>5, <1>7a
<1>8. ASSUME NEW k \in 1..(n + 1)
      PROVE  (c \o b)[k] = IF k < i THEN ss[k] ELSE IF k = i THEN id ELSE ss[k - 1]
  <2>1. (c \o b)[k] = IF k <= Len(c) THEN c[k] ELSE b[k - Len(c)]
    BY <1>0, <1>2, <1>5, ConcatProperties
  <2>2. CASE k <= i BY <2>1, <2>2, <1>5, <1>0
  <2>3. CASE k > i
    <3>1. k - i \in 1..(n - i + 1) /\ i + (k - i) - 1 = k - 1 /\ ~(k <= i) /\ ~(k < i) /\ k # i
      BY <2>3, <1>0
    <3>2. (c \o b)[k] = b[k - i] BY <2>1, <1>5, <3>1
    <3>3. b[k - i] = ss[k - 1] BY <1>2, <3>1
    <3> QED BY <3>1, <3>2, <3>3
  <2>4. k <= i \/ k > i BY <1>0
  <2> QED BY <2>2, <2>3, <2>4
<1> QED BY <1>6, <1>7, <1>8

LEMMA RemoveAtIs ==
  ASSUME NEW S, NEW ss \in Seq(S), NEW j \in 1..Len(ss)
  PROVE  /\ RemoveAt(ss, j) \in Seq(S) /\ Len(RemoveAt(ss, j)) = Len(ss) - 1
         /\ \A k \in 1..(Len(ss) - 1) : RemoveAt(ss, j)[k] =
              IF k < j THEN ss[k] ELSE ss[k + 1]
<1> DEFINE n == Len(ss)
           a == SubSeq(ss, 1, j - 1)
           b == SubSeq(ss, j + 1, n)
<1>0. n \in Nat /\ j \in Int /\ j - 1 \in Int /\ 1 \in Int /\ j + 1 \in Int OBVIOUS
<1>1. /\ a \in Seq(S) /\ Len(a) = j - 1
      /\ \A k \in 1..(j - 1) : a[k] = ss[k]
  <2>1. \A k \in 1..(j - 1) : ss[k] \in S OBVIOUS
  <2>2. /\ a \in Seq(S) /\ Len(a) = IF 1 <= j - 1 THEN j - 1 - 1 + 1 ELSE 0
        /\ \A k \in 1..(j - 1 - 1 + 1) : a[k] = ss[1 + k - 1]
    BY <1>0, <2>1, SubSeqProperties
  <2> HIDE DEF a
  <2> QED BY <1>0, <2>2
<1>2. /\ b \in Seq(S) /\ Len(b) = n - j
      /\ \A k \in 1..(n - j) : b[k] = ss[j + k]
  <2>1. \A k \in (j + 1)..n : ss[k] \in S OBVIOUS
  <2>2. /\ b \in Seq(S) /\ Len(b) = IF j + 1 <= n THEN n - (j + 1) + 1 ELSE 0
        /\ \A k \in 1..(n - (j + 1) + 1) : b[k] = ss[(j + 1) + k - 1]
    BY <1>0, <2>1, SubSeqProperties
  <2> HIDE DEF b
  <2> QED BY <1>0, <2>2
<1> HIDE DEF a, b
<1>3. RemoveAt(ss, j) = a \o b BY DEF RemoveAt, a, b
<1>4. a \o b \in Seq(S) /\ Len(a \o b) = n - 1
  <2>1. a \o b \in Seq(S) /\ Len(a \o b) = Len(a) + Len(b)
    BY <1>1, <1>2, ConcatProperties
  <2> QED BY <2>1, <1>0, <1>1, <1>2
<1>5. ASSUME NEW k \in 1..(n - 1)
      PROVE  (a \o b)[k] = IF k < j THEN ss[k] ELSE ss[k + 1]
  <2>1. (a \o b)[k] = IF k <= Len(a) THEN a[k] ELSE b[k - Len(a)]
    BY <1>0, <1>1, <1>2, ConcatProperties
  <2>2. CASE k < j BY <2>1, <2>2, <1>1, <1>0
  <2>3. CASE ~(k < j)
    <3>1. k - (j - 1) \in 1..(n - j) /\ j + (k - (j - 1)) = k + 1 /\ ~(k <= j - 1)
      BY <2>3, <1>0
    <3> QED BY <2>1, <2>3, <1>1, <1>2, <3>1
  <2> QED BY <2>2, <2>3
<1> QED BY <1>3, <1>4, <1>5

Has(ss, id) == \E h \in 1..Len(ss) : ss[h] = id

\* But for id the two stacks hold the same layers in the same order.
SameOrder(rs, ss, id) ==
  /\ \A a : a # id => (Has(rs, a) <=> Has(ss, a))
  /\ \A h \in 1..Len(ss), k \in 1..Len(ss), x \in 1..Len(rs), y \in 1..Len(rs) :
       (/\ ss[h] = rs[x] /\ ss[k] = rs[y] /\ ss[h] # id /\ ss[k] # id /\ h <= k) => x <= y

Distinct(ss) == \A h \in 1..Len(ss), k \in 1..Len(ss) : ss[h] = ss[k] => h = k

LEMMA SameOrderTransitive ==
  ASSUME NEW rs, NEW qs, NEW ss, NEW id, SameOrder(rs, qs, id), SameOrder(qs, ss, id)
  PROVE  SameOrder(rs, ss, id)
<1>1. \A a : a # id => (Has(rs, a) <=> Has(ss, a)) BY DEF SameOrder
<1>2. ASSUME NEW h \in 1..Len(ss), NEW k \in 1..Len(ss), NEW x \in 1..Len(rs), NEW y \in 1..Len(rs),
             ss[h] = rs[x], ss[k] = rs[y], ss[h] # id, ss[k] # id, h <= k
      PROVE  x <= y
  <2>1. Has(ss, ss[h]) /\ Has(ss, ss[k]) BY DEF Has
  <2>2. PICK u \in 1..Len(qs) : qs[u] = ss[h] BY <1>2, <2>1 DEF SameOrder, Has
  <2>3. PICK v \in 1..Len(qs) : qs[v] = ss[k] BY <1>2, <2>1 DEF SameOrder, Has
  <2>4. u <= v BY <1>2, <2>2, <2>3 DEF SameOrder
  <2> QED BY <1>2, <2>2, <2>3, <2>4 DEF SameOrder
<1> QED BY <1>1, <1>2 DEF SameOrder

LEMMA SameOrderItself ==
  ASSUME NEW S, NEW ss \in Seq(S), Distinct(ss), NEW id
  PROVE  SameOrder(ss, ss, id)
<1>1. \A h \in 1..Len(ss), k \in 1..Len(ss), x \in 1..Len(ss), y \in 1..Len(ss) :
       (/\ ss[h] = ss[x] /\ ss[k] = ss[y] /\ ss[h] # id /\ ss[k] # id /\ h <= k) => x <= y
  BY DEF Distinct
<1> QED BY <1>1 DEF SameOrder

LEMMA InsertOrder ==
  ASSUME NEW S, NEW ss \in Seq(S), Distinct(ss), NEW id \in S, ~Has(ss, id),
         NEW i \in 1..(Len(ss) + 1), NEW rs, rs = InsertAt(ss, i, id)
  PROVE  SameOrder(rs, ss, id) /\ Distinct(rs) /\ Has(rs, id)
<1> DEFINE n == Len(ss)
<1>0. n \in Nat OBVIOUS
<1>1. /\ Len(rs) = n + 1
      /\ \A k \in 1..(n + 1) : rs[k] = IF k < i THEN ss[k] ELSE IF k = i THEN id ELSE ss[k - 1]
  BY InsertAtIs, SMTT(30)
<1> HIDE DEF n
<1>2. Has(rs, id) BY <1>0, <1>1 DEF Has, n
<1>3. ASSUME NEW x \in 1..(n + 1), x # i
      PROVE  /\ x < i => x \in 1..n /\ rs[x] = ss[x]
             /\ ~(x < i) => x - 1 \in 1..n /\ rs[x] = ss[x - 1] /\ i < x
             /\ rs[x] # id
  <2>1. CASE x < i
    <3>1. x \in 1..n BY <2>1, <1>0 DEF n
    <3>2. rs[x] = ss[x] BY <1>1, <2>1
    <3> QED BY <2>1, <3>1, <3>2 DEF Has, n
  <2>2. CASE ~(x < i)
    <3>1. x - 1 \in 1..n /\ i < x BY <2>2, <1>0, <1>3 DEF n
    <3>2. rs[x] = ss[x - 1] BY <1>1, <1>3, <2>2
    <3> QED BY <2>2, <3>1, <3>2 DEF Has, n
  <2> QED BY <2>1, <2>2
<1>4. ASSUME NEW h \in 1..n
      PROVE  /\ h < i => h \in 1..(n + 1) /\ rs[h] = ss[h]
             /\ ~(h < i) => h + 1 \in 1..(n + 1) /\ rs[h + 1] = ss[h]
  <2>1. h \in 1..(n + 1) /\ h + 1 \in 1..(n + 1) BY <1>0
  <2>2. ~(h < i) => ~(h + 1 < i) /\ h + 1 # i /\ (h + 1) - 1 = h BY <1>0
  <2> QED BY <1>1, <2>1, <2>2
<1>5. rs[i] = id BY <1>1 DEF n
<1>6. ASSUME NEW a, a # id PROVE Has(rs, a) <=> Has(ss, a)
  <2>1. ASSUME NEW x \in 1..(n + 1), rs[x] = a PROVE Has(ss, a)
    BY <1>3, <1>5, <1>6, <2>1 DEF Has, n
  <2>2. ASSUME NEW h \in 1..n, ss[h] = a PROVE Has(rs, a)
    BY <1>1, <1>4, <2>2 DEF Has
  <2> QED BY <1>1, <2>1, <2>2 DEF Has, n
<1>7. ASSUME NEW h \in 1..n, NEW k \in 1..n, NEW x \in 1..(n + 1), NEW y \in 1..(n + 1),
             ss[h] = rs[x], ss[k] = rs[y], ss[h] # id, ss[k] # id, h <= k
      PROVE  x <= y
  <2>1. x # i /\ y # i BY <1>5, <1>7
  <2>2. x < i => h = x BY <1>3, <1>7, <2>1 DEF Distinct, n
  <2>3. ~(x < i) => h = x - 1 /\ i < x BY <1>3, <1>7, <2>1 DEF Distinct, n
  <2>4. y < i => k = y BY <1>3, <1>7, <2>1 DEF Distinct, n
  <2>5. ~(y < i) => k = y - 1 /\ i < y BY <1>3, <1>7, <2>1 DEF Distinct, n
  <2> QED BY <1>0, <1>7, <2>1, <2>2, <2>3, <2>4, <2>5 DEF n
<1>8. ASSUME NEW x \in 1..(n + 1), NEW y \in 1..(n + 1), rs[x] = rs[y] PROVE x = y
  <2>1. CASE x = i \/ y = i BY <2>1, <1>3, <1>5, <1>8
  <2>2. CASE x # i /\ y # i
    <3>1. CASE x < i /\ y < i BY <3>1, <2>2, <1>3, <1>8 DEF Distinct, n
    <3>2. CASE x < i /\ ~(y < i)
      <4>1. x = y - 1 /\ i < y BY <3>2, <2>2, <1>3, <1>8 DEF Distinct, n
      <4> QED BY <4>1, <3>2, <1>0 DEF n
    <3>3. CASE ~(x < i) /\ y < i
      <4>1. y = x - 1 /\ i < x BY <3>3, <2>2, <1>3, <1>8 DEF Distinct, n
      <4> QED BY <4>1, <3>3, <1>0 DEF n
    <3>4. CASE ~(x < i) /\ ~(y < i)
      <4>1. x - 1 = y - 1 BY <3>4, <2>2, <1>3, <1>8 DEF Distinct, n
      <4> QED BY <4>1, <1>0
    <3> QED BY <3>1, <3>2, <3>3, <3>4
  <2> QED BY <2>1, <2>2
<1> QED BY <1>1, <1>2, <1>6, <1>7, <1>8 DEF SameOrder, Distinct, n

LEMMA RemoveOrder ==
  ASSUME NEW S, NEW ss \in Seq(S), Distinct(ss), NEW j \in 1..Len(ss), NEW id, ss[j] = id,
         NEW rs, rs = RemoveAt(ss, j)
  PROVE  SameOrder(rs, ss, id) /\ Distinct(rs) /\ ~Has(rs, id)
<1> DEFINE n == Len(ss)
<1>0. n \in Nat OBVIOUS
<1>1. /\ Len(rs) = n - 1
      /\ \A k \in 1..(n - 1) : rs[k] = IF k < j THEN ss[k] ELSE ss[k + 1]
  BY RemoveAtIs
<1> HIDE DEF n
<1>2. ASSUME NEW x \in 1..(n - 1)
      PROVE  /\ x < j => x \in 1..n /\ rs[x] = ss[x] /\ x # j
             /\ ~(x < j) => x + 1 \in 1..n /\ rs[x] = ss[x + 1] /\ x + 1 # j
  BY <1>0, <1>1 DEF n
<1>3. ASSUME NEW x \in 1..(n - 1) PROVE rs[x] # id
  BY <1>2 DEF Distinct, n
<1>4. ASSUME NEW h \in 1..n, h # j
      PROVE  /\ h < j => h \in 1..(n - 1) /\ rs[h] = ss[h]
             /\ ~(h < j) => h - 1 \in 1..(n - 1) /\ rs[h - 1] = ss[h]
  <2>1. CASE h < j
    <3>1. h \in 1..(n - 1) BY <2>1, <1>0 DEF n
    <3> QED BY <2>1, <3>1, <1>1
  <2>2. CASE ~(h < j)
    <3>1. h - 1 \in 1..(n - 1) /\ ~(h - 1 < j) /\ (h - 1) + 1 = h BY <2>2, <1>0, <1>4 DEF n
    <3> QED BY <2>2, <3>1, <1>1
  <2> QED BY <2>1, <2>2
<1>5. ASSUME NEW a, a # id PROVE Has(rs, a) <=> Has(ss, a)
  <2>1. ASSUME NEW x \in 1..(n - 1), rs[x] = a PROVE Has(ss, a)
    BY <1>2, <2>1 DEF Has, n
  <2>2. ASSUME NEW h \in 1..n, ss[h] = a PROVE Has(rs, a)
    <3>1. h # j BY <2>2, <1>5
    <3> QED BY <3>1, <1>1, <1>4, <2>2 DEF Has
  <2> QED BY <1>1, <2>1, <2>2 DEF Has, n
<1>6. ASSUME NEW h \in 1..n, NEW k \in 1..n, NEW x \in 1..(n - 1), NEW y \in 1..(n - 1),
             ss[h] = rs[x], ss[k] = rs[y], h <= k
      PROVE  x <= y
  <2>2. x < j => h = x BY <1>2, <1>6 DEF Distinct, n
  <2>3. ~(x < j) => h = x + 1 BY <1>2, <1>6 DEF Distinct, n
  <2>4. y < j => k = y BY <1>2, <1>6 DEF Distinct, n
  <2>5. ~(y < j) => k = y + 1 BY <1>2, <1>6 DEF Distinct, n
  <2> QED BY <1>0, <1>6, <2>2, <2>3, <2>4, <2>5 DEF n
<1>7. ASSUME NEW x \in 1..(n - 1), NEW y \in 1..(n - 1), rs[x] = rs[y] PROVE x = y
  <2>1. CASE x < j /\ y < j BY <2>1, <1>2, <1>7 DEF Distinct, n
  <2>2. CASE x < j /\ ~(y < j)
    <3>1. x = y + 1 BY <2>2, <1>2, <1>7 DEF Distinct, n
    <3> QED BY <3>1, <2>2, <1>0 DEF n
  <2>3. CASE ~(x < j) /\ y < j
    <3>1. y = x + 1 BY <2>3, <1>2, <1>7 DEF Distinct, n
    <3> QED BY <3>1, <2>3, <1>0 DEF n
  <2>4. CASE ~(x < j) /\ ~(y < j)
    <3>1. x + 1 = y + 1 BY <2>4, <1>2, <1>7 DEF Distinct, n
    <3> QED BY <3>1, <1>0
  <2> QED BY <2>1, <2>2, <2>3, <2>4
<1> QED BY <1>1, <1>3, <1>5, <1>6, <1>7 DEF SameOrder, Distinct, Has, n

-----------------------------------------------------------------------------
(* What the stack is like, and raising a layer in it *)

Stacked(s) ==
  /\ WellStacked(s) /\ Distinct(s.stack)
  /\ s.stack[2] = ConsoleLayer
  /\ Has(s.stack, MainWindow) /\ Has(s.stack, TextWindow)
  /\ Len(s.stack) = 4 + (IF Has(s.stack, MouseLayer) THEN 1 ELSE 0)
                      + (IF Has(s.stack, Terminal) THEN 1 ELSE 0)

LEMMA HasIsInStack == ASSUME NEW s, NEW id PROVE InStack(s, id) <=> Has(s.stack, id)
BY DEF InStack, Has

LEMMA SameStacked ==
  ASSUME NEW r, NEW s, SameLayout(r, s), Stacked(s)
  PROVE  Stacked(r)
<1>1. r.stack = s.stack /\ WellStacked(r) BY SameWellStacked DEF SameLayout, Stacked
<1> QED BY <1>1 DEF Stacked

LEMMA StackedLength ==
  ASSUME NEW s \in States, Stacked(s)
  PROVE  /\ Len(s.stack) \in 4..6
         /\ Has(s.stack, MouseLayer) => Len(s.stack) \in 5..6
         /\ Has(s.stack, MouseLayer) => s.stack[Len(s.stack)] = MouseLayer
<1>1. Len(s.stack) \in 4..6 BY DEF Stacked
<1>2. Has(s.stack, MouseLayer) => Len(s.stack) \in 5..6 BY DEF Stacked
<1>3. Has(s.stack, MouseLayer) => s.stack[Len(s.stack)] = MouseLayer
  BY DEF Stacked, WellStacked, Has
<1> QED BY <1>1, <1>2, <1>3

\* GetHeight of the mouse, less one: the height below the mouse.
LEMMA MouseHeight ==
  ASSUME NEW s \in States, Stacked(s), Has(s.stack, MouseLayer)
  PROVE  GetHeight(s, MouseLayer) - 1 = Len(s.stack) - 2
<1>1. InStack(s, MouseLayer) BY HasIsInStack
<1>2. PICK h \in 1..Len(s.stack) : h = IndexIn(s, MouseLayer) /\ s.stack[h] = MouseLayer
  BY <1>1, IndexInIs
<1>3. h = Len(s.stack) BY <1>2 DEF Stacked, WellStacked
<1>4. Len(s.stack) \in 4..6 BY StackedLength
<1> QED BY <1>1, <1>2, <1>3, <1>4 DEF GetHeight

\* A toplevel window that is in the stack goes directly below the mouse.
LEMMA RaiseIs ==
  ASSUME NEW s \in States, Stacked(s), Has(s.stack, MouseLayer),
         NEW id \in Toplevel, Has(s.stack, id),
         NEW r, r = UpDown(s, id, GetHeight(s, MouseLayer) - 1)
  PROVE  /\ r = [s EXCEPT !.stack = r.stack] /\ r \in States /\ Stacked(r)
         /\ SameOrder(r.stack, s.stack, id) /\ Has(r.stack, id)
         /\ r.stack[Len(r.stack) - 1] = id
<1>a. PICK n \in 5..6 : n = Len(s.stack) BY StackedLength
<1>0. s.stack[n] = MouseLayer /\ s.stack \in Seq(Layers) BY <1>a, StackedLength, StateIs
<1> DEFINE j == IndexIn(s, id)
           qs == RemoveAt(s.stack, j)
           rs == InsertAt(qs, n - 1, id)
<1>1. InStack(s, id) BY HasIsInStack
<1>2. j \in 1..n /\ s.stack[j] = id BY <1>a, <1>1, IndexInIs
<1>3. /\ id \in Layers /\ id # Background /\ id # ConsoleLayer /\ id # MouseLayer
      /\ MouseLayer # Background /\ MouseLayer # ConsoleLayer /\ Terminal # MouseLayer
  BY DEF Toplevel, Layers, Background, ConsoleLayer, MouseLayer, MainWindow, TextWindow, Terminal
<1>4. s.stack[1] = Background /\ s.stack[2] = ConsoleLayer /\ Distinct(s.stack)
  BY DEF Stacked, WellStacked
<1>5. j # 1 /\ j # 2 /\ j # n BY <1>0, <1>2, <1>3, <1>4
<1>6. r = [s EXCEPT !.stack = rs]
  <2>1. GetHeight(s, MouseLayer) - 1 = n - 2 BY <1>a, MouseHeight
  <2>2. Lesser(n - 2, n) = n - 2 /\ Lesser(n - 2, n - 1) = n - 2 /\ ~(n - 2 < 0) /\ (n - 2) + 1 = n - 1
    BY <1>0 DEF Lesser
  <2>3. r = UpDown(s, id, n - 2) BY <2>1
  <2>4. r = [s EXCEPT !.stack = InsertAt(RemoveAt(s.stack, j), Lesser(Lesser(n - 2, n), n - 1) + 1, id)]
    <3> HIDE DEF j
    <3> QED BY <1>a, <1>1, <2>2, <2>3 DEF UpDown, j
  <2> QED BY <2>2, <2>4
<1> HIDE DEF j
<1>7. /\ qs \in Seq(Layers) /\ Len(qs) = n - 1
      /\ \A k \in 1..(n - 1) : qs[k] = IF k < j THEN s.stack[k] ELSE s.stack[k + 1]
  BY <1>a, <1>0, <1>2, RemoveAtIs
<1>8. SameOrder(qs, s.stack, id) /\ Distinct(qs) /\ ~Has(qs, id)
  BY <1>a, <1>0, <1>2, <1>4, RemoveOrder
<1> HIDE DEF qs
<1>9. n - 1 \in 1..(Len(qs) + 1) BY <1>0, <1>7
<1>10. /\ rs \in Seq(Layers) /\ Len(rs) = n
       /\ \A k \in 1..n : rs[k] = IF k < n - 1 THEN qs[k] ELSE IF k = n - 1 THEN id ELSE qs[k - 1]
  <2>1. (n - 1) + 1 = n BY <1>0
  <2>2. /\ rs \in Seq(Layers) /\ Len(rs) = Len(qs) + 1
        /\ \A k \in 1..(Len(qs) + 1) : rs[k] = IF k < n - 1 THEN qs[k] ELSE IF k = n - 1 THEN id ELSE qs[k - 1]
    <3>1. PICK i \in 1..(Len(qs) + 1) : i = n - 1 BY <1>9
    <3>2. id \in Layers BY <1>3
    <3>3. InsertAt(qs, i, id) \in Seq(Layers) /\ Len(InsertAt(qs, i, id)) = Len(qs) + 1
      BY <3>2, <1>7, InsertAtIs
    <3>4. \A k \in 1..(Len(qs) + 1) : InsertAt(qs, i, id)[k] =
            IF k < i THEN qs[k] ELSE IF k = i THEN id ELSE qs[k - 1]
      BY <3>2, <1>7, InsertAtIs
    <3> QED BY <3>1, <3>3, <3>4
  <2> HIDE DEF rs
  <2> QED BY <1>7, <2>1, <2>2
<1>11. SameOrder(rs, qs, id) /\ Distinct(rs) /\ Has(rs, id)
  BY <1>3, <1>7, <1>8, <1>9, InsertOrder
<1>12. SameOrder(rs, s.stack, id) BY <1>8, <1>11, SameOrderTransitive
<1> HIDE DEF rs
<1>13. r \in States BY <1>6, <1>10 DEF States
<1>14. r.stack = rs /\ r.pos = s.pos /\ r.lit = s.lit BY <1>6 DEF States
<1>15. r = [s EXCEPT !.stack = r.stack] BY <1>6, <1>14
<1>16. rs[n - 1] = id /\ rs[1] = Background /\ rs[2] = ConsoleLayer /\ rs[n] = MouseLayer
  <2>1. n - 1 \in 1..n /\ 1 \in 1..n /\ 2 \in 1..n /\ n \in 1..n BY <1>0
  <2>2. rs[n - 1] = id BY <1>0, <1>10, <2>1
  <2>3. qs[1] = s.stack[1] /\ qs[2] = s.stack[2]
    <3>1. 1 \in 1..(n - 1) /\ 2 \in 1..(n - 1) /\ 1 < j /\ 2 < j BY <1>0, <1>2, <1>5
    <3> QED BY <3>1, <1>7
  <2>4. rs[1] = qs[1] /\ rs[2] = qs[2] BY <1>0, <1>10, <2>1
  <2>5. qs[n - 1] = s.stack[n]
    <3>1. n - 1 \in 1..(n - 1) /\ ~(n - 1 < j) /\ (n - 1) + 1 = n BY <1>0, <1>2, <1>5
    <3> QED BY <3>1, <1>7
  <2>6. rs[n] = qs[n - 1] BY <1>0, <1>10, <2>1
  <2> QED BY <1>0, <1>4, <2>2, <2>3, <2>4, <2>5, <2>6
<1>17. \A a : Has(rs, a) <=> Has(s.stack, a)
  <2>1. \A a : a # id => (Has(rs, a) <=> Has(s.stack, a)) BY <1>12 DEF SameOrder
  <2> QED BY <2>1, <1>11
<1>18. \A h \in 1..n : rs[h] = MouseLayer => h = n
  <2>1. n \in 1..n BY <1>0
  <2> QED BY <2>1, <1>10, <1>11, <1>16 DEF Distinct
<1>19. Stacked(r)
  <2>1. WellStacked(r)
    <3>1. Len(r.stack) = n /\ n >= 1 BY <1>0, <1>10, <1>14
    <3>2. r.pos[Background] = <<0, 0>> BY <1>14 DEF Stacked, WellStacked
    <3> QED BY <3>1, <3>2, <1>14, <1>16, <1>18 DEF WellStacked
  <2>2. Len(r.stack) = Len(s.stack) BY <1>a, <1>10, <1>14
  <2> QED BY <1>11, <1>14, <1>16, <1>17, <2>1, <2>2 DEF Stacked
<1> QED BY <1>10, <1>11, <1>12, <1>13, <1>14, <1>15, <1>16, <1>19

\* The terminal's first activation puts it below the topmost window.
LEMMA PlaceIs ==
  ASSUME NEW s \in States, Stacked(s), Has(s.stack, MouseLayer), ~Has(s.stack, Terminal),
         NEW r, r = UpDown(s, Terminal, GetHeight(s, MouseLayer) - 1)
  PROVE  /\ r = [s EXCEPT !.stack = r.stack] /\ r \in States /\ Stacked(r)
         /\ SameOrder(r.stack, s.stack, Terminal) /\ Has(r.stack, Terminal)
<1>a. PICK n \in 5..6 : n = Len(s.stack) BY StackedLength
<1>0. s.stack[n] = MouseLayer /\ s.stack \in Seq(Layers) BY <1>a, StackedLength, StateIs
<1> DEFINE rs == InsertAt(s.stack, n - 1, Terminal)
<1>1. ~InStack(s, Terminal) BY HasIsInStack
<1>3. Terminal \in Layers /\ Terminal # MouseLayer /\ Terminal # MainWindow /\ Terminal # TextWindow
  BY DEF Layers, MouseLayer, MainWindow, TextWindow, Terminal
<1>4. s.stack[1] = Background /\ s.stack[2] = ConsoleLayer /\ Distinct(s.stack)
  BY DEF Stacked, WellStacked
<1>6. r = [s EXCEPT !.stack = rs]
  <2>1. GetHeight(s, MouseLayer) - 1 = n - 2 BY <1>a, MouseHeight
  <2>2. Lesser(n - 2, n) = n - 2 /\ ~(n - 2 < 0) /\ (n - 2) + 1 = n - 1
    BY DEF Lesser
  <2>3. r = UpDown(s, Terminal, n - 2) BY <2>1
  <2>4. r = [s EXCEPT !.stack = InsertAt(s.stack, Lesser(n - 2, n) + 1, Terminal)]
    BY <1>a, <1>1, <2>2, <2>3 DEF UpDown
  <2> QED BY <2>2, <2>4
<1>8. n - 1 \in 1..(n + 1) OBVIOUS
<1>9. PICK i \in 1..(Len(s.stack) + 1) : i = n - 1 BY <1>a, <1>8
<1>10. /\ rs \in Seq(Layers) /\ Len(rs) = n + 1
       /\ \A k \in 1..(n + 1) : rs[k] = IF k < n - 1 THEN s.stack[k]
                                        ELSE IF k = n - 1 THEN Terminal ELSE s.stack[k - 1]
  <2>1. InsertAt(s.stack, i, Terminal) \in Seq(Layers) /\ Len(InsertAt(s.stack, i, Terminal)) = Len(s.stack) + 1
    BY <1>0, <1>3, InsertAtIs
  <2>2. \A k \in 1..(Len(s.stack) + 1) : InsertAt(s.stack, i, Terminal)[k] =
          IF k < i THEN s.stack[k] ELSE IF k = i THEN Terminal ELSE s.stack[k - 1]
    <3>1. PICK t \in Layers : t = Terminal BY <1>3
    <3>2. PICK ss \in Seq(Layers) : ss = s.stack BY <1>0
    <3>3. \A k \in 1..(Len(ss) + 1) : InsertAt(ss, i, t)[k] =
            IF k < i THEN ss[k] ELSE IF k = i THEN t ELSE ss[k - 1]
      <4>1. i \in 1..(Len(ss) + 1) BY <3>2
      <4> QED BY <4>1, InsertAtIs
    <3> QED BY <3>1, <3>2, <3>3
  <2> QED BY <1>a, <1>9, <2>1, <2>2
<1>11. SameOrder(rs, s.stack, Terminal) /\ Distinct(rs) /\ Has(rs, Terminal)
  <2>1. PICK q : q = InsertAt(s.stack, i, Terminal) OBVIOUS
  <2>2. SameOrder(q, s.stack, Terminal) /\ Distinct(q) /\ Has(q, Terminal)
    BY <1>0, <1>3, <1>4, <2>1, InsertOrder
  <2> QED BY <1>9, <2>1, <2>2
<1> HIDE DEF rs
<1>13. r \in States BY <1>6, <1>10 DEF States
<1>14. r.stack = rs /\ r.pos = s.pos /\ r.lit = s.lit BY <1>6 DEF States
<1>15. r = [s EXCEPT !.stack = r.stack] BY <1>6, <1>14
<1>16. rs[1] = Background /\ rs[2] = ConsoleLayer /\ rs[n + 1] = MouseLayer
  <2>1. 1 \in 1..(n + 1) /\ 2 \in 1..(n + 1) /\ n + 1 \in 1..(n + 1) OBVIOUS
  <2>2. 1 < n - 1 /\ 2 < n - 1 /\ ~(n + 1 < n - 1) /\ n + 1 # n - 1 /\ (n + 1) - 1 = n OBVIOUS
  <2>3. rs[1] = s.stack[1] /\ rs[2] = s.stack[2] BY <1>10, <2>1, <2>2
  <2>4. rs[n + 1] = s.stack[(n + 1) - 1] BY <1>10, <2>1, <2>2
  <2> QED BY <1>0, <1>4, <2>2, <2>3, <2>4
<1>17. \A a : a # Terminal => (Has(rs, a) <=> Has(s.stack, a)) BY <1>11 DEF SameOrder
<1>18. \A h \in 1..(n + 1) : rs[h] = MouseLayer => h = n + 1
  <2>1. n + 1 \in 1..(n + 1) OBVIOUS
  <2> QED BY <2>1, <1>10, <1>11, <1>16 DEF Distinct
<1>19. Stacked(r)
  <2>1. WellStacked(r)
    <3>1. Len(r.stack) = n + 1 /\ n + 1 >= 1 BY <1>10, <1>14
    <3>2. r.pos[Background] = <<0, 0>> BY <1>14 DEF Stacked, WellStacked
    <3> QED BY <3>1, <3>2, <1>14, <1>16, <1>18 DEF WellStacked
  <2>2. /\ Has(r.stack, MainWindow) /\ Has(r.stack, TextWindow) /\ Has(r.stack, MouseLayer)
        /\ Has(r.stack, Terminal)
    BY <1>3, <1>11, <1>14, <1>17 DEF Stacked
  <2>3. n = 4 + 1 + 0 BY <1>a DEF Stacked
  <2>4. Len(r.stack) = 4 + 1 + 1 BY <1>10, <1>14, <2>3
  <2> QED BY <1>11, <1>14, <1>16, <2>1, <2>2, <2>4 DEF Stacked
<1> QED BY <1>11, <1>13, <1>14, <1>15, <1>19

\* r is s with id on top of the n layers of the stack.
Appended(r, s, id, n) ==
  /\ r \in States /\ r.pos = s.pos /\ r.lit = s.lit /\ r.back = s.back /\ r.screen = s.screen
  /\ SameOrder(r.stack, s.stack, id) /\ Distinct(r.stack)
  /\ Len(r.stack) = n + 1 /\ r.stack[n + 1] = id
  /\ \A k \in 1..n : r.stack[k] = s.stack[k]

\* A layer that is not in the stack yet, put as high as possible.
LEMMA AppendIs ==
  ASSUME NEW s \in States, NEW id \in Layers, ~Has(s.stack, id), Distinct(s.stack),
         NEW n \in Nat, n = Len(s.stack), NEW height \in Nat, height >= n,
         NEW r, r = UpDown(s, id, height)
  PROVE  Appended(r, s, id, n)
<1>0. s.stack \in Seq(Layers) BY StateIs
<1> DEFINE rs == InsertAt(s.stack, n + 1, id)
<1>1. ~InStack(s, id) BY HasIsInStack
<1>2. Lesser(height, n) = n /\ ~(height < 0) BY DEF Lesser
<1>6. r = [s EXCEPT !.stack = rs]
  BY <1>1, <1>2 DEF UpDown
<1>9. PICK i \in 1..(Len(s.stack) + 1) : i = n + 1 OBVIOUS
<1>10. rs \in Seq(Layers) /\ Len(rs) = n + 1 BY <1>0, <1>9, InsertAtIs
<1>11. \A k \in 1..(n + 1) : rs[k] = IF k < i THEN s.stack[k] ELSE IF k = i THEN id ELSE s.stack[k - 1]
  <2>1. PICK ss \in Seq(Layers) : ss = s.stack BY <1>0
  <2>2. \A k \in 1..(Len(ss) + 1) : InsertAt(ss, i, id)[k] =
          IF k < i THEN ss[k] ELSE IF k = i THEN id ELSE ss[k - 1]
    <3>1. i \in 1..(Len(ss) + 1) BY <2>1
    <3> QED BY <3>1, InsertAtIs
  <2> QED BY <1>9, <2>1, <2>2
<1>12. SameOrder(rs, s.stack, id) /\ Distinct(rs)
  <2>1. PICK q : q = InsertAt(s.stack, i, id) OBVIOUS
  <2>2. SameOrder(q, s.stack, id) /\ Distinct(q) BY <1>0, <2>1, InsertOrder
  <2> QED BY <1>9, <2>1, <2>2
<1> HIDE DEF rs
<1>13. r \in States BY <1>6, <1>10 DEF States
<1>14. r.stack = rs BY <1>6 DEF States
<1>15. r.pos = s.pos /\ r.lit = s.lit /\ r.back = s.back /\ r.screen = s.screen BY <1>6 DEF States
<1>16. rs[n + 1] = id /\ \A k \in 1..n : rs[k] = s.stack[k] BY <1>9, <1>11
<1> QED BY <1>10, <1>12, <1>13, <1>14, <1>15, <1>16 DEF Appended

-----------------------------------------------------------------------------
(* What stays on top *)

NoMouse == Layers \ {MouseLayer}

\* Where id covers a pixel neither before nor after, moving it, raising it or
\* lighting its title leaves the topmost layer as it was.
LEMMA TopUnmoved ==
  ASSUME NEW s \in States, NEW r \in States, NEW id, NEW p, NEW ids,
         SameOrder(r.stack, s.stack, id),
         ~Covers(s, id, p), ~Covers(r, id, p),
         \A a \in Layers : a # id => (r.pos[a] = s.pos[a] /\ (a \in r.lit <=> a \in s.lit)),
         NEW h \in 1..Len(s.stack), s.stack[h] \in ids, Covers(s, s.stack[h], p)
  PROVE  TopAt(r, p, ids) = TopAt(s, p, ids)
<1>1. PICK t \in 1..Len(s.stack) : TopOf(s, p, ids, t) BY TopExists
<1>2. s.stack \in Seq(Layers) /\ r.stack \in Seq(Layers) BY StateIs
<1>3. s.stack[t] \in Layers /\ s.stack[t] \in ids /\ Covers(s, s.stack[t], p) /\ s.stack[t] # id
  BY <1>1, <1>2 DEF TopOf
<1>4. Has(r.stack, s.stack[t]) BY <1>3 DEF SameOrder, Has
<1>5. PICK u \in 1..Len(r.stack) : r.stack[u] = s.stack[t] BY <1>4 DEF Has
<1>6. \A a \in Layers : a # id => (Covers(r, a, p) <=> Covers(s, a, p)) /\ Shows(r, a) = Shows(s, a)
  BY DEF Covers, WindowArea, Shows
<1>7. ASSUME NEW k \in 1..Len(r.stack), r.stack[k] \in ids, Covers(r, r.stack[k], p)
      PROVE  k <= u
  <2>1. r.stack[k] \in Layers /\ r.stack[k] # id BY <1>2, <1>7
  <2>2. Has(r.stack, r.stack[k]) BY DEF Has
  <2>3. Has(s.stack, r.stack[k]) BY <2>1, <2>2 DEF SameOrder
  <2>4. PICK m \in 1..Len(s.stack) : s.stack[m] = r.stack[k] BY <2>3 DEF Has
  <2>5. Covers(s, s.stack[m], p) BY <1>6, <1>7, <2>1, <2>4
  <2>6. m <= t BY <1>1, <1>7, <2>4, <2>5 DEF TopOf
  <2> QED BY <1>3, <1>5, <2>1, <2>4, <2>6 DEF SameOrder
<1>8. TopOf(r, p, ids, u) BY <1>3, <1>5, <1>6, <1>7 DEF TopOf
<1>9. TopAt(r, p, ids) = Shows(r, r.stack[u]) /\ TopAt(s, p, ids) = Shows(s, s.stack[t])
  BY <1>1, <1>8, TopAtIs
<1> QED BY <1>3, <1>5, <1>6, <1>9

LEMMA TopUnmovedOnScreen ==
  ASSUME NEW s \in States, NEW r \in States, NEW id, NEW p \in Pixels,
         WellStacked(s), SameOrder(r.stack, s.stack, id),
         ~Covers(s, id, p), ~Covers(r, id, p),
         \A a \in Layers : a # id => (r.pos[a] = s.pos[a] /\ (a \in r.lit <=> a \in s.lit))
  PROVE  TopAt(r, p, Layers) = TopAt(s, p, Layers) /\ TopAt(r, p, NoMouse) = TopAt(s, p, NoMouse)
<1>1. Len(s.stack) \in Nat BY StateIs
<1>2. PICK h \in 1..Len(s.stack) : h = 1 BY <1>1 DEF WellStacked
<1>3. s.stack[h] = Background BY <1>2 DEF WellStacked
<1>4. Background \in Layers /\ Background \in NoMouse
  BY DEF Background, Layers, NoMouse, MouseLayer
<1>5. Covers(s, s.stack[h], p) BY <1>3, BackgroundCovers
<1>6. TopAt(r, p, Layers) = TopAt(s, p, Layers) BY <1>3, <1>4, <1>5, TopUnmoved
<1>7. TopAt(r, p, NoMouse) = TopAt(s, p, NoMouse) BY <1>3, <1>4, <1>5, TopUnmoved
<1> QED BY <1>6, <1>7

\* Where the mouse covers nothing, or is not in the stack, it does not matter.
LEMMA TopWithoutMouse ==
  ASSUME NEW s \in States, NEW p, ~Covers(s, MouseLayer, p) \/ ~Has(s.stack, MouseLayer)
  PROVE  TopAt(s, p, NoMouse) = TopAt(s, p, Layers)
<1> DEFINE over(ids) == {h \in 1..Len(s.stack) : s.stack[h] \in ids /\ Covers(s, s.stack[h], p)}
<1>1. s.stack \in Seq(Layers) BY StateIs
<1>2. over(NoMouse) = over(Layers) BY <1>1 DEF NoMouse, Has
<1>3. \A ids : TopAt(s, p, ids) = Shows(s, s.stack[CHOOSE h \in over(ids) : \A k \in over(ids) : k <= h])
  BY DEF TopAt
<1> QED BY <1>2, <1>3

-----------------------------------------------------------------------------
(* The screen and the back buffer are right *)

\* With late, the cursor may not have been drawn yet.
Fits(s, late, p, v) ==
  v = TopAt(s, p, Layers) \/ (late /\ v = TopAt(s, p, NoMouse))
Right(s, late) ==
  \A p \in Pixels : Fits(s, late, p, s.back[p]) /\ Fits(s, late, p, s.screen[p])

LEMMA SameFits ==
  ASSUME NEW r, NEW s, SameLayout(r, s), NEW late, NEW p, NEW v, Fits(s, late, p, v)
  PROVE  Fits(r, late, p, v)
BY SameTop DEF Fits

\* Drawing a layer completely puts right what it covers, and spoils nothing.
LEMMA DrawFixes ==
  ASSUME NEW s \in States, WellStacked(s), NEW id \in Layers, InStack(s, id),
         NEW junk \in Rects, NEW late,
         \A p \in Pixels : ~Covers(s, id, p) =>
           Fits(s, late, p, s.back[p]) /\ Fits(s, late, p, s.screen[p]),
         NEW r, r = Draw(s, id, WholeWindow, junk)
  PROVE  r \in States /\ SameLayout(r, s) /\ Right(r, late)
<1>1. WholeWindow \in Rects BY DEF WholeWindow, Rect, Rects, Points
<1>2. r \in States /\ SameLayout(r, s) BY <1>1, DrawIs
<1>3. ASSUME NEW p \in Pixels
      PROVE  Fits(r, late, p, r.back[p]) /\ Fits(r, late, p, r.screen[p])
  <2>1. /\ r.back[p] = TopAt(s, p, Layers) \/ r.back[p] = s.back[p]
        /\ r.screen[p] = r.back[p] \/ r.screen[p] = s.screen[p]
        /\ Covers(s, id, p) =>
             r.back[p] = TopAt(s, p, Layers) /\ r.screen[p] = TopAt(s, p, Layers)
    BY <1>1, DrawIs
  <2>2. Fits(s, late, p, r.back[p]) /\ Fits(s, late, p, r.screen[p])
    BY <2>1 DEF Fits
  <2> QED BY <1>2, <2>2, SameFits
<1> QED BY <1>2, <1>3 DEF Right

LEMMA DrawKeeps ==
  ASSUME NEW s \in States, WellStacked(s), NEW id \in Layers, NEW area \in Rects,
         NEW junk \in Rects, NEW late, Right(s, late),
         NEW r, r = Draw(s, id, area, junk)
  PROVE  r \in States /\ SameLayout(r, s) /\ Right(r, late)
<1>2. r \in States /\ SameLayout(r, s) BY DrawIs
<1>3. ASSUME NEW p \in Pixels
      PROVE  Fits(r, late, p, r.back[p]) /\ Fits(r, late, p, r.screen[p])
  <2>1. /\ r.back[p] = TopAt(s, p, Layers) \/ r.back[p] = s.back[p]
        /\ r.screen[p] = r.back[p] \/ r.screen[p] = s.screen[p]
    BY DrawIs
  <2>2. Fits(s, late, p, r.back[p]) /\ Fits(s, late, p, r.screen[p])
    BY <2>1 DEF Fits, Right
  <2> QED BY <1>2, <2>2, SameFits
<1> QED BY <1>2, <1>3 DEF Right

\* Any layer is where it was, but for one.
\* r is s but for the position of id.
Moved(r, s, id, new) ==
  /\ r \in States /\ r.stack = s.stack /\ r.lit = s.lit
  /\ r.pos[id] = new /\ \A a \in Layers : a # id => r.pos[a] = s.pos[a]

LEMMA MovedIs ==
  ASSUME NEW s \in States, NEW id \in Layers, NEW new \in Points,
         NEW m, m = [s EXCEPT !.pos[id] = new]
  PROVE  /\ m \in States /\ m.stack = s.stack /\ m.lit = s.lit
         /\ m.back = s.back /\ m.screen = s.screen
         /\ m.pos = [s.pos EXCEPT ![id] = new] /\ m.pos[id] = new
         /\ \A a \in Layers : a # id => m.pos[a] = s.pos[a]
BY DEF States

LEMMA MovedKeeps ==
  ASSUME NEW s \in States, NEW id \in Layers, NEW new \in Points,
         NEW m, m = [s EXCEPT !.pos[id] = new]
  PROVE  /\ m \in States /\ m.stack = s.stack /\ m.lit = s.lit
         /\ m.back = s.back /\ m.screen = s.screen
BY DEF States

\* Move of a layer in the stack, by a mouse whose last position was drawn or
\* not: the area it leaves and the area it enters are right, and so is the rest.
LEMMA MoveIs ==
  ASSUME NEW s \in States, Stacked(s), NEW id \in Layers, id # Background, Has(s.stack, id),
         NEW new \in Points, NEW junk \in Rects, NEW late \in BOOLEAN, Right(s, late),
         late => id = MouseLayer, NEW r, r = Move(s, id, new, junk)
  PROVE  Moved(r, s, id, new) /\ Right(r, FALSE)
<1>1. PICK m : m = [s EXCEPT !.pos[id] = new] OBVIOUS
<1>2. /\ m \in States /\ m.stack = s.stack /\ m.lit = s.lit
      /\ m.back = s.back /\ m.screen = s.screen
  BY <1>1, MovedKeeps
<1>3. m.pos[id] = new BY <1>1 DEF States
<1>4. \A a \in Layers : a # id => m.pos[a] = s.pos[a] BY <1>1, MovedIs
<1>5. WellStacked(s) /\ Distinct(s.stack) /\ Background \in Layers
  BY DEF Stacked, Background, Layers
<1>6. WellStacked(m) BY <1>2, <1>4, <1>5 DEF WellStacked
<1>7. PICK area \in Rects : area = WindowArea(s, id) BY WindowAreaIs
<1>8. PICK t : t = DrawAll(m, area) OBVIOUS
<1>9. t \in States /\ SameLayout(t, m) BY <1>2, <1>6, <1>8, DrawAllIs
<1>10. SameOrder(m.stack, s.stack, id) BY <1>2, <1>5, StateIs, SameOrderItself
<1>11. ASSUME NEW p \in Pixels, ~Covers(t, id, p)
       PROVE  Fits(t, FALSE, p, t.back[p]) /\ Fits(t, FALSE, p, t.screen[p])
  <2>1. ~Covers(m, id, p) BY <1>9, <1>11, SameDraws
  <2>2. /\ Inside(p, area) => t.back[p] = TopAt(m, p, Layers) /\ t.screen[p] = TopAt(m, p, Layers)
        /\ ~Inside(p, area) => t.screen[p] = m.screen[p]
        /\ t.back[p] = TopAt(m, p, Layers) \/ t.back[p] = m.back[p]
    BY <1>2, <1>6, <1>8, DrawAllIs
  <2>3. CASE Inside(p, area) BY <2>2, <2>3, <1>9, SameTop DEF Fits
  <2>4. CASE ~Inside(p, area)
    <3>1. ~Covers(s, id, p) BY <2>4, <1>7, CoveredIsInside
    <3>2. TopAt(m, p, Layers) = TopAt(s, p, Layers)
      BY <1>2, <1>4, <1>5, <1>10, <2>1, <3>1, TopUnmovedOnScreen
    <3>3. late => TopAt(s, p, NoMouse) = TopAt(s, p, Layers)
      BY <3>1, TopWithoutMouse
    <3>4. s.back[p] = TopAt(s, p, Layers) /\ s.screen[p] = TopAt(s, p, Layers)
      BY <3>3 DEF Right, Fits
    <3>5. t.back[p] = TopAt(m, p, Layers) /\ t.screen[p] = TopAt(m, p, Layers)
      BY <1>2, <2>2, <2>4, <3>2, <3>4
    <3> QED BY <1>9, <3>5, SameTop DEF Fits
  <2> QED BY <2>3, <2>4
<1>12. InStack(t, id) BY <1>2, <1>9, HasIsInStack DEF SameLayout
<1>13. r = Draw(t, id, WholeWindow, junk) BY <1>1, <1>7, <1>8 DEF Move
<1>14. WellStacked(t) BY <1>6, <1>9, SameWellStacked
<1>15. r \in States /\ SameLayout(r, t) /\ Right(r, FALSE)
  BY <1>9, <1>11, <1>12, <1>13, <1>14, DrawFixes
<1> QED BY <1>2, <1>3, <1>4, <1>9, <1>15 DEF SameLayout, Moved

\* Move of a layer that is not shown, whatever is copied besides.
LEMMA MoveHidden ==
  ASSUME NEW s \in States, Stacked(s), NEW id \in Layers, ~Has(s.stack, id),
         NEW new \in Points, NEW junk \in Rects, NEW late \in BOOLEAN, Right(s, late),
         NEW r, r = Move(s, id, new, junk)
  PROVE  Moved(r, s, id, new) /\ Right(r, late)
<1>1. PICK m : m = [s EXCEPT !.pos[id] = new] OBVIOUS
<1>2. /\ m \in States /\ m.stack = s.stack /\ m.lit = s.lit
      /\ m.back = s.back /\ m.screen = s.screen
  BY <1>1, MovedKeeps
<1>3. m.pos[id] = new BY <1>1 DEF States
<1>4. \A a \in Layers : a # id => m.pos[a] = s.pos[a] BY <1>1, MovedIs
<1>5. WellStacked(s) /\ Background \in Layers /\ s.stack \in Seq(Layers)
  BY StateIs DEF Stacked, Background, Layers
<1>6a. id # Background BY <1>5 DEF WellStacked, Has
<1>6. WellStacked(m) BY <1>2, <1>4, <1>5, <1>6a DEF WellStacked
<1>7. \A h \in 1..Len(s.stack) : s.stack[h] \in Layers /\ s.stack[h] # id BY <1>5 DEF Has
<1>8. ASSUME NEW p, NEW ids PROVE TopAt(m, p, ids) = TopAt(s, p, ids)
  <2> DEFINE over(q) == {h \in 1..Len(q.stack) : q.stack[h] \in ids /\ Covers(q, q.stack[h], p)}
  <2>1. \A h \in 1..Len(s.stack) : Covers(m, s.stack[h], p) <=> Covers(s, s.stack[h], p)
    BY <1>4, <1>7 DEF Covers, WindowArea
  <2>2. over(m) = over(s) BY <1>2, <2>1
  <2>3. \A a : Shows(m, a) = Shows(s, a) BY <1>2 DEF Shows
  <2>4. \A q : TopAt(q, p, ids) = Shows(q, q.stack[CHOOSE h \in over(q) : \A k \in over(q) : k <= h])
    BY DEF TopAt
  <2> QED BY <1>2, <2>2, <2>3, <2>4
<1>9. Right(m, late) BY <1>2, <1>8 DEF Right, Fits
<1>10. PICK area \in Rects : area = WindowArea(s, id) BY WindowAreaIs
<1>11. PICK t : t = DrawAll(m, area) OBVIOUS
<1>12. t \in States /\ SameLayout(t, m) BY <1>2, <1>6, <1>11, DrawAllIs
<1>13. ASSUME NEW p \in Pixels
       PROVE  Fits(t, late, p, t.back[p]) /\ Fits(t, late, p, t.screen[p])
  <2>1. /\ Inside(p, area) => t.back[p] = TopAt(m, p, Layers) /\ t.screen[p] = TopAt(m, p, Layers)
        /\ ~Inside(p, area) => t.screen[p] = m.screen[p]
        /\ t.back[p] = TopAt(m, p, Layers) \/ t.back[p] = m.back[p]
    BY <1>2, <1>6, <1>11, DrawAllIs
  <2>2. Fits(m, late, p, t.back[p]) /\ Fits(m, late, p, t.screen[p]) BY <1>9, <2>1 DEF Right, Fits
  <2> QED BY <1>12, <2>2, SameFits
<1>14. Right(t, late) BY <1>13 DEF Right
<1>15. r = Draw(t, id, WholeWindow, junk) BY <1>1, <1>10, <1>11 DEF Move
<1>16. WellStacked(t) BY <1>6, <1>12, SameWellStacked
<1>17. WholeWindow \in Rects BY DEF WholeWindow, Rect, Rects, Points
<1>18. r \in States /\ SameLayout(r, t) /\ Right(r, late)
  BY <1>12, <1>14, <1>15, <1>16, <1>17, DrawKeeps
<1> QED BY <1>2, <1>3, <1>4, <1>12, <1>18 DEF SameLayout, Moved

LEMMA ToplevelIs ==
  /\ Toplevel \subseteq Layers /\ Terminal \in Toplevel /\ 0 \notin Toplevel /\ 0 \notin Layers
  /\ Background \notin Toplevel /\ MouseLayer \notin Toplevel /\ ConsoleLayer \notin Toplevel
  /\ Background \in Layers /\ MouseLayer \in Layers /\ Draggable = Toplevel
  /\ MouseLayer # 0 /\ MouseLayer # Background
  /\ \A id \in Toplevel : id > 0
BY DEF Toplevel, Layers, Background, ConsoleLayer, MouseLayer, MainWindow, TextWindow, Terminal, Draggable

\* A change of one title, followed by a complete draw of that layer.
LEMMA LightIs ==
  ASSUME NEW s \in States, Stacked(s), NEW id \in Toplevel, NEW late, Right(s, late),
         NEW t \in States, Stacked(t), t.pos = s.pos, Has(t.stack, id),
         SameOrder(t.stack, s.stack, id), t.back = s.back, t.screen = s.screen,
         \A a \in Layers : a # id => (a \in t.lit <=> a \in s.lit),
         NEW junk \in Rects, NEW r, r = Draw(t, id, WholeWindow, junk)
  PROVE  r \in States /\ SameLayout(r, t) /\ Right(r, late)
<1>1. id \in Layers BY ToplevelIs
<1>2. InStack(t, id) BY HasIsInStack
<1>3. WellStacked(s) /\ WellStacked(t) BY DEF Stacked
<1>4. ASSUME NEW p \in Pixels, ~Covers(t, id, p)
      PROVE  Fits(t, late, p, t.back[p]) /\ Fits(t, late, p, t.screen[p])
  <2>1. ~Covers(s, id, p) BY <1>4 DEF Covers, WindowArea
  <2>2. TopAt(t, p, Layers) = TopAt(s, p, Layers) /\ TopAt(t, p, NoMouse) = TopAt(s, p, NoMouse)
    BY <1>3, <1>4, <2>1, TopUnmovedOnScreen
  <2> QED BY <2>2 DEF Right, Fits
<1> QED BY <1>1, <1>2, <1>3, <1>4, DrawFixes

\* What Activate(id) leaves: only id's title is lit, id is in the stack, and
\* above every other window if it was not active before.
Activated(r, s, active, id) ==
  /\ r \in States /\ Stacked(r)
  /\ r.pos = s.pos /\ r.lit = {id} \ {0}
  /\ Has(r.stack, MouseLayer) /\ (id # 0 => Has(r.stack, id))
  /\ \A a : Has(r.stack, a) => (Has(s.stack, a) \/ a = id)
  /\ \A a : Has(s.stack, a) => Has(r.stack, a)
  /\ (id # active /\ id # 0 /\ Has(s.stack, id)) => r.stack[Len(r.stack) - 1] = id

\* Activate: the title of one window goes out, that of another lights up and
\* the window rises.
LEMMA ActivateIs ==
  ASSUME NEW s \in States, Stacked(s), Has(s.stack, MouseLayer),
         NEW active \in Toplevel \cup {0}, active # 0 => Has(s.stack, active),
         NEW id \in Toplevel \cup {0}, id # 0 => (Has(s.stack, id) \/ id = Terminal),
         active # 0 \/ id # 0,
         s.lit = {active} \ {0}, NEW late, Right(s, late), NEW junk \in Rects,
         NEW r, r = Activate(s, active, MouseLayer, id, junk)
  PROVE  Activated(r, s, active, id) /\ Right(r, late)
<1> DEFINE off == [s EXCEPT !.lit = @ \ {active}]
           s1 == IF active > 0 THEN Draw(off, active, WholeWindow, junk) ELSE s
           on == [s1 EXCEPT !.lit = @ \cup {id}]
           up == UpDown(on, id, GetHeight(on, MouseLayer) - 1)
<1>0. s.stack \in Seq(Layers) /\ Distinct(s.stack) /\ s.lit \in SUBSET Layers
  BY StateIs DEF Stacked
<1>1. CASE active = id
  <2>1. r = s BY <1>1 DEF Activate
  <2> QED BY <1>1, <2>1 DEF Activated
<1>2. CASE active # id
  <2>1. /\ s1 \in States /\ Stacked(s1) /\ Right(s1, late) /\ s1.stack = s.stack
        /\ s1.pos = s.pos /\ s1.lit = {}
    <3>1. CASE active = 0
      <4>1. ~(active > 0) BY <3>1
      <4>2. s1 = s BY <4>1
      <4> QED BY <3>1, <4>2
    <3>2. CASE active # 0
      <4>1. active \in Toplevel /\ active > 0 /\ active \in Layers BY <3>2, ToplevelIs
      <4>2. off \in States /\ off.stack = s.stack /\ off.pos = s.pos
        BY <1>0 DEF States
      <4>3. off.back = s.back /\ off.screen = s.screen /\ off.lit = s.lit \ {active}
        BY DEF States
      <4>4. s1 = Draw(off, active, WholeWindow, junk) BY <4>1
      <4> HIDE DEF off, s1
      <4>5. SameOrder(off.stack, s.stack, active) BY <1>0, <4>2, SameOrderItself
      <4>6. Stacked(off) BY <4>2 DEF Stacked, WellStacked
      <4>7. \A a \in Layers : a # active => (a \in off.lit <=> a \in s.lit) BY <4>3
      <4>8. Has(off.stack, active) BY <3>2, <4>2
      <4>9. s1 \in States /\ SameLayout(s1, off) /\ Right(s1, late)
        BY <4>1, <4>2, <4>3, <4>4, <4>5, <4>6, <4>7, <4>8, LightIs
      <4>10. Stacked(s1) BY <4>6, <4>9, SameStacked
      <4>11. off.lit = {} BY <4>3
      <4> QED BY <4>2, <4>9, <4>10, <4>11 DEF SameLayout
    <3> QED BY <3>1, <3>2
  <2>2. CASE id = 0
    <3>1. r = s1 BY <1>2, <2>2 DEF Activate
    <3> HIDE DEF s1
    <3> QED BY <2>1, <2>2, <3>1 DEF Activated
  <2>3. CASE id # 0
    <3>1. r = Draw(up, id, WholeWindow, junk) BY <1>2, <2>3 DEF Activate
    <3> HIDE DEF s1
    <3>2. id \in Toplevel /\ id \in Layers BY <2>3, ToplevelIs
    <3>3. on \in States /\ on.stack = s1.stack /\ on.pos = s1.pos /\ on.back = s1.back
      BY <2>1, <3>2 DEF States
    <3>4. on.screen = s1.screen /\ on.lit = {id} BY <2>1 DEF States
    <3> HIDE DEF on
    <3>5. Stacked(on) BY <2>1, <3>3 DEF Stacked, WellStacked
    <3>6. Has(on.stack, MouseLayer) BY <2>1, <3>3
    <3>7. /\ up = [on EXCEPT !.stack = up.stack] /\ up \in States /\ Stacked(up)
          /\ SameOrder(up.stack, on.stack, id) /\ Has(up.stack, id)
          /\ Has(s.stack, id) => up.stack[Len(up.stack) - 1] = id
      <4>1. CASE Has(s.stack, id)
        <5>1. Has(on.stack, id) BY <2>1, <3>3, <4>1
        <5>2. PICK u : u = up OBVIOUS
        <5> HIDE DEF up
        <5>3. /\ u = [on EXCEPT !.stack = u.stack] /\ u \in States /\ Stacked(u)
              /\ SameOrder(u.stack, on.stack, id) /\ Has(u.stack, id)
              /\ u.stack[Len(u.stack) - 1] = id
          BY <3>2, <3>3, <3>5, <3>6, <5>1, <5>2, RaiseIs DEF up
        <5> QED BY <5>2, <5>3
      <4>2. CASE ~Has(s.stack, id)
        <5>1. id = Terminal /\ ~Has(on.stack, Terminal) BY <2>1, <2>3, <3>3, <4>2
        <5>2. PICK u : u = up OBVIOUS
        <5> HIDE DEF up
        <5>3. /\ u = [on EXCEPT !.stack = u.stack] /\ u \in States /\ Stacked(u)
              /\ SameOrder(u.stack, on.stack, Terminal) /\ Has(u.stack, Terminal)
          BY <3>3, <3>5, <3>6, <5>1, <5>2, PlaceIs DEF up
        <5> QED BY <4>2, <5>1, <5>2, <5>3
      <4> QED BY <4>1, <4>2
    <3> HIDE DEF up
    <3>8. up.pos = on.pos /\ up.lit = on.lit /\ up.back = on.back /\ up.screen = on.screen
      BY <3>3, <3>7 DEF States
    <3>9. r \in States /\ SameLayout(r, up) /\ Right(r, late)
      <4>1. \A a \in Layers : a # id => (a \in up.lit <=> a \in s1.lit) BY <2>1, <3>4, <3>8
      <4>2. SameOrder(up.stack, s1.stack, id) BY <3>3, <3>7
      <4>3. up.pos = s1.pos /\ up.back = s1.back /\ up.screen = s1.screen BY <3>3, <3>4, <3>8
      <4> QED BY <2>1, <3>1, <3>2, <3>7, <4>1, <4>2, <4>3, LightIs
    <3>10. Stacked(r) BY <3>7, <3>9, SameStacked
    <3>11. r.stack = up.stack /\ r.pos = s.pos /\ r.lit = {id} \ {0}
      BY <2>1, <2>3, <3>3, <3>4, <3>8, <3>9 DEF SameLayout
    <3>12. \A a : a # id => (Has(up.stack, a) <=> Has(s.stack, a)) BY <2>1, <3>3, <3>7 DEF SameOrder
    <3>13. Has(up.stack, MouseLayer) BY <3>2, <3>12, ToplevelIs
    <3> QED BY <3>7, <3>9, <3>10, <3>11, <3>12, <3>13 DEF Activated
  <2> QED BY <2>2, <2>3
<1> QED BY <1>1, <1>2

-----------------------------------------------------------------------------
(* The invariant *)

\* What every handler relies on and keeps: the layers in the stack, the titles,
\* the mouse and the drag agree, and both buffers are right.
LayersIInv ==
  /\ g \in States /\ Stacked(g)
  /\ active_layer_ \in Toplevel \cup {0} /\ mouse_layer_ \in {0, MouseLayer}
  /\ position_ \in Pixels /\ drag_layer_id_ \in Draggable \cup {0}
  /\ previous_left \in BOOLEAN /\ mouse_moved \in BOOLEAN
  /\ Has(g.stack, MouseLayer) <=> mouse_layer_ # 0
  /\ active_layer_ # 0 => Has(g.stack, active_layer_)
  /\ drag_layer_id_ # 0 => Has(g.stack, drag_layer_id_)
  /\ mouse_moved => mouse_layer_ # 0
  /\ OnlyActiveLit /\ CursorFollowsMouse /\ DragNeedsButton
  /\ Right(g, ~mouse_moved)

LEMMA InvariantSuffices == LayersIInv => WindowsInv /\ ScreenShowsStack
<1> SUFFICES ASSUME LayersIInv PROVE WindowsInv /\ ScreenShowsStack
  OBVIOUS
<1>1. g.lit \subseteq Toplevel
  BY Zenon DEF LayersIInv, OnlyActiveLit
<1>2. LayersTypeOK
  BY <1>1, StateIs, Zenon DEF LayersIInv, LayersTypeOK, Points
<1>3. StackWellFormed
  <2>1. PICK ss \in Seq(Layers) : ss = g.stack
    BY StateIs DEF LayersIInv
  <2>2. Distinct(ss) /\ Len(ss) \in 4..6 /\ ss[1] = Background /\ ss[2] = ConsoleLayer
    BY <2>1, StackedLength DEF LayersIInv, Stacked, WellStacked
  <2>3. IsInjective(ss)
    <3>1. \A a \in DOMAIN ss, b \in DOMAIN ss : ss[a] = ss[b] => a = b
      BY <2>2 DEF Distinct
    <3> QED  BY <3>1 DEF IsInjective
  <2>4. mouse_layer_ # 0 => ss[Len(ss)] = MouseLayer
    BY <2>1, StackedLength DEF LayersIInv
  <2>5. \A id \in {MainWindow, TextWindow} : InStack(g, id)
    BY HasIsInStack DEF LayersIInv, Stacked
  <2> QED  BY <2>1, <2>2, <2>3, <2>4, <2>5 DEF StackWellFormed
<1>4. ScreenShowsStack
  <2> SUFFICES ASSUME NEW p \in Pixels
      PROVE  \/ g.screen[p] = TopAt(g, p, Layers) /\ g.back[p] = TopAt(g, p, Layers)
             \/ ~mouse_moved /\ {g.screen[p], g.back[p]} \subseteq
                          {TopAt(g, p, Layers), TopAt(g, p, Layers \ {MouseLayer})}
    BY DEF ScreenShowsStack
  <2>1. Fits(g, ~mouse_moved, p, g.back[p]) /\ Fits(g, ~mouse_moved, p, g.screen[p])
    BY DEF LayersIInv, Right
  <2> QED  BY <2>1 DEF Fits, NoMouse
<1> QED  BY <1>2, <1>3, <1>4 DEF WindowsInv, LayersIInv

\* The stack after a move.
LEMMA MovedStacked ==
  ASSUME NEW s \in States, Stacked(s), NEW id, id # Background, NEW new, NEW r, Moved(r, s, id, new)
  PROVE  Stacked(r)
BY ToplevelIs DEF Stacked, WellStacked, Moved

LEMMA RightIsRight ==
  ASSUME NEW s, NEW late, Right(s, FALSE)
  PROVE  Right(s, late)
BY DEF Right, Fits

LEMMA JunkIs == JunkRects \subseteq Rects /\ Screen \in JunkRects \cup Rects
<1>1. ScreenSize \in (Nat \ {0}) \X (Nat \ {0})
  BY LayersAssumption
<1>2. (0..ScreenSize[1]) \X (0..ScreenSize[2]) \subseteq Points
  BY <1>1 DEF Points
<1>3. JunkRects \subseteq Rects
  BY <1>2, ScreenIs, RectIsRect DEF JunkRects
<1> QED  BY <1>3, ScreenIs

-----------------------------------------------------------------------------
(* One lemma per handler *)

\* The state InitializeLayer and the two windows leave, before it is drawn.
LEMMA InitLayersIInv == LayersInit => LayersIInv
<1> SUFFICES ASSUME LayersInit PROVE LayersIInv
  OBVIOUS
<1> DEFINE empty == [stack  |-> <<>>,
                     pos    |-> [id \in Layers |-> IF id \in {MouseLayer, Terminal} THEN <<0, 0>>
                                                   ELSE StartPos[id]],
                     lit    |-> {},
                     back   |-> [p \in Pixels |-> Nothing],
                     screen |-> [p \in Pixels |-> Nothing]]
           one == UpDown(empty, Background, 0)
           two == UpDown(one, ConsoleLayer, 1)
           three == UpDown(two, MainWindow, Top)
           four == UpDown(three, TextWindow, Top)
<1>1. g = DrawAll(four, Screen)
  BY DEF LayersInit
<1>2. empty \in States /\ empty.stack = <<>>
  <2>1. Nothing \in Contents /\ <<0, 0>> \in Points
    BY ScreenIs DEF Contents
  <2>2. \A id \in Layers : StartPos[id] \in Points
    BY LayersAssumption DEF Points
  <2> QED  BY <2>1, <2>2 DEF States
<1>3. empty.pos[Background] = <<0, 0>> /\ empty.lit = {}
  BY LayersAssumption DEF Layers, Background, MouseLayer, Terminal
<1> HIDE DEF empty
<1>4. Background \in Layers /\ ConsoleLayer \in Layers /\ MainWindow \in Layers /\ TextWindow \in Layers
  BY DEF Layers, Background, ConsoleLayer, MainWindow, TextWindow
<1>5. /\ one \in States /\ one.pos = empty.pos /\ one.lit = empty.lit
      /\ Len(one.stack) = 1 /\ one.stack[1] = 1 /\ Distinct(one.stack)
  <2>1. ~Has(empty.stack, Background) /\ Distinct(empty.stack) /\ Len(empty.stack) = 0
    BY <1>2 DEF Has, Distinct
  <2>2. PICK u : u = one OBVIOUS
  <2>k. PICK k \in Nat : k = 0 OBVIOUS
  <2>3. PICK n \in Nat : n = 0 OBVIOUS
  <2>4. u = UpDown(empty, Background, n) /\ k = Len(empty.stack) /\ n >= k
    BY <2>k, <2>1, <2>2, <2>3
  <2> HIDE DEF one
  <2>5. Appended(u, empty, Background, k)
    BY <1>2, <1>4, <2>1, <2>3, <2>4, <2>k, AppendIs, Zenon
  <2> QED  BY <2>1, <2>2, <2>5, <2>k DEF Appended, Background
<1> HIDE DEF one
<1>6. /\ two \in States /\ two.pos = one.pos /\ two.lit = one.lit /\ Distinct(two.stack)
      /\ Len(two.stack) = 2 /\ two.stack[1] = 1 /\ two.stack[2] = 2
  <2>1. ~Has(one.stack, ConsoleLayer)
    BY <1>5 DEF Has, ConsoleLayer
  <2>2. PICK u : u = two OBVIOUS
  <2>k. PICK k \in Nat : k = 1 OBVIOUS
  <2>3. PICK n \in Nat : n = 1 OBVIOUS
  <2>4. u = UpDown(one, ConsoleLayer, n) /\ k = Len(one.stack) /\ n >= k
    BY <2>k, <1>5, <2>2, <2>3
  <2> HIDE DEF two
  <2>5. Appended(u, one, ConsoleLayer, k)
    BY <1>5, <1>4, <2>1, <2>4, <2>k, AppendIs, Zenon
  <2> QED  BY <1>5, <2>2, <2>5, <2>k DEF Appended, ConsoleLayer
<1> HIDE DEF two
<1>7. /\ three \in States /\ three.pos = two.pos /\ three.lit = two.lit /\ Distinct(three.stack)
      /\ Len(three.stack) = 3 /\ three.stack[1] = 1 /\ three.stack[2] = 2 /\ three.stack[3] = 3
  <2>1. ~Has(two.stack, MainWindow)
    BY <1>6 DEF Has, MainWindow
  <2>2. PICK u : u = three OBVIOUS
  <2>k. PICK k \in Nat : k = 2 OBVIOUS
  <2>3. PICK n \in Nat : n = Top BY DEF Top
  <2>4. u = UpDown(two, MainWindow, n) /\ k = Len(two.stack) /\ n >= k
    BY <2>k, <1>6, <2>2, <2>3 DEF Top
  <2> HIDE DEF three
  <2>5. Appended(u, two, MainWindow, k)
    BY <1>6, <1>4, <2>1, <2>4, <2>k, AppendIs, Zenon
  <2> QED  BY <1>6, <2>2, <2>5, <2>k DEF Appended, MainWindow
<1> HIDE DEF three
<1>8. /\ four \in States /\ four.pos = three.pos /\ four.lit = three.lit /\ Distinct(four.stack)
      /\ Len(four.stack) = 4 /\ four.stack[1] = 1 /\ four.stack[2] = 2
      /\ four.stack[3] = 3 /\ four.stack[4] = 4
  <2>1. ~Has(three.stack, TextWindow)
    BY <1>7 DEF Has, TextWindow
  <2>2. PICK u : u = four OBVIOUS
  <2>k. PICK k \in Nat : k = 3 OBVIOUS
  <2>3. PICK n \in Nat : n = Top BY DEF Top
  <2>4. u = UpDown(three, TextWindow, n) /\ k = Len(three.stack) /\ n >= k
    BY <2>k, <1>7, <2>2, <2>3 DEF Top
  <2> HIDE DEF four
  <2>5. Appended(u, three, TextWindow, k)
    BY <1>7, <1>4, <2>1, <2>4, <2>k, AppendIs, Zenon
  <2> QED  BY <1>7, <2>2, <2>5, <2>k DEF Appended, TextWindow
<1> HIDE DEF four
<1>9. four.pos[Background] = <<0, 0>> /\ four.lit = {}
  BY <1>3, <1>5, <1>6, <1>7, <1>8
<1>10. ~Has(four.stack, MouseLayer) /\ ~Has(four.stack, Terminal)
  BY <1>8 DEF Has, MouseLayer, Terminal
<1>11. WellStacked(four)
  BY <1>8, <1>9 DEF WellStacked, Background, MouseLayer
<1>12. Stacked(four)
  BY <1>8, <1>10, <1>11 DEF Stacked, Has, ConsoleLayer, MainWindow, TextWindow
<1>13. /\ g \in States /\ SameLayout(g, four)
       /\ \A p \in Pixels : Inside(p, Screen) =>
            g.back[p] = TopAt(four, p, Layers) /\ g.screen[p] = TopAt(four, p, Layers)
  BY <1>1, <1>8, <1>11, DrawAllIs, ScreenIs
<1>14. Stacked(g) /\ ~Has(g.stack, MouseLayer) /\ g.lit = {}
  BY <1>9, <1>10, <1>12, <1>13, SameStacked DEF SameLayout
<1>15. Right(g, ~mouse_moved)
  <2>1. \A p \in Pixels : /\ g.back[p] = TopAt(g, p, Layers)
                          /\ g.screen[p] = TopAt(g, p, Layers)
    BY <1>13, ScreenIs, SameTop
  <2> QED  BY <2>1 DEF Right, Fits
<1>16. <<0, 0>> \in Pixels
  BY LayersAssumption DEF Pixels
<1> QED  BY <1>13, <1>14, <1>15, <1>16
         DEF LayersIInv, LayersInit, OnlyActiveLit, CursorFollowsMouse, DragNeedsButton

LEMMA InitializeMouseIInv ==
  ASSUME LayersIInv, NEW junk \in JunkRects, InitializeMouse(junk)
  PROVE  LayersIInv'
<1>1. StartPos[MouseLayer] \in Pixels /\ StartPos[MouseLayer] \in Points /\ junk \in Rects
  BY LayersAssumption, JunkIs, ScreenIs DEF Pixels
<1>2. ~mouse_moved /\ ~Has(g.stack, MouseLayer) /\ mouse_moved = FALSE
  BY DEF LayersIInv, InitializeMouse
<1>3. g \in States /\ Stacked(g) /\ Right(g, TRUE) /\ MouseLayer \in Layers /\ MouseLayer # Background
  BY <1>2, ToplevelIs DEF LayersIInv
<1>4. PICK new \in Points : new = StartPos[MouseLayer]
  BY <1>1
<1>5. PICK r : r = Move(g, MouseLayer, new, junk) OBVIOUS
<1>c. Moved(r, g, MouseLayer, new) /\ Right(r, TRUE)
  <2>1. PICK late \in BOOLEAN : late = TRUE OBVIOUS
  <2>2. Right(g, late) BY <1>3, <2>1
  <2>3. Moved(r, g, MouseLayer, new) /\ Right(r, late)
    BY <1>1, <1>2, <1>3, <1>5, <2>2, MoveHidden, Zenon
  <2> QED  BY <2>1, <2>3
<1>6. /\ r \in States /\ r.stack = g.stack /\ r.lit = g.lit /\ r.pos[MouseLayer] = new
      /\ Right(r, TRUE)
  BY <1>c DEF Moved
<1>7. Stacked(r)
  BY <1>3, <1>c, MovedStacked
<1>8. Len(r.stack) \in 4..6 /\ ~Has(r.stack, MouseLayer) /\ Distinct(r.stack)
  BY <1>2, <1>6, <1>7, StackedLength DEF Stacked
<1>9. PICK n \in Nat : n = Top BY DEF Top
<1>10. PICK v : v = UpDown(r, MouseLayer, n) OBVIOUS
<1>a. PICK len \in 4..6 : len = Len(r.stack)
  BY <1>8
<1>11. len \in Nat /\ n >= len
  BY <1>9 DEF Top
<1>b. Appended(v, r, MouseLayer, len)
  BY <1>3, <1>6, <1>8, <1>10, <1>11, <1>a, AppendIs, Zenon
<1>12. /\ v \in States
       /\ SameOrder(v.stack, r.stack, MouseLayer) /\ Distinct(v.stack)
       /\ Len(v.stack) = len + 1 /\ v.stack[len + 1] = MouseLayer
       /\ \A k \in 1..len : v.stack[k] = r.stack[k]
  BY <1>b DEF Appended
<1>13. v.pos = r.pos /\ v.lit = r.lit /\ v.back = r.back /\ v.screen = r.screen
  BY <1>b DEF Appended
<1>14. g' = v
  BY <1>4, <1>5, <1>9, <1>10 DEF InitializeMouse
<1>15. Has(v.stack, MouseLayer)
  BY <1>8, <1>12, <1>a DEF Has
<1>16. \A a : a # MouseLayer => (Has(v.stack, a) <=> Has(g.stack, a))
  BY <1>6, <1>12 DEF SameOrder
<1>17. Stacked(v)
  <2>1. WellStacked(v)
    <3>1. \A h \in 1..Len(v.stack) : v.stack[h] = MouseLayer => h = Len(v.stack)
      BY <1>8, <1>12, <1>a DEF Has
    <3> QED  BY <1>7, <1>8, <1>12, <1>a, <1>13, <3>1 DEF Stacked, WellStacked
  <2>2. v.stack[2] = ConsoleLayer
    BY <1>7, <1>8, <1>12, <1>a DEF Stacked
  <2>3. Has(v.stack, MainWindow) /\ Has(v.stack, TextWindow)
    BY <1>3, <1>16 DEF Stacked, MainWindow, TextWindow, MouseLayer
  <2>4. Has(v.stack, Terminal) <=> Has(r.stack, Terminal)
    BY <1>6, <1>16 DEF Terminal, MouseLayer
  <2>5. Len(v.stack) = 4 + (IF Has(v.stack, MouseLayer) THEN 1 ELSE 0)
                         + (IF Has(v.stack, Terminal) THEN 1 ELSE 0)
    BY <1>7, <1>8, <1>12, <1>a, <1>15, <2>4 DEF Stacked
  <2> QED  BY <1>12, <2>1, <2>2, <2>3, <2>5 DEF Stacked
<1>18. Right(v, TRUE)
  <2> SUFFICES ASSUME NEW p \in Pixels
      PROVE  Fits(v, TRUE, p, v.back[p]) /\ Fits(v, TRUE, p, v.screen[p])
    BY DEF Right
  <2>1. TopAt(v, p, NoMouse) = TopAt(r, p, NoMouse)
    <3>1. TopAt(v, p, NoMouse) =
            LET over == {h \in 1..Len(v.stack) : v.stack[h] \in NoMouse /\ Covers(v, v.stack[h], p)}
            IN  Shows(v, v.stack[CHOOSE h \in over : \A k \in over : k <= h])
      BY DEF TopAt
    <3>2. \A a \in Layers : (Covers(v, a, p) <=> Covers(r, a, p)) /\ Shows(v, a) = Shows(r, a)
      BY <1>13 DEF Covers, WindowArea, Shows
    <3>3. PICK h \in 1..Len(r.stack) : TopOf(r, p, NoMouse, h)
      <4>1. Background \in NoMouse /\ Covers(r, Background, p)
        BY <1>6, <1>7, BackgroundCovers DEF Stacked, NoMouse, Background, Layers, MouseLayer
      <4>2. 1 \in 1..Len(r.stack) /\ r.stack[1] = Background
        BY <1>7, <1>8 DEF Stacked, WellStacked
      <4> QED  BY <1>6, <4>1, <4>2, TopExists
    <3>4. h \in 1..Len(v.stack) /\ v.stack[h] = r.stack[h] /\ r.stack[h] \in Layers
      BY <1>6, <1>8, <1>12, <1>a, StateIs
    <3>5. TopOf(v, p, NoMouse, h)
      <4>1. v.stack[h] \in NoMouse /\ Covers(v, v.stack[h], p)
        BY <3>2, <3>3, <3>4 DEF TopOf
      <4>2. ASSUME NEW k \in 1..Len(v.stack), v.stack[k] \in NoMouse, Covers(v, v.stack[k], p)
            PROVE  k <= h
        <5>1. k \in 1..Len(r.stack)
          BY <1>8, <1>12, <1>a, <4>2 DEF NoMouse
        <5>2. v.stack[k] = r.stack[k] /\ r.stack[k] \in Layers
          BY <1>6, <1>12, <1>a, <5>1, StateIs
        <5> QED  BY <3>2, <3>3, <4>2, <5>1, <5>2 DEF TopOf
      <4> QED  BY <3>4, <4>1, <4>2 DEF TopOf
    <3> QED  BY <1>6, <1>12, <3>2, <3>3, <3>4, <3>5, TopAtIs
  <2>2. TopAt(r, p, NoMouse) = TopAt(r, p, Layers)
    BY <1>6, <1>8, TopWithoutMouse
  <2>3. Fits(r, TRUE, p, r.back[p]) /\ Fits(r, TRUE, p, r.screen[p])
    BY <1>6 DEF Right
  <2> QED  BY <1>13, <2>1, <2>2, <2>3 DEF Fits
<1> QED
  <2>1. /\ mouse_layer_' = MouseLayer /\ position_' = new /\ active_layer_' = active_layer_
        /\ drag_layer_id_' = drag_layer_id_ /\ previous_left' = previous_left /\ mouse_moved' = FALSE
    BY <1>2, <1>4 DEF InitializeMouse
  <2>2. active_layer_ # MouseLayer /\ drag_layer_id_ # MouseLayer
    BY ToplevelIs DEF LayersIInv
  <2>3. g' \in States /\ Stacked(g') /\ Has(g'.stack, MouseLayer) /\ Right(g', ~mouse_moved')
    BY <1>12, <1>14, <1>15, <1>17, <1>18, <2>1
  <2>4. g'.lit = g.lit /\ g'.pos[MouseLayer] = new
    BY <1>6, <1>7, <1>13, <1>14
  <2>5. /\ active_layer_' # 0 => Has(g'.stack, active_layer_')
        /\ drag_layer_id_' # 0 => Has(g'.stack, drag_layer_id_')
    BY <1>14, <1>16, <2>1, <2>2 DEF LayersIInv
  <2>6. OnlyActiveLit' /\ CursorFollowsMouse' /\ DragNeedsButton'
    BY <2>1, <2>4 DEF LayersIInv, OnlyActiveLit, CursorFollowsMouse, DragNeedsButton
  <2> QED  BY <1>1, <1>4, <2>1, <2>3, <2>5, <2>6, ToplevelIs DEF LayersIInv

\* A layer a press activates is in the stack.
LEMMA PressedIs ==
  ASSUME NEW s \in States, NEW p
  PROVE  Pressed(s, p) \in Toplevel \cup {0} /\ (Pressed(s, p) # 0 => Has(s.stack, Pressed(s, p)))
<1> DEFINE hits == {h \in 1..Len(s.stack) : s.stack[h] # MouseLayer /\ Inside(p, WindowArea(s, s.stack[h]))}
           top == CHOOSE h \in hits : \A k \in hits : k <= h
           hit == FindLayerByPosition(s, p, MouseLayer)
<1>1. PICK n \in Nat : n = Len(s.stack)
  BY StateIs
<1>2. CASE hits = {}
  <2>1. hit = 0
    BY <1>2 DEF FindLayerByPosition
  <2> QED  BY <2>1, ToplevelIs DEF Pressed
<1>3. CASE hits # {}
  <2>1. hits \subseteq 1..n
    BY <1>1
  <2>2. \E h \in hits : \A k \in hits : k <= h
    <3> HIDE DEF hits
    <3> QED  BY <1>3, <2>1, MaxOf
  <2>3. top \in hits
    BY <2>2
  <2>4. hit = s.stack[top]
    BY <1>3 DEF FindLayerByPosition
  <2>5. Has(s.stack, hit)
    BY <2>3, <2>4 DEF Has
  <2> QED  BY <2>5, ToplevelIs DEF Pressed
<1> QED  BY <1>2, <1>3

LEMMA MoveCursorIs ==
  ASSUME position_ \in Pixels, NEW d \in Displacements
  PROVE  MoveCursor(d) \in Pixels
<1>1. ScreenSize \in (Nat \ {0}) \X (Nat \ {0}) /\ d \in Int \X Int
  BY LayersAssumption
<1>2. position_ \in Int \X Int
  BY ScreenIs DEF Points
<1> QED  BY <1>1, <1>2 DEF MoveCursor, Pixels, ElementMax, ElementMin, Plus, Minus, Lesser, Greater

LEMMA StartTerminalIInv ==
  ASSUME LayersIInv, NEW junk \in JunkRects, StartTerminal(junk)
  PROVE  LayersIInv' /\ \A a \in Layers : a # Terminal => g'.pos[a] = g.pos[a]
<1>1. StartPos[Terminal] \in Points /\ junk \in Rects /\ mouse_layer_ = MouseLayer
  BY LayersAssumption, JunkIs, ToplevelIs DEF Points, LayersIInv, StartTerminal
<1>2. ~Has(g.stack, Terminal) /\ Has(g.stack, MouseLayer)
  BY HasIsInStack DEF LayersIInv, StartTerminal
<1>3. g \in States /\ Stacked(g) /\ Terminal \in Layers /\ Terminal # Background /\ Terminal # 0
  BY ToplevelIs DEF LayersIInv
<1>4. PICK late \in BOOLEAN : late = ~mouse_moved
  OBVIOUS
<1>5. Right(g, late)
  BY <1>4 DEF LayersIInv
<1>6. PICK new \in Points : new = StartPos[Terminal]
  BY <1>1
<1>7. PICK r : r = Move(g, Terminal, new, junk)
  OBVIOUS
<1>8. Moved(r, g, Terminal, new) /\ Right(r, late)
  BY <1>1, <1>2, <1>3, <1>5, <1>7, MoveHidden, Zenon
<1>9. Stacked(r)
  BY <1>3, <1>8, MovedStacked
<1>10. r \in States /\ r.stack = g.stack /\ r.lit = g.lit
  BY <1>8 DEF Moved
<1>11. \A a \in Layers : a # Terminal => r.pos[a] = g.pos[a]
  BY <1>8 DEF Moved
<1>12. r.lit = {active_layer_} \ {0}
  BY <1>10 DEF LayersIInv, OnlyActiveLit
<1>13. active_layer_ \in Toplevel \cup {0} /\ (active_layer_ # 0 => Has(r.stack, active_layer_))
  BY <1>10 DEF LayersIInv
<1>14. PICK v : v = Activate(r, active_layer_, MouseLayer, Terminal, junk)
  OBVIOUS
<1>15. Terminal \in Toplevel \cup {0}
  BY ToplevelIs
<1>16. Has(r.stack, MouseLayer)
  BY <1>2, <1>10
<1>a. Activated(v, r, active_layer_, Terminal) /\ Right(v, late)
  BY <1>1, <1>3, <1>8, <1>9, <1>10, <1>12, <1>13, <1>14, <1>15, <1>16, ActivateIs
<1>17. /\ v \in States /\ Stacked(v) /\ Right(v, late)
       /\ v.pos = r.pos /\ v.lit = {Terminal} \ {0}
       /\ Has(v.stack, MouseLayer) /\ Has(v.stack, Terminal)
       /\ \A a : Has(r.stack, a) => Has(v.stack, a)
  BY <1>3, <1>a DEF Activated
<1>18. g' = v
  BY <1>1, <1>6, <1>7, <1>14 DEF StartTerminal
<1>19. /\ active_layer_' = Terminal /\ mouse_layer_' = mouse_layer_ /\ position_' = position_
       /\ drag_layer_id_' = drag_layer_id_ /\ previous_left' = previous_left /\ mouse_moved' = mouse_moved
  BY DEF StartTerminal, mouseVars
<1>20. \A a \in Layers : a # Terminal => g'.pos[a] = g.pos[a]
  BY <1>11, <1>17, <1>18
<1>21. CursorFollowsMouse'
  BY <1>19, <1>20, ToplevelIs DEF LayersIInv, CursorFollowsMouse
<1>22. DragNeedsButton' /\ OnlyActiveLit'
  BY <1>17, <1>18, <1>19 DEF LayersIInv, DragNeedsButton, OnlyActiveLit
<1>23. Right(g', ~mouse_moved')
  BY <1>4, <1>17, <1>18, <1>19
<1>24. g' \in States /\ Stacked(g') /\ Has(g'.stack, MouseLayer) /\ Has(g'.stack, active_layer_')
  BY <1>17, <1>18, <1>19
<1>25. drag_layer_id_' # 0 => Has(g'.stack, drag_layer_id_')
  BY <1>10, <1>17, <1>18, <1>19 DEF LayersIInv
<1>26. /\ active_layer_' \in Toplevel \cup {0} /\ mouse_layer_' \in {0, MouseLayer} /\ mouse_layer_' # 0
       /\ position_' \in Pixels /\ drag_layer_id_' \in Draggable \cup {0}
       /\ previous_left' \in BOOLEAN /\ mouse_moved' \in BOOLEAN
  BY <1>1, <1>15, <1>19, ToplevelIs DEF LayersIInv
<1> QED  BY <1>20, <1>21, <1>22, <1>23, <1>24, <1>25, <1>26 DEF LayersIInv

\* Mouse::OnInterrupt: what it leaves, and what it does to the windows.
Interrupted(left) ==
  /\ g' \in States /\ Stacked(g') /\ Right(g', FALSE)
  /\ Has(g'.stack, MouseLayer) /\ g'.pos[MouseLayer] = position_'
  /\ g'.lit = {active_layer_'} \ {0}
  /\ active_layer_' \in Toplevel \cup {0} /\ (active_layer_' # 0 => Has(g'.stack, active_layer_'))
  /\ drag_layer_id_' \in Toplevel \cup {0} /\ (drag_layer_id_' # 0 => Has(g'.stack, drag_layer_id_'))
  /\ (drag_layer_id_' # 0 => left)
  /\ \A id \in Toplevel :
       IF id = drag_layer_id_ /\ previous_left /\ left
       THEN Minus(g'.pos[id], position_') = Minus(g.pos[id], position_)
       ELSE g'.pos[id] = g.pos[id]
  /\ (~previous_left /\ left /\ active_layer_' \notin {0, active_layer_}) =>
       g'.stack[Len(g'.stack) - 1] = active_layer_'

LEMMA OnInterruptIs ==
  ASSUME LayersIInv, NEW left \in BOOLEAN, NEW d \in Displacements, OnInterrupt(left, d)
  PROVE  Interrupted(left) /\ position_' \in Pixels
<1>1. PICK new \in Pixels : new = MoveCursor(d)
  BY MoveCursorIs DEF LayersIInv
<1>2. new \in Points /\ Screen \in Rects /\ position_ \in Points
  BY ScreenIs DEF LayersIInv
<1>3. mouse_layer_ = MouseLayer /\ Has(g.stack, MouseLayer) /\ position_' = new
  BY <1>1 DEF LayersIInv, OnInterrupt
<1>4. g \in States /\ Stacked(g) /\ MouseLayer \in Layers /\ MouseLayer # Background
  BY ToplevelIs DEF LayersIInv
<1>5. PICK late \in BOOLEAN : late = ~mouse_moved
  OBVIOUS
<1>6. Right(g, late)
  BY <1>5 DEF LayersIInv
<1>7. PICK m : m = Move(g, MouseLayer, new, Screen)
  OBVIOUS
<1>8. Moved(m, g, MouseLayer, new) /\ Right(m, FALSE)
  BY <1>2, <1>3, <1>4, <1>6, <1>7, MoveIs, Zenon
<1>9. Stacked(m)
  BY <1>4, <1>8, MovedStacked
<1>10. /\ m \in States /\ m.stack = g.stack /\ m.lit = g.lit /\ m.pos[MouseLayer] = new
       /\ \A a \in Toplevel : m.pos[a] = g.pos[a]
  BY <1>8, ToplevelIs DEF Moved
<1>11. PICK hit : hit = Pressed(m, new)
  OBVIOUS
<1>12. hit \in Toplevel \cup {0} /\ (hit # 0 => Has(m.stack, hit))
  BY <1>10, <1>11, PressedIs
<1>13. /\ active_layer_ \in Toplevel \cup {0} /\ (active_layer_ # 0 => Has(m.stack, active_layer_))
       /\ drag_layer_id_ \in Toplevel \cup {0} /\ (drag_layer_id_ # 0 => Has(m.stack, drag_layer_id_))
       /\ (drag_layer_id_ # 0 => previous_left) /\ m.lit = {active_layer_} \ {0}
       /\ Has(m.stack, MouseLayer) /\ previous_left \in BOOLEAN
  BY <1>3, <1>10, ToplevelIs DEF LayersIInv, OnlyActiveLit, DragNeedsButton
<1>14. PICK w : w = g'
  OBVIOUS
<1>15. CASE ~previous_left /\ left
  <2>1. /\ w = Activate(m, active_layer_, MouseLayer, hit, Screen) /\ active_layer_' = hit
        /\ drag_layer_id_' = IF hit # 0 THEN hit ELSE drag_layer_id_
    BY <1>1, <1>3, <1>7, <1>11, <1>14, <1>15 DEF OnInterrupt, DragAfter
  <2>2. Activated(w, m, active_layer_, hit) /\ Right(w, FALSE)
    <3>1. CASE active_layer_ = 0 /\ hit = 0
      <4>1. w = m
        BY <2>1, <3>1 DEF Activate
      <4> QED  BY <1>8, <1>9, <1>10, <1>12, <1>13, <3>1, <4>1 DEF Activated
    <3>2. CASE active_layer_ # 0 \/ hit # 0
      BY <1>2, <1>8, <1>9, <1>10, <1>12, <1>13, <2>1, <3>2, ActivateIs
    <3> QED  BY <3>1, <3>2
  <2>3. \A id \in Toplevel : w.pos[id] = g.pos[id]
    BY <1>10, <2>2 DEF Activated
  <2>4. w.pos[MouseLayer] = new
    BY <1>10, <2>2 DEF Activated
  <2>5. /\ w \in States /\ Stacked(w) /\ w.lit = {hit} \ {0} /\ Has(w.stack, MouseLayer)
        /\ (hit # 0 => Has(w.stack, hit)) /\ \A a : Has(m.stack, a) => Has(w.stack, a)
    BY <2>2 DEF Activated
  <2>6. hit \notin {0, active_layer_} => w.stack[Len(w.stack) - 1] = hit
    BY <1>12, <2>2 DEF Activated
  <2>7. /\ drag_layer_id_' \in Toplevel \cup {0} /\ (drag_layer_id_' # 0 => Has(w.stack, drag_layer_id_'))
        /\ (drag_layer_id_' # 0 => left)
    BY <1>12, <1>13, <1>15, <2>1, <2>5
  <2> QED  BY <1>3, <1>12, <1>14, <1>15, <2>1, <2>2, <2>3, <2>4, <2>5, <2>6, <2>7 DEF Interrupted
<1>16. CASE ~(~previous_left /\ left)
  <2> DEFINE drag == previous_left /\ left /\ drag_layer_id_ > 0
  <2>1. active_layer_' = active_layer_
    BY <1>16 DEF OnInterrupt
  <2>2. /\ drag_layer_id_' \in {0, drag_layer_id_} /\ (drag_layer_id_' # 0 => left)
    <3>1. drag_layer_id_' = IF previous_left /\ ~left THEN 0 ELSE drag_layer_id_
      BY <1>16 DEF OnInterrupt, DragAfter
    <3>2. CASE previous_left /\ ~left
      BY <3>1, <3>2
    <3>3. CASE ~(previous_left /\ ~left)
      BY <1>13, <3>1, <3>3
    <3> QED  BY <3>2, <3>3
  <2>3. CASE drag
    <3>1. drag_layer_id_ \in Toplevel /\ drag_layer_id_ \in Layers /\ drag_layer_id_ # Background
          /\ drag_layer_id_ # MouseLayer /\ drag_layer_id_ # 0
      BY <1>13, <2>3, ToplevelIs
    <3>2. PICK to : to = Plus(m.pos[drag_layer_id_], Minus(new, position_))
      OBVIOUS
    <3>3. m.pos[drag_layer_id_] = g.pos[drag_layer_id_] /\ g.pos[drag_layer_id_] \in Points
      BY <1>4, <1>10, <3>1, StateIs
    <3>4. to \in Points /\ Minus(to, new) = Minus(g.pos[drag_layer_id_], position_)
      <4>1. PICK a \in Points : a = g.pos[drag_layer_id_]
        BY <3>3
      <4>2. to = Plus(a, Minus(new, position_))
        BY <3>2, <3>3, <4>1
      <4>3. to \in Points /\ Minus(to, new) = Minus(a, position_)
        BY <1>2, <4>2 DEF Points, Plus, Minus
      <4> QED  BY <4>1, <4>3
    <3>5. w = Move(m, drag_layer_id_, to, Screen)
      BY <1>1, <1>7, <1>14, <1>16, <2>3, <3>2 DEF OnInterrupt, MoveRelative, DragDistance
    <3>6. Has(m.stack, drag_layer_id_)
      BY <1>13, <3>1
    <3>7. Moved(w, m, drag_layer_id_, to) /\ Right(w, FALSE)
      <4>1. PICK lt \in BOOLEAN : lt = FALSE
        OBVIOUS
      <4>2. Right(m, lt) /\ (lt => drag_layer_id_ = MouseLayer)
        BY <1>8, <4>1
      <4> QED  BY <1>2, <1>9, <1>10, <3>1, <3>4, <3>5, <3>6, <4>2, MoveIs, Zenon
    <3>8. Stacked(w)
      BY <1>9, <1>10, <3>1, <3>7, MovedStacked
    <3>9. /\ w \in States /\ w.stack = m.stack /\ w.lit = m.lit /\ w.pos[MouseLayer] = new
          /\ w.pos[drag_layer_id_] = to
          /\ \A id \in Toplevel : id # drag_layer_id_ => w.pos[id] = g.pos[id]
      BY <1>4, <1>10, <3>1, <3>7, ToplevelIs DEF Moved
    <3>10. \A id \in Toplevel :
             IF id = drag_layer_id_ /\ previous_left /\ left
             THEN Minus(w.pos[id], new) = Minus(g.pos[id], position_)
             ELSE w.pos[id] = g.pos[id]
      BY <2>3, <3>4, <3>9
    <3>11. /\ drag_layer_id_' \in Toplevel \cup {0} /\ (drag_layer_id_' # 0 => left)
           /\ (drag_layer_id_' # 0 => Has(w.stack, drag_layer_id_'))
      BY <1>13, <2>2, <3>9
    <3> QED  BY <1>3, <1>13, <1>14, <1>16, <2>1, <3>7, <3>8, <3>9, <3>10, <3>11 DEF Interrupted
  <2>4. CASE ~drag
    <3>1. w = m
      BY <1>1, <1>7, <1>14, <1>16, <2>4 DEF OnInterrupt
    <3>2. \A id \in Toplevel : ~(id = drag_layer_id_ /\ previous_left /\ left)
      BY <2>4, ToplevelIs
    <3> QED  BY <1>3, <1>8, <1>9, <1>10, <1>13, <1>14, <1>16, <2>1, <2>2, <3>1, <3>2 DEF Interrupted
  <2> QED  BY <2>3, <2>4
<1> QED  BY <1>3, <1>15, <1>16

LEMMA OnInterruptIInv ==
  ASSUME LayersIInv, NEW left \in BOOLEAN, NEW d \in Displacements, OnInterrupt(left, d)
  PROVE  LayersIInv'
<1>1. Interrupted(left) /\ position_' \in Pixels
  BY OnInterruptIs
<1>2. /\ mouse_moved' = TRUE /\ mouse_layer_' = MouseLayer /\ mouse_layer_' # 0 /\ previous_left' = left
  BY ToplevelIs DEF OnInterrupt, LayersIInv
<1>3. OnlyActiveLit' /\ CursorFollowsMouse' /\ DragNeedsButton'
  BY <1>1, <1>2 DEF Interrupted, OnlyActiveLit, CursorFollowsMouse, DragNeedsButton
<1>4. Right(g', ~mouse_moved')
  BY <1>1, <1>2, RightIsRight DEF Interrupted
<1>5. /\ g' \in States /\ Stacked(g') /\ Has(g'.stack, MouseLayer)
      /\ active_layer_' \in Toplevel \cup {0} /\ (active_layer_' # 0 => Has(g'.stack, active_layer_'))
      /\ drag_layer_id_' \in Draggable \cup {0} /\ (drag_layer_id_' # 0 => Has(g'.stack, drag_layer_id_'))
  BY <1>1, ToplevelIs DEF Interrupted
<1>6. /\ mouse_layer_' \in {0, MouseLayer} /\ previous_left' \in BOOLEAN /\ mouse_moved' \in BOOLEAN
  BY <1>2
<1> QED  BY <1>1, <1>2, <1>3, <1>4, <1>5, <1>6, Zenon DEF LayersIInv

\* A redraw changes neither the layout nor what is right.
LEMMA RedrawIInv ==
  ASSUME LayersIInv, NEW id \in Layers, NEW area \in Rects, g' = Draw(g, id, area, Screen),
         UNCHANGED <<active_layer_, mouse_layer_, mouseVars>>
  PROVE  LayersIInv' /\ g'.pos = g.pos
<1>1. PICK late \in BOOLEAN : late = ~mouse_moved
  OBVIOUS
<1>2. Right(g, late) /\ WellStacked(g) /\ g \in States /\ Screen \in Rects
  BY <1>1, ScreenIs DEF LayersIInv, Stacked
<1>3. PICK w : w = g'
  OBVIOUS
<1>4. w \in States /\ SameLayout(w, g) /\ Right(w, late)
  BY <1>2, <1>3, DrawKeeps
<1>5. Stacked(w)
  BY <1>4, SameStacked DEF LayersIInv
<1>6. w.stack = g.stack /\ w.pos = g.pos /\ w.lit = g.lit
  BY <1>4 DEF SameLayout
<1>7. /\ active_layer_' = active_layer_ /\ mouse_layer_' = mouse_layer_ /\ position_' = position_
      /\ drag_layer_id_' = drag_layer_id_ /\ previous_left' = previous_left /\ mouse_moved' = mouse_moved
  BY DEF mouseVars
<1>8. Right(g', ~mouse_moved')
  BY <1>1, <1>3, <1>4, <1>7
<1> QED  BY <1>3, <1>4, <1>5, <1>6, <1>7, <1>8, Zenon
         DEF LayersIInv, OnlyActiveLit, CursorFollowsMouse, DragNeedsButton

-----------------------------------------------------------------------------
(* The theorems *)

LEMMA AreasAreRects == WholeWindow \in Rects /\ DrawAreas \subseteq Rects
BY LayersAssumption DEF WholeWindow, Rect, Rects, Points

LEMMA StepLayersIInv == LayersIInv /\ [LayersNext]_layersVars => LayersIInv'
<1> SUFFICES ASSUME LayersIInv, [LayersNext]_layersVars PROVE LayersIInv'
  OBVIOUS
<1>1. ASSUME NEW junk \in JunkRects, InitializeMouse(junk) PROVE LayersIInv'
  BY <1>1, InitializeMouseIInv
<1>2. ASSUME NEW junk \in JunkRects, StartTerminal(junk) PROVE LayersIInv'
  BY <1>2, StartTerminalIInv
<1>3. ASSUME NEW left \in BOOLEAN, NEW d \in Displacements, OnInterrupt(left, d) PROVE LayersIInv'
  BY <1>3, OnInterruptIInv
<1>4. ASSUME NEW id \in {ConsoleLayer, MainWindow, TextWindow}, Redraw(id) PROVE LayersIInv'
  <2>1. id \in Layers
    BY DEF Layers, ConsoleLayer, MainWindow, TextWindow
  <2> QED  BY <1>4, <2>1, AreasAreRects, RedrawIInv DEF Redraw
<1>5. ASSUME NEW area \in DrawAreas, RedrawArea(area) PROVE LayersIInv'
  BY <1>5, AreasAreRects, ToplevelIs, RedrawIInv DEF RedrawArea
<1>6. CASE UNCHANGED layersVars
  <2>1. /\ g' = g /\ active_layer_' = active_layer_ /\ mouse_layer_' = mouse_layer_
        /\ position_' = position_ /\ drag_layer_id_' = drag_layer_id_
        /\ previous_left' = previous_left /\ mouse_moved' = mouse_moved
    BY <1>6 DEF layersVars, mouseVars
  <2> QED  BY <2>1, Zenon DEF LayersIInv, OnlyActiveLit, CursorFollowsMouse, DragNeedsButton
<1> QED  BY <1>1, <1>2, <1>3, <1>4, <1>5, <1>6 DEF LayersNext

LEMMA AlwaysLayersIInv == LayersSpec => []LayersIInv
<1>1. LayersInit => LayersIInv
  BY InitLayersIInv
<1>2. LayersIInv /\ [LayersNext]_layersVars => LayersIInv'
  BY StepLayersIInv
<1> QED  BY <1>1, <1>2, PTL DEF LayersSpec

\* However the windows are pressed, dragged, activated and redrawn, the stack
\* keeps every visible layer exactly once between the background and the
\* mouse, only the active window's title is lit, the cursor is where the mouse
\* is and a drag ends with the button (LayerManager, ActiveLayer, Mouse), for
\* every screen, window size and mouse movement.
THEOREM WindowsAgree == LayersSpec => []WindowsInv
<1>1. LayersIInv => WindowsInv
  BY InvariantSuffices
<1> QED  BY <1>1, AlwaysLayersIInv, PTL

\* Each pixel of the frame buffer and of the back buffer shows the topmost
\* window that covers it, as it looks now, although Draw(id), Draw(area), Move
\* and Activate redraw only parts of the screen (LayerManager::Draw,
\* Window::DrawTo, FrameBuffer::Copy), for every screen, window size, shape of
\* the cursor and mouse movement.
THEOREM ScreenIsTheStack == LayersSpec => []ScreenShowsStack
<1>1. LayersIInv => ScreenShowsStack
  BY InvariantSuffices
<1> QED  BY <1>1, AlwaysLayersIInv, PTL

\* A press that makes another window the active one raises that one directly
\* below the mouse; a press on the active window itself raises nothing
\* (Mouse::OnInterrupt, ActiveLayer::Activate and its early return).
THEOREM PressRaisesWindow == LayersSpec => PressRaises
<1> DEFINE A == (previous_left' /\ ~previous_left /\ active_layer_' \notin {0, active_layer_}) =>
                  g'.stack[Len(g'.stack) - 1] = active_layer_'
<1>1. LayersIInv /\ [LayersNext]_layersVars => [A]_layersVars
  <2> SUFFICES ASSUME LayersIInv, LayersNext PROVE A
    OBVIOUS
  <2>1. ASSUME NEW left \in BOOLEAN, NEW d \in Displacements, OnInterrupt(left, d) PROVE A
    <3>1. Interrupted(left) /\ previous_left' = left
      BY <2>1, OnInterruptIs DEF OnInterrupt
    <3> QED  BY <3>1 DEF Interrupted
  <2>2. (\A left \in BOOLEAN, d \in Displacements : ~OnInterrupt(left, d)) => previous_left' = previous_left
    BY DEF LayersNext, InitializeMouse, StartTerminal, Redraw, RedrawArea, mouseVars
  <2> QED  BY <2>1, <2>2
<1> QED  BY <1>1, AlwaysLayersIInv, PTL DEF LayersSpec, PressRaises

\* A dragged window keeps its offset to the cursor, also where the cursor stops
\* at the edge of the screen, and no other window moves (Mouse::OnInterrupt
\* moves by what the cursor did, LayerManager::MoveRelative).
THEOREM DragKeepsTheOffset == LayersSpec => DragKeepsOffset
<1> DEFINE A == mouse_layer_ # 0 =>
                  \A id \in Toplevel \cap ToSet(g.stack) :
                    IF id = drag_layer_id_ /\ previous_left /\ previous_left'
                    THEN Minus(g'.pos[id], position_') = Minus(g.pos[id], position_)
                    ELSE g'.pos[id] = g.pos[id]
<1>1. LayersIInv /\ [LayersNext]_layersVars => [A]_layersVars
  <2> SUFFICES ASSUME LayersIInv, LayersNext, mouse_layer_ # 0, NEW id \in Toplevel \cap ToSet(g.stack)
      PROVE  IF id = drag_layer_id_ /\ previous_left /\ previous_left'
             THEN Minus(g'.pos[id], position_') = Minus(g.pos[id], position_)
             ELSE g'.pos[id] = g.pos[id]
    OBVIOUS
  <2>1. ASSUME NEW left \in BOOLEAN, NEW d \in Displacements, OnInterrupt(left, d)
        PROVE  IF id = drag_layer_id_ /\ previous_left /\ previous_left'
               THEN Minus(g'.pos[id], position_') = Minus(g.pos[id], position_)
               ELSE g'.pos[id] = g.pos[id]
    <3>1. Interrupted(left) /\ previous_left' = left
      BY <2>1, OnInterruptIs DEF OnInterrupt
    <3> QED  BY <3>1 DEF Interrupted
  <2>2. ASSUME g'.pos[id] = g.pos[id], position_' = position_
        PROVE  IF id = drag_layer_id_ /\ previous_left /\ previous_left'
               THEN Minus(g'.pos[id], position_') = Minus(g.pos[id], position_)
               ELSE g'.pos[id] = g.pos[id]
    BY <2>2
  <2>3. \A junk : ~InitializeMouse(junk)
    BY DEF InitializeMouse
  <2>4. ASSUME NEW junk \in JunkRects, StartTerminal(junk)
        PROVE  g'.pos[id] = g.pos[id] /\ position_' = position_
    <3>1. id # Terminal /\ id \in Layers
      <4>1. Has(g.stack, id)
        <5>1. PICK ss \in Seq(Layers) : ss = g.stack
          BY StateIs DEF LayersIInv
        <5>2. PICK h \in DOMAIN ss : ss[h] = id
          BY <5>1 DEF ToSet
        <5>3. h \in 1..Len(ss)
          OBVIOUS
        <5> QED  BY <5>1, <5>2, <5>3 DEF Has
      <4>2. ~Has(g.stack, Terminal)
        BY <2>4, HasIsInStack DEF StartTerminal
      <4> QED  BY <4>1, <4>2, ToplevelIs
    <3> QED  BY <2>4, <3>1, StartTerminalIInv DEF StartTerminal, mouseVars
  <2>5. ASSUME NEW k \in {ConsoleLayer, MainWindow, TextWindow}, Redraw(k)
        PROVE  g'.pos[id] = g.pos[id] /\ position_' = position_
    <3>1. k \in Layers
      BY DEF Layers, ConsoleLayer, MainWindow, TextWindow
    <3>2. g'.pos = g.pos
      BY <2>5, <3>1, AreasAreRects, RedrawIInv DEF Redraw
    <3> QED  BY <2>5, <3>2 DEF Redraw, mouseVars
  <2>6. ASSUME NEW area \in DrawAreas, RedrawArea(area)
        PROVE  g'.pos[id] = g.pos[id] /\ position_' = position_
    <3>1. g'.pos = g.pos
      BY <2>6, AreasAreRects, ToplevelIs, RedrawIInv DEF RedrawArea
    <3> QED  BY <2>6, <3>1 DEF RedrawArea, mouseVars
  <2> QED  BY <2>1, <2>2, <2>3, <2>4, <2>5, <2>6 DEF LayersNext
<1> QED  BY <1>1, AlwaysLayersIInv, PTL DEF LayersSpec, DragKeepsOffset

-----------------------------------------------------------------------------
(* Windows and the operators that draw in them *)

Windows == [x : 0..kColumns, y : 0..(kRows - 1), cells : [Cells -> SUBSET Marks]]

LEMMA BoundsAre ==
  /\ kRows \in Nat /\ kRows > 0 /\ kColumns \in Nat /\ kColumns > 2
  /\ kLineMax \in Nat /\ kColumns < kLineMax /\ kHistory \in Nat /\ kHistory > 0
  /\ MaxKeys \in Nat /\ MaxPending \in Nat /\ MaxPending > 0
BY TerminalAssumption

LEMMA CellIs ==
  /\ \A x \in 0..kColumns, y \in 0..(kRows - 1) :
       <<x, y>> \in Cells /\ <<x, y>>[1] = x /\ <<x, y>>[2] = y
  /\ \A c \in Cells : /\ c[1] \in 0..kColumns /\ c[2] \in 0..(kRows - 1)
                      /\ c = <<c[1], c[2]>>
BY DEF Cells

LEMMA WindowIs ==
  ASSUME NEW w \in Windows
  PROVE  /\ w.x \in 0..kColumns /\ w.y \in 0..(kRows - 1) /\ w.cells \in [Cells -> SUBSET Marks]
         /\ <<w.x, w.y>> \in Cells
BY CellIs DEF Windows

SameCursor(r, w) == r \in Windows /\ r.x = w.x /\ r.y = w.y

\* r and w differ at most in the cell of the cursor.
CursorOnly(r, w) ==
  SameCursor(r, w) /\ \A c \in Cells : c # <<w.x, w.y>> => r.cells[c] = w.cells[c]

LEMMA DrawCursorIs ==
  ASSUME NEW w \in Windows, NEW v, NEW r, r = DrawCursor(w, v)
  PROVE  CursorOnly(r, w) /\ r.cells[<<w.x, w.y>>] = IF v THEN {"cursor"} ELSE {}
<1> DEFINE cur == <<w.x, w.y>>
           mark == IF v THEN {"cursor"} ELSE {}
           new == [w.cells EXCEPT ![cur] = mark]
<1>1. w.x \in 0..kColumns /\ w.y \in 0..(kRows - 1) /\ w.cells \in [Cells -> SUBSET Marks] /\ cur \in Cells
  BY WindowIs
<1>2. r = [w EXCEPT !.cells = new]
  BY DEF DrawCursor
<1>3. mark \in SUBSET Marks
  BY DEF Marks
<1>4. new \in [Cells -> SUBSET Marks] /\ new[cur] = mark
      /\ \A c \in Cells : c # cur => new[c] = w.cells[c]
  <2> HIDE DEF cur, mark
  <2> QED  BY <1>1, <1>3
<1> HIDE DEF new
<1>5. r \in Windows /\ r.x = w.x /\ r.y = w.y /\ r.cells = new
  BY <1>2, <1>4 DEF Windows
<1> QED  BY <1>4, <1>5 DEF SameCursor, CursorOnly

LEMMA DrawCursorKeeps ==
  ASSUME NEW w \in Windows, NEW v, NEW r, r = DrawCursor(w, v)
  PROVE  CursorOnly(r, w)
BY DrawCursorIs, Zenon

LEMMA DrawCursorMark ==
  ASSUME NEW w \in Windows, NEW v, NEW r, r = DrawCursor(w, v)
  PROVE  (v => r.cells[<<w.x, w.y>>] = {"cursor"}) /\ (~v => r.cells[<<w.x, w.y>>] = {})
<1>1. r.cells[<<w.x, w.y>>] = IF v THEN {"cursor"} ELSE {}
  BY DrawCursorIs, Zenon
<1>2. CASE v
  BY <1>1, <1>2
<1>3. CASE ~v
  BY <1>1, <1>3
<1> QED  BY <1>2, <1>3

Filled(r, w, area) ==
  SameCursor(r, w) /\ \A c \in Cells : r.cells[c] = IF c \in area THEN {} ELSE w.cells[c]

LEMMA FillRectangleIs ==
  ASSUME NEW w \in Windows, NEW area, NEW r, r = FillRectangle(w, area)
  PROVE  Filled(r, w, area)
<1> DEFINE new == [c \in Cells |-> IF c \in area THEN {} ELSE w.cells[c]]
<1>1. w.cells \in [Cells -> SUBSET Marks]
  BY WindowIs
<1>2. r = [w EXCEPT !.cells = new]
  BY DEF FillRectangle
<1>3. new \in [Cells -> SUBSET Marks] /\ \A c \in Cells : new[c] = IF c \in area THEN {} ELSE w.cells[c]
  BY <1>1
<1> HIDE DEF new
<1> QED  BY <1>2, <1>3 DEF Windows, SameCursor, Filled

LEMMA WriteAsciiIs ==
  ASSUME NEW w \in Windows, NEW a \in Drawable, NEW r, r = WriteAscii(w, w.x, w.y, a)
  PROVE  /\ SameCursor(r, w)
         /\ r.cells[<<w.x, w.y>>] = w.cells[<<w.x, w.y>>] \cup Glyph(a)
         /\ \A c \in Cells : c # <<w.x, w.y>> => r.cells[c] = w.cells[c]
<1>1. CASE a = Space
  BY <1>1, WindowIs DEF WriteAscii, SameCursor, Glyph
<1>2. CASE a # Space
  <2> DEFINE cur == <<w.x, w.y>>
             new == [w.cells EXCEPT ![cur] = @ \cup {a}]
  <2>1. w.cells \in [Cells -> SUBSET Marks] /\ cur \in Cells /\ a \in Marks
    BY WindowIs DEF Marks
  <2>2. r = [w EXCEPT !.cells = new]
    BY <1>2 DEF WriteAscii
  <2>3. new \in [Cells -> SUBSET Marks] /\ new[cur] = w.cells[cur] \cup {a}
        /\ \A c \in Cells : c # cur => new[c] = w.cells[c]
    <3> HIDE DEF cur
    <3> QED  BY <2>1
  <2> HIDE DEF new
  <2>4. r \in Windows /\ r.x = w.x /\ r.y = w.y /\ r.cells = new
    BY <2>2, <2>3 DEF Windows
  <2> QED  BY <1>2, <2>3, <2>4 DEF SameCursor, Glyph
<1> QED  BY <1>1, <1>2

\* Windows with the same cursor and the same cells are the same.
LEMMA SameWindow ==
  ASSUME NEW r \in Windows, NEW w \in Windows, r.x = w.x, r.y = w.y,
         \A c \in Cells : r.cells[c] = w.cells[c]
  PROVE  r = w
<1>1. PICK f \in [Cells -> SUBSET Marks] : f = r.cells
  BY WindowIs
<1>2. PICK h \in [Cells -> SUBSET Marks] : h = w.cells
  BY WindowIs
<1>3. \A c \in Cells : f[c] = h[c]
  BY <1>1, <1>2
<1>4. f = h
  BY <1>3
<1>5. /\ r = [x |-> r.x, y |-> r.y, cells |-> r.cells]
      /\ w = [x |-> w.x, y |-> w.y, cells |-> w.cells]
  BY DEF Windows
<1> QED  BY <1>1, <1>2, <1>4, <1>5

-----------------------------------------------------------------------------
(* Printing *)

\* The cells a window keeps free for what is printed next.
Free(w, c) == c[1] = kColumns \/ c[2] > w.y \/ (c[2] = w.y /\ c[1] >= w.x)

\* No cursor is drawn and the free cells are empty.
Clean(w) ==
  /\ w \in Windows
  /\ \A c \in Cells : "cursor" \notin w.cells[c] /\ (Free(w, c) => w.cells[c] = {})
Printing == {w \in Windows : Clean(w) /\ w.x < kColumns}
Printed == Drawable \cup {NewLine}

\* Scroll1 at the last row.
LEMMA Scroll1Is ==
  ASSUME NEW w \in Windows, w.y = kRows - 1, NEW r, r = Scroll1(w)
  PROVE  /\ SameCursor(r, w)
         /\ \A c \in Cells : r.cells[c] =
              IF c[1] = kColumns THEN w.cells[c]
              ELSE IF c[2] = kRows - 1 THEN {} ELSE w.cells[<<c[1], c[2] + 1>>]
<1> DEFINE up == [c \in Cells |-> IF c \in Text /\ c[2] < kRows - 1
                                  THEN w.cells[<<c[1], c[2] + 1>>] ELSE w.cells[c]]
           m == [w EXCEPT !.cells = up]
<1>1. w.cells \in [Cells -> SUBSET Marks]
  BY WindowIs
<1>2. ASSUME NEW c \in Cells, c[2] < kRows - 1 PROVE <<c[1], c[2] + 1>> \in Cells
  BY <1>2, BoundsAre DEF Cells
<1>3. up \in [Cells -> SUBSET Marks]
  BY <1>1, <1>2
<1>4. \A c \in Cells : up[c] = IF c \in Text /\ c[2] < kRows - 1
                               THEN w.cells[<<c[1], c[2] + 1>>] ELSE w.cells[c]
  OBVIOUS
<1> HIDE DEF up
<1>5. m \in Windows /\ m.x = w.x /\ m.y = w.y /\ m.cells = up
  BY <1>3 DEF Windows
<1>6. r = FillRectangle(m, Columns(0, w.y, kColumns))
  BY DEF Scroll1, up
<1> HIDE DEF m
<1>7. SameCursor(r, m) /\ \A c \in Cells : r.cells[c] = IF c \in Columns(0, w.y, kColumns) THEN {} ELSE m.cells[c]
  BY <1>5, <1>6, FillRectangleIs DEF Filled
<1>8. \A c \in Cells : c \in Columns(0, w.y, kColumns) <=> (c[2] = kRows - 1 /\ c[1] # kColumns)
  BY BoundsAre DEF Columns, Cells
<1>9. \A c \in Cells : c \in Text <=> c[1] # kColumns
  BY BoundsAre DEF Text, Cells
<1>10. \A c \in Cells : c[2] < kRows - 1 <=> c[2] # kRows - 1
  BY BoundsAre DEF Cells
<1> QED  BY <1>4, <1>5, <1>7, <1>8, <1>9, <1>10 DEF SameCursor

\* A new line starts in the first column of an empty row.
LEMMA NewlineIs ==
  ASSUME NEW w, Clean(w), NEW r, r = newline(w)
  PROVE  r \in Printing /\ r.x = 0
<1>1. w \in Windows /\ w.x \in 0..kColumns /\ w.y \in 0..(kRows - 1) /\ w.cells \in [Cells -> SUBSET Marks]
  BY WindowIs DEF Clean
<1>2. 0 \in 0..kColumns /\ 0 < kColumns
  BY BoundsAre
<1>3. CASE w.y < kRows - 1
  <2>1. r = [w EXCEPT !.x = 0, !.y = w.y + 1]
    BY <1>3 DEF newline
  <2>2. w.y + 1 \in 0..(kRows - 1)
    BY <1>1, <1>3, BoundsAre
  <2>3. r \in Windows /\ r.x = 0 /\ r.y = w.y + 1 /\ r.cells = w.cells
    BY <1>1, <1>2, <2>1, <2>2 DEF Windows
  <2>4. ASSUME NEW c \in Cells PROVE Free(r, c) => Free(w, c)
    BY <1>1, <2>3, CellIs, BoundsAre DEF Free
  <2>5. Clean(r)
    BY <2>3, <2>4 DEF Clean
  <2> QED  BY <1>2, <2>3, <2>5 DEF Printing
<1>4. CASE ~(w.y < kRows - 1)
  <2> DEFINE m == [w EXCEPT !.x = 0]
  <2>1. r = Scroll1(m)
    BY <1>4 DEF newline
  <2>2. m \in Windows /\ m.x = 0 /\ m.y = w.y /\ m.cells = w.cells /\ m.y = kRows - 1
    BY <1>1, <1>2, <1>4, BoundsAre DEF Windows
  <2> HIDE DEF m
  <2>3. /\ SameCursor(r, m)
        /\ \A c \in Cells : r.cells[c] =
             IF c[1] = kColumns THEN m.cells[c]
             ELSE IF c[2] = kRows - 1 THEN {} ELSE m.cells[<<c[1], c[2] + 1>>]
    BY <2>1, <2>2, Scroll1Is
  <2>4. ASSUME NEW c \in Cells
        PROVE  "cursor" \notin r.cells[c] /\ (Free(r, c) => r.cells[c] = {})
    <3>1. CASE c[1] = kColumns
      BY <2>2, <2>3, <3>1 DEF Clean, Free
    <3>2. CASE c[1] # kColumns /\ c[2] = kRows - 1
      BY <2>3, <3>2
    <3>3. CASE c[1] # kColumns /\ c[2] # kRows - 1
      <4>1. <<c[1], c[2] + 1>> \in Cells
        BY <3>3, BoundsAre DEF Cells
      <4>2. r.cells[c] = w.cells[<<c[1], c[2] + 1>>]
        BY <2>2, <2>3, <3>3
      <4>3. ~Free(r, c)
        BY <2>2, <2>3, <3>3, CellIs, BoundsAre DEF Free, SameCursor
      <4> QED  BY <4>1, <4>2, <4>3 DEF Clean
    <3> QED  BY <3>1, <3>2, <3>3
  <2>5. r \in Windows /\ r.x = 0
    BY <2>2, <2>3 DEF SameCursor
  <2> QED  BY <1>2, <2>4, <2>5 DEF Printing, Clean
<1> QED  BY <1>3, <1>4

\* A glyph at the cursor of a clean window, and the cursor behind it.
LEMMA WriteNextIs ==
  ASSUME NEW w, Clean(w), w.x < kColumns, NEW a \in Drawable, NEW r, r = WriteNext(w, a)
  PROVE  /\ Clean(r) /\ r.x = w.x + 1 /\ r.y = w.y
         /\ r.cells[<<w.x, w.y>>] = Glyph(a)
         /\ \A c \in Cells : c # <<w.x, w.y>> => r.cells[c] = w.cells[c]
<1>1. w \in Windows /\ w.x \in 0..kColumns /\ w.y \in 0..(kRows - 1) /\ <<w.x, w.y>> \in Cells
  BY WindowIs DEF Clean
<1>2. PICK m : m = WriteAscii(w, w.x, w.y, a)
  OBVIOUS
<1>3. /\ SameCursor(m, w) /\ m.cells[<<w.x, w.y>>] = w.cells[<<w.x, w.y>>] \cup Glyph(a)
      /\ \A c \in Cells : c # <<w.x, w.y>> => m.cells[c] = w.cells[c]
  BY <1>1, <1>2, WriteAsciiIs
<1>4. r = [m EXCEPT !.x = m.x + 1]
  BY <1>2 DEF WriteNext
<1>5. w.x + 1 \in 0..kColumns
  BY <1>1, BoundsAre
<1>6. r \in Windows /\ r.x = w.x + 1 /\ r.y = w.y /\ r.cells = m.cells
  BY <1>3, <1>4, <1>5 DEF Windows, SameCursor
<1>7. w.cells[<<w.x, w.y>>] = {}
  <2>1. Free(w, <<w.x, w.y>>)
    BY <1>1 DEF Free
  <2> QED  BY <1>1, <2>1 DEF Clean
<1>8. "cursor" \notin Glyph(a)
  BY TerminalAssumption DEF Glyph
<1>9. ASSUME NEW c \in Cells
      PROVE  "cursor" \notin r.cells[c] /\ (Free(r, c) => r.cells[c] = {})
  <2>1. CASE c = <<w.x, w.y>>
    <3>1. ~Free(r, c)
      BY <1>1, <1>6, <2>1, BoundsAre DEF Free
    <3> QED  BY <1>3, <1>6, <1>7, <1>8, <2>1, <3>1
  <2>2. CASE c # <<w.x, w.y>>
    <3>1. Free(r, c) => Free(w, c)
      BY <1>1, <1>6, CellIs DEF Free
    <3> QED  BY <1>3, <1>6, <2>2, <3>1 DEF Clean
  <2> QED  BY <2>1, <2>2
<1> QED  BY <1>3, <1>6, <1>7, <1>9 DEF Clean

Written(r, w, a) ==
  /\ Clean(r) /\ r.x = w.x + 1 /\ r.y = w.y
  /\ r.cells[<<w.x, w.y>>] = Glyph(a)
  /\ \A c \in Cells : c # <<w.x, w.y>> => r.cells[c] = w.cells[c]
LEMMA WrittenIs ==
  ASSUME NEW w, Clean(w), w.x < kColumns, NEW a \in Drawable, NEW r, r = WriteNext(w, a)
  PROVE  Written(r, w, a)
BY WriteNextIs DEF Written

LEMMA PutIs ==
  ASSUME NEW w \in Printing, NEW a \in Printed, NEW r, r = Put(w, a)
  PROVE  /\ r \in Printing
         /\ a = NewLine => r.x = 0
         /\ (a # NewLine /\ w.x # kColumns - 1) => r = WriteNext(w, a)
<1>1. Clean(w) /\ w.x < kColumns /\ w \in Windows /\ w.x \in 0..kColumns
  BY WindowIs DEF Printing
<1>2. CASE a = NewLine
  <2>1. r = newline(w)
    BY <1>2 DEF Put
  <2> QED  BY <1>1, <1>2, <2>1, NewlineIs
<1>3. CASE a # NewLine
  <2>1. a \in Drawable
    BY <1>3 DEF Printed
  <2>2. PICK m : m = WriteAscii(w, w.x, w.y, a)
    OBVIOUS
  <2>3. CASE w.x = kColumns - 1
    <3>1. r = newline(m)
      BY <1>3, <2>2, <2>3 DEF Put
    <3>2. PICK n : n = WriteNext(w, a)
      OBVIOUS
    <3>3. Clean(n) /\ n.y = w.y /\ n.x = w.x + 1
      BY <1>1, <2>1, <3>2, WriteNextIs
    <3>4. SameCursor(m, w)
      BY <1>1, <2>1, <2>2, WriteAsciiIs
    <3>5. n = [m EXCEPT !.x = m.x + 1]
      BY <2>2, <3>2 DEF WriteNext
    <3>6. newline(n) = newline(m)
      <4>1. n.y = m.y /\ n.cells = m.cells
        BY <3>4, <3>5 DEF Windows, SameCursor
      <4>2. [n EXCEPT !.x = 0] = [m EXCEPT !.x = 0]
        BY <3>4, <3>5 DEF Windows, SameCursor
      <4>3. [n EXCEPT !.x = 0, !.y = n.y + 1] = [m EXCEPT !.x = 0, !.y = m.y + 1]
        BY <3>4, <3>5, <4>1 DEF Windows, SameCursor
      <4> QED  BY <4>1, <4>2, <4>3 DEF newline
    <3> QED  BY <1>3, <2>3, <3>1, <3>3, <3>6, NewlineIs
  <2>4. CASE w.x # kColumns - 1
    <3>1. r = WriteNext(w, a)
      BY <1>3, <2>4 DEF Put, WriteNext
    <3>2. Clean(r) /\ r.x = w.x + 1
      BY <1>1, <2>1, <3>1, WriteNextIs
    <3>3. r.x < kColumns /\ r \in Windows
      BY <1>1, <2>4, <3>2, BoundsAre DEF Clean
    <3> QED  BY <1>3, <3>1, <3>2, <3>3 DEF Printing
  <2> QED  BY <2>3, <2>4
<1> QED  BY <1>2, <1>3

\* The loop of Print.
PutAll(w, s) == FoldLeft(Put, w, s)

\* The same, unrolled.
LEMMA PutSteps ==
  ASSUME NEW w \in Printing, NEW s \in Seq(Printed), NEW n \in Nat, n = Len(s)
  PROVE  \E f \in [0..n -> Printing] : /\ f[0] = w /\ f[n] = PutAll(w, s)
                                   /\ \A i \in 1..n : f[i] = Put(f[i - 1], s[i])
<1> DEFINE F == [p \in Printing \X Printed |-> Put(p[1], p[2])]
           Eqn(it) == it = [T \in SUBSET (DOMAIN s) |->
              IF T = {} THEN w ELSE Put(it[T \ {Max(T)}], s[Max(T)])]
           iter == CHOOSE it : Eqn(it)
<1>1. DOMAIN s = 1..n /\ n \in 0..Len(s) /\ s \in [1..n -> Printed]
  OBVIOUS
<1>2. F \in [Printing \X Printed -> Printing]
  BY PutIs
<1>3. PutAll(w, s) = iter[DOMAIN s]
  BY DEF PutAll, FoldLeft, MapThenFoldSet
<1>4. ASSUME NEW a \in Printing, NEW T \in SUBSET (1..n), T # {}
      PROVE  F[<<a, s[Max(T)]>>] = Put(a, s[Max(T)])
  <2>1. Max(T) \in 1..n
    BY <1>1, <1>4, MaxOf
  <2>2. PICK b \in Printed : b = s[Max(T)]
    BY <1>1, <2>1
  <2> QED  BY <2>2
<1> HIDE DEF F
<1>5. PICK it \in [SUBSET (1..n) -> Printing] : IsIter(it, F, w, s, n)
  BY <1>1, <1>2, IterExists
<1>6. Eqn(it)
  BY <1>1, <1>4, <1>5 DEF IsIter
<1>7. Eqn(iter)
  BY <1>6
<1> HIDE DEF iter
<1>8. IsFold(iter, F, w, s, n, Printing, Printed)
  BY <1>1, <1>2, <1>4, <1>7 DEF IsFold
<1>9. PICK f \in [0..n -> Printing] : Steps(f, F, w, s, n) /\ f[n] = iter[1..n]
  BY <1>8, FoldSteps
<1>10. \A i \in 1..n : f[i] = Put(f[i - 1], s[i])
  <2> SUFFICES ASSUME NEW i \in 1..n PROVE f[i] = Put(f[i - 1], s[i])
    OBVIOUS
  <2>1. s[i] \in Printed /\ f[i - 1] \in Printing
    BY <1>1
  <2> QED  BY <1>9, <2>1 DEF F, Steps
<1> QED  BY <1>1, <1>3, <1>9, <1>10 DEF Steps

PutRun(f, w, s, n, r) ==
  /\ f \in [0..n -> Printing] /\ f[0] = w /\ f[n] = r
  /\ \A i \in 1..n : f[i] = Put(f[i - 1], s[i])
LEMMA PutRuns ==
  ASSUME NEW w \in Printing, NEW s \in Seq(Printed), NEW n \in Nat, n = Len(s)
  PROVE  \E f : PutRun(f, w, s, n, PutAll(w, s))
BY PutSteps, SMTT(30) DEF PutRun

\* What Print leaves before it draws the cursor again.
LEMMA PrintIs ==
  ASSUME NEW w \in Printing, NEW s \in Seq(Printed), NEW r, r = PutAll(w, s)
  PROVE  /\ r \in Printing
         /\ s = <<>> => r = w
         /\ (s # <<>> /\ s[Len(s)] = NewLine) => r.x = 0
         /\ Len(s) = 1 => r = Put(w, s[1])
<1>1. PICK n \in Nat : n = Len(s)
  OBVIOUS
<1>2. PICK f \in [0..n -> Printing] : /\ f[0] = w /\ f[n] = r
                                      /\ \A i \in 1..n : f[i] = Put(f[i - 1], s[i])
  <2>1. PICK f : PutRun(f, w, s, n, r)
    BY <1>1, PutRuns
  <2> QED  BY <2>1 DEF PutRun
<1>3. r \in Printing
  BY <1>2
<1>4. s = <<>> => r = w
  BY <1>1, <1>2
<1>5. (s # <<>> /\ s[Len(s)] = NewLine) => r.x = 0
  <2> SUFFICES ASSUME s # <<>>, s[Len(s)] = NewLine PROVE r.x = 0
    OBVIOUS
  <2>1. n \in 1..n /\ n - 1 \in 0..n
    BY <1>1
  <2>2. PICK u \in Printing : u = f[n - 1]
    BY <2>1
  <2>3. r = Put(u, s[n]) /\ s[n] \in Printed /\ s[n] = NewLine
    BY <1>1, <1>2, <2>1, <2>2
  <2> QED  BY <2>3, PutIs
<1>6. Len(s) = 1 => r = Put(w, s[1])
  BY <1>1, <1>2
<1> QED  BY <1>3, <1>4, <1>5, <1>6

-----------------------------------------------------------------------------
(* Commands *)

\* What ls and lspci print: nothing, or lines.
Listings == {s \in Seq(Printed) : s = <<>> \/ s[Len(s)] = NewLine}

LEMMA AddLineIs ==
  ASSUME NEW s \in Listings, NEW text \in Seq(Drawable)
  PROVE  AddLine(s, text) \in Listings
<1>1. s \in Seq(Printed) /\ text \in Seq(Printed) /\ NewLine \in Printed
  BY DEF Listings, Printed
<1>2. PICK t \in Seq(Printed) : t = Append(text, NewLine)
  BY <1>1, AppendProperties
<1>3. Len(t) = Len(text) + 1 /\ t[Len(t)] = NewLine
  BY <1>1, <1>2
<1>4. PICK q : q = s \o t
  OBVIOUS
<1>5. q \in Seq(Printed) /\ Len(q) = Len(s) + Len(t)
  BY <1>1, <1>4
<1>6. q[Len(q)] = t[Len(t)]
  BY <1>1, <1>3, <1>4, <1>5
<1> QED  BY <1>2, <1>3, <1>4, <1>5, <1>6 DEF AddLine, Listings


Words == Seq(Drawable)

\* The loop of lspci, unrolled.
LEMMA LinesSteps ==
  ASSUME NEW texts \in Seq(Words), NEW n \in Nat, n = Len(texts)
  PROVE  \E f \in [0..n -> Listings] : /\ f[0] = <<>> /\ f[n] = Lines(texts)
                                   /\ \A i \in 1..n : f[i] = AddLine(f[i - 1], texts[i])
<1> DEFINE F == [p \in Listings \X Words |-> AddLine(p[1], p[2])]
           Eqn(it) == it = [T \in SUBSET (DOMAIN texts) |->
              IF T = {} THEN <<>> ELSE AddLine(it[T \ {Max(T)}], texts[Max(T)])]
           iter == CHOOSE it : Eqn(it)
<1>0. <<>> \in Listings
  BY DEF Listings
<1>1. DOMAIN texts = 1..n /\ n \in 0..Len(texts) /\ texts \in [1..n -> Words]
  OBVIOUS
<1>2. F \in [Listings \X Words -> Listings]
  BY AddLineIs DEF Words
<1>3. Lines(texts) = iter[DOMAIN texts]
  BY DEF Lines, FoldLeft, MapThenFoldSet
<1>4. ASSUME NEW a \in Listings, NEW T \in SUBSET (1..n), T # {}
      PROVE  F[<<a, texts[Max(T)]>>] = AddLine(a, texts[Max(T)])
  <2>1. Max(T) \in 1..n
    BY <1>1, <1>4, MaxOf
  <2>2. PICK b \in Words : b = texts[Max(T)]
    BY <1>1, <2>1
  <2> QED  BY <2>2
<1> HIDE DEF F
<1>5. PICK it \in [SUBSET (1..n) -> Listings] : IsIter(it, F, <<>>, texts, n)
  BY <1>0, <1>1, <1>2, IterExists
<1>6. Eqn(it)
  BY <1>1, <1>4, <1>5 DEF IsIter
<1>7. Eqn(iter)
  BY <1>6
<1> HIDE DEF iter
<1>8. IsFold(iter, F, <<>>, texts, n, Listings, Words)
  BY <1>0, <1>1, <1>2, <1>4, <1>7 DEF IsFold
<1>9. PICK f \in [0..n -> Listings] : Steps(f, F, <<>>, texts, n) /\ f[n] = iter[1..n]
  BY <1>8, FoldSteps
<1>10. \A i \in 1..n : f[i] = AddLine(f[i - 1], texts[i])
  <2> SUFFICES ASSUME NEW i \in 1..n PROVE f[i] = AddLine(f[i - 1], texts[i])
    OBVIOUS
  <2>1. texts[i] \in Words /\ f[i - 1] \in Listings
    BY <1>1
  <2> QED  BY <1>9, <2>1 DEF F, Steps
<1> QED  BY <1>1, <1>3, <1>9, <1>10 DEF Steps

LEMMA LinesIs ==
  ASSUME NEW texts \in Seq(Words)
  PROVE  Lines(texts) \in Listings
<1>1. PICK n \in Nat : n = Len(texts)
  OBVIOUS
<1>2. PICK f \in [0..n -> Listings] : f[n] = Lines(texts)
  BY <1>1, LinesSteps
<1> QED  BY <1>2

\* The greatest element of a set of indices.
LEMMA GreatestIndex ==
  ASSUME NEW n \in Nat, NEW T \in SUBSET (1..n), T # {}
  PROVE  \E i \in T : \A j \in T : j <= i
BY MaxOf

LEMMA TrimmedIs ==
  ASSUME NEW D, NEW s \in Seq(D)
  PROVE  Trimmed(s) \in Seq(D)
<1> DEFINE used == {i \in 1..Len(s) : s[i] # Space}
           last == CHOOSE i \in used : \A j \in used : j <= i
<1>1. CASE used = {}
  BY <1>1 DEF Trimmed
<1>2. CASE used # {}
  <2>1. PICK n \in Nat : n = Len(s)
    OBVIOUS
  <2>2. used \in SUBSET (1..n)
    BY <2>1
  <2>3. \E i \in used : \A j \in used : j <= i
    <3> HIDE DEF used
    <3> QED  BY <1>2, <2>2, GreatestIndex
  <2>4. last \in 1..n
    BY <2>2, <2>3
  <2>5. Trimmed(s) = SubSeq(s, 1, last)
    BY <1>2 DEF Trimmed
  <2> HIDE DEF last, used
  <2> QED  BY <2>1, <2>4, <2>5
<1> QED  BY <1>1, <1>2

Entries == [base : Seq(Drawable), ext : Seq(Drawable), attr : STRING]

LEMMA AddNameIs ==
  ASSUME NEW s \in Listings, NEW entry \in Entries
  PROVE  AddName(s, entry) \in Listings
<1>1. entry.base \in Seq(Drawable) /\ entry.ext \in Seq(Drawable)
  BY DEF Entries
<1>2. PICK b \in Seq(Drawable) : b = Trimmed(entry.base)
  BY <1>1, TrimmedIs
<1>3. PICK e \in Seq(Drawable) : e = Trimmed(entry.ext)
  BY <1>1, TrimmedIs
<1>4. "." \in Drawable
  BY DEF Drawable
<1>5. FileName(ReadName(entry)) = IF e = <<>> THEN b ELSE b \o <<".">> \o e
  BY <1>2, <1>3 DEF FileName, ReadName
<1>6. FileName(ReadName(entry)) \in Seq(Drawable)
  BY <1>4, <1>5
<1> QED  BY <1>6, AddLineIs DEF AddName

NamesOf(dir) == FoldLeft(AddName, <<>>, dir)

\* The loop of ls, unrolled.
LEMMA NamesSteps ==
  ASSUME NEW dir \in Seq(Entries), NEW n \in Nat, n = Len(dir)
  PROVE  \E f \in [0..n -> Listings] : /\ f[0] = <<>> /\ f[n] = NamesOf(dir)
                                   /\ \A i \in 1..n : f[i] = AddName(f[i - 1], dir[i])
<1> DEFINE F == [p \in Listings \X Entries |-> AddName(p[1], p[2])]
           Eqn(it) == it = [T \in SUBSET (DOMAIN dir) |->
              IF T = {} THEN <<>> ELSE AddName(it[T \ {Max(T)}], dir[Max(T)])]
           iter == CHOOSE it : Eqn(it)
<1>0. <<>> \in Listings
  BY DEF Listings
<1>1. DOMAIN dir = 1..n /\ n \in 0..Len(dir) /\ dir \in [1..n -> Entries]
  OBVIOUS
<1>2. F \in [Listings \X Entries -> Listings]
  BY AddNameIs
<1>3. NamesOf(dir) = iter[DOMAIN dir]
  BY DEF NamesOf, FoldLeft, MapThenFoldSet
<1>4. ASSUME NEW a \in Listings, NEW T \in SUBSET (1..n), T # {}
      PROVE  F[<<a, dir[Max(T)]>>] = AddName(a, dir[Max(T)])
  <2>1. Max(T) \in 1..n
    BY <1>1, <1>4, MaxOf
  <2>2. PICK b \in Entries : b = dir[Max(T)]
    BY <1>1, <2>1
  <2> QED  BY <2>2
<1> HIDE DEF F
<1>5. PICK it \in [SUBSET (1..n) -> Listings] : IsIter(it, F, <<>>, dir, n)
  BY <1>0, <1>1, <1>2, IterExists
<1>6. Eqn(it)
  BY <1>1, <1>4, <1>5 DEF IsIter
<1>7. Eqn(iter)
  BY <1>6
<1> HIDE DEF iter
<1>8. IsFold(iter, F, <<>>, dir, n, Listings, Entries)
  BY <1>0, <1>1, <1>2, <1>4, <1>7 DEF IsFold
<1>9. PICK f \in [0..n -> Listings] : Steps(f, F, <<>>, dir, n) /\ f[n] = iter[1..n]
  BY <1>8, FoldSteps
<1>10. \A i \in 1..n : f[i] = AddName(f[i - 1], dir[i])
  <2> SUFFICES ASSUME NEW i \in 1..n PROVE f[i] = AddName(f[i - 1], dir[i])
    OBVIOUS
  <2>1. dir[i] \in Entries /\ f[i - 1] \in Listings
    BY <1>1
  <2> QED  BY <1>9, <2>1 DEF F, Steps
<1> QED  BY <1>1, <1>3, <1>9, <1>10 DEF Steps

LEMMA ListRootIs ==
  ASSUME NEW dir \in Seq(Entries)
  PROVE  ListRoot(dir) \in Listings
<1> DEFINE ends == {i \in 1..Len(dir) : ReadName(dir[i]).base = <<>>}
           end == CHOOSE i \in ends : \A j \in ends : i <= j
           last == IF ends = {} THEN Len(dir) ELSE end - 1
<1>1. ListRoot(dir) = NamesOf(SubSeq(dir, 1, last))
  BY DEF ListRoot, NamesOf
<1>2. last \in 0..Len(dir)
  <2>1. CASE ends = {}
    BY <2>1
  <2>2. CASE ends # {}
    <3>1. ends \in SUBSET Nat
      OBVIOUS
    <3>2. \E i \in ends : \A j \in ends : i <= j
      <4> HIDE DEF ends
      <4> QED  BY <2>2, <3>1, LeastNatural
    <3>3. end \in 1..Len(dir)
      BY <3>2
    <3> HIDE DEF end, ends
    <3> QED  BY <2>2, <3>3
  <2> QED  BY <2>1, <2>2
<1> HIDE DEF last
<1>3. PICK q \in Seq(Entries) : q = SubSeq(dir, 1, last)
  <2>1. PICK m \in 1..(Len(dir) + 1) : m = 1
    OBVIOUS
  <2>2. last \in (m - 1)..Len(dir)
    BY <1>2, <2>1
  <2>3. SubSeq(dir, m, last) \in Seq(Entries)
    BY <2>2, SubSeqProperties
  <2> QED  BY <2>1, <2>3
<1>4. PICK n \in Nat : n = Len(q)
  OBVIOUS
<1>5. PICK f \in [0..n -> Listings] : f[n] = NamesOf(q)
  BY <1>4, NamesSteps
<1> QED  BY <1>1, <1>3, <1>5

\* What a line is split into.
LEMMA CommandIs ==
  ASSUME NEW line \in Seq(Chars)
  PROVE  Command(line) \in Seq(Chars) /\ FirstArg(line) \in Seq(Chars)
<1>1. CASE Spaces(line) = {}
  BY <1>1 DEF Command, FirstArg
<1>2. CASE Spaces(line) # {}
  <2>1. Spaces(line) \in SUBSET Nat
    BY DEF Spaces
  <2>2. \E i \in Spaces(line) : \A j \in Spaces(line) : i <= j
    BY <1>2, <2>1, LeastNatural
  <2>3. FirstSpace(line) \in Spaces(line)
    BY <2>2 DEF FirstSpace
  <2>4. PICK i \in 1..Len(line) : i = FirstSpace(line)
    BY <2>3 DEF Spaces
  <2>5. SubSeq(line, 1, i - 1) \in Seq(Chars) /\ SubSeq(line, i + 1, Len(line)) \in Seq(Chars)
    <3>1. \A j \in 1..(i - 1) : line[j] \in Chars
      OBVIOUS
    <3>2. \A j \in (i + 1)..Len(line) : line[j] \in Chars
      OBVIOUS
    <3> QED  BY <3>1, <3>2
  <2> QED  BY <1>2, <2>4, <2>5 DEF Command, FirstArg
<1> QED  BY <1>1, <1>2

-----------------------------------------------------------------------------
(* The cursor *)

Base(w) == DrawCursor(w, FALSE)

LEMMA DrawCursorTwice ==
  ASSUME NEW w \in Windows, NEW a \in BOOLEAN, NEW b \in BOOLEAN
  PROVE  DrawCursor(DrawCursor(w, a), b) = DrawCursor(w, b)
<1>1. PICK m : m = DrawCursor(w, a)
  OBVIOUS
<1>2. PICK r : r = DrawCursor(m, b)
  OBVIOUS
<1>3. PICK q : q = DrawCursor(w, b)
  OBVIOUS
<1>4. CursorOnly(m, w)
  BY <1>1, DrawCursorKeeps, Zenon
<1>5. m \in Windows /\ m.x = w.x /\ m.y = w.y
  BY <1>4 DEF CursorOnly, SameCursor
<1>6. CursorOnly(r, m) /\ r.cells[<<m.x, m.y>>] = IF b THEN {"cursor"} ELSE {}
  BY <1>2, <1>5, DrawCursorIs, Zenon
<1>7. CursorOnly(q, w) /\ q.cells[<<w.x, w.y>>] = IF b THEN {"cursor"} ELSE {}
  BY <1>3, DrawCursorIs, Zenon
<1>8. r \in Windows /\ q \in Windows /\ r.x = q.x /\ r.y = q.y
  BY <1>5, <1>6, <1>7 DEF CursorOnly, SameCursor
<1>9. ASSUME NEW c \in Cells PROVE r.cells[c] = q.cells[c]
  <2>1. CASE c = <<w.x, w.y>>
    BY <1>5, <1>6, <1>7, <2>1
  <2>2. CASE c # <<w.x, w.y>>
    BY <1>4, <1>5, <1>6, <1>7, <2>2 DEF CursorOnly
  <2> QED  BY <2>1, <2>2
<1>10. r = q
  BY <1>8, <1>9, SameWindow
<1> QED  BY <1>1, <1>2, <1>3, <1>10

\* The cell of the cursor is empty in a clean window: it is its own base.
LEMMA CleanBase ==
  ASSUME NEW u, Clean(u)
  PROVE  Base(u) = u /\ \A v \in BOOLEAN : Base(DrawCursor(u, v)) = u
<1>1. u \in Windows /\ <<u.x, u.y>> \in Cells /\ u.x \in 0..kColumns
  BY WindowIs DEF Clean
<1>2. PICK r : r = DrawCursor(u, FALSE)
  OBVIOUS
<1>3. CursorOnly(r, u) /\ r.cells[<<u.x, u.y>>] = {}
  BY <1>1, <1>2, DrawCursorKeeps, DrawCursorMark, Zenon
<1>4. u.cells[<<u.x, u.y>>] = {}
  <2>1. Free(u, <<u.x, u.y>>)
    BY <1>1 DEF Free
  <2> QED  BY <1>1, <2>1 DEF Clean
<1>5. r = u
  <2>1. \A c \in Cells : r.cells[c] = u.cells[c]
    BY <1>3, <1>4 DEF CursorOnly
  <2> QED  BY <1>1, <1>3, <2>1, SameWindow DEF CursorOnly, SameCursor
<1> QED  BY <1>1, <1>2, <1>5, DrawCursorTwice DEF Base

\* Print on a window whose cursor is drawn or not.
LEMMA TerminalPrintIs ==
  ASSUME NEW w \in Windows, Base(w) \in Printing, NEW s \in Seq(Printed), NEW r, r = TerminalPrint(w, s)
  PROVE  /\ r \in Windows /\ Base(r) = PutAll(Base(w), s) /\ r = DrawCursor(Base(r), TRUE)
         /\ Base(r) \in Printing
<1>1. PICK u \in Printing : u = Base(w)
  OBVIOUS
<1>2. PICK p : p = PutAll(u, s)
  OBVIOUS
<1>3. p \in Printing
  BY <1>2, PrintIs
<1>4. r = DrawCursor(p, TRUE)
  BY <1>1, <1>2 DEF TerminalPrint, PutAll, Base
<1>5. Clean(p) /\ p \in Windows
  BY <1>3 DEF Printing
<1>6. Base(r) = p
  BY <1>4, <1>5, CleanBase
<1>7. r \in Windows
  BY <1>4, <1>5, DrawCursorKeeps DEF SameCursor, CursorOnly
<1> QED  BY <1>1, <1>2, <1>3, <1>4, <1>6, <1>7

\* A listing printed at the start of a line leaves the cursor at the start of
\* a line.
LEMMA PrintListing ==
  ASSUME NEW w \in Windows, Base(w) \in Printing, Base(w).x = 0, NEW s \in Listings,
         NEW r, r = TerminalPrint(w, s)
  PROVE  r \in Windows /\ Base(r) \in Printing /\ Base(r).x = 0
<1>1. s \in Seq(Printed) /\ (s = <<>> \/ s[Len(s)] = NewLine)
  BY DEF Listings
<1>2. PICK u \in Printing : u = Base(w)
  OBVIOUS
<1>3. r \in Windows /\ Base(r) = PutAll(u, s) /\ Base(r) \in Printing
  BY <1>1, <1>2, TerminalPrintIs
<1>4. PICK p : p = PutAll(u, s)
  OBVIOUS
<1>5. (s = <<>> => p = u) /\ ((s # <<>> /\ s[Len(s)] = NewLine) => p.x = 0)
  BY <1>1, <1>4, PrintIs
<1> QED  BY <1>1, <1>2, <1>3, <1>4, <1>5

LEMMA Singleton ==
  ASSUME NEW S, NEW a \in S
  PROVE  <<a>> \in Seq(S) /\ Len(<<a>>) = 1 /\ <<a>>[1] = a
OBVIOUS

LEMMA CommandsDiffer ==
  /\ echo # clear /\ echo # lspci /\ echo # ls /\ echo # <<>> /\ clear # lspci /\ clear # ls
  /\ clear # <<>> /\ lspci # ls /\ lspci # <<>> /\ ls # <<>>
BY DEF echo, clear, lspci, ls

\* Every command, known or not, leaves the cursor at the start of an empty row.
LEMMA ExecuteLineIs ==
  ASSUME NEW w \in Printing, w.x = 0, NEW line \in Seq(Chars), NEW r, r = ExecuteLine(w, line)
  PROVE  r \in Windows /\ Base(r) \in Printing /\ Base(r).x = 0
<1>1. w \in Windows /\ Clean(w) /\ Base(w) = w
  BY CleanBase DEF Printing
<1>2. Chars \subseteq Drawable /\ Drawable \subseteq Printed /\ NewLine \in Printed /\ "?" \in Printed
  BY DEF Drawable, Printed
<1>3. PICK cmd \in Seq(Printed) : cmd = Command(line)
  <2>1. Command(line) \in Seq(Chars)
    BY CommandIs
  <2> QED  BY <1>2, <2>1
<1>4. PICK arg \in Seq(Printed) : arg = FirstArg(line)
  <2>1. FirstArg(line) \in Seq(Chars)
    BY CommandIs
  <2> QED  BY <1>2, <2>1
<1>5. CASE cmd = echo
  <2>1. PICK m : m = TerminalPrint(w, arg)
    OBVIOUS
  <2>2. m \in Windows /\ Base(m) \in Printing
    BY <1>1, <2>1, TerminalPrintIs
  <2>3. r = TerminalPrint(m, <<NewLine>>)
    BY <1>3, <1>4, <1>5, <2>1, CommandsDiffer DEF ExecuteLine
  <2>4. PICK s \in Seq(Printed) : s = <<NewLine>>
    BY <1>2, Singleton
  <2>5. PICK u \in Printing : u = Base(m)
    BY <2>2
  <2>6. r = TerminalPrint(m, s)
    BY <2>3, <2>4
  <2>7. r \in Windows /\ Base(r) = PutAll(u, s) /\ Base(r) \in Printing
    BY <2>2, <2>5, <2>6, TerminalPrintIs
  <2>8. PICK p : p = PutAll(u, s)
    OBVIOUS
  <2>9. s # <<>> /\ s[Len(s)] = NewLine
    BY <2>4
  <2>10. p.x = 0
    BY <2>8, <2>9, PrintIs, SMTT(30)
  <2> QED  BY <2>7, <2>8, <2>10
<1>6. CASE cmd = clear
  <2>1. PICK m : m = FillRectangle(w, Text)
    OBVIOUS
  <2>2. SameCursor(m, w) /\ \A c \in Cells : m.cells[c] = IF c \in Text THEN {} ELSE w.cells[c]
    BY <1>1, <2>1, FillRectangleIs DEF Filled
  <2>3. 0 \in 0..(kRows - 1)
    BY BoundsAre
  <2>4. r = [m EXCEPT !.y = 0]
    BY <1>3, <1>6, <2>1, CommandsDiffer DEF ExecuteLine
  <2>5. r \in Windows /\ r.x = 0 /\ r.cells = m.cells
    BY <2>2, <2>3, <2>4 DEF Windows, SameCursor
  <2>6. \A c \in Cells : r.cells[c] = {}
    <3>1. \A c \in Cells : c \notin Text => c[1] = kColumns
      BY CellIs, BoundsAre DEF Text
    <3> QED  BY <1>1, <2>2, <2>5, <3>1 DEF Clean, Free
  <2>7. Clean(r) /\ r.x < kColumns
    BY <2>5, <2>6, BoundsAre DEF Clean
  <2> QED  BY <2>5, <2>7, CleanBase DEF Printing
<1>7. CASE cmd = lspci
  <2>2. r = TerminalPrint(w, Lines(Devices))
    BY <1>3, <1>7, CommandsDiffer DEF ExecuteLine
  <2>3. Lines(Devices) \in Listings
    BY TerminalAssumption, LinesIs DEF Words
  <2> QED  BY <1>1, <2>2, <2>3, PrintListing
<1>8. CASE cmd = ls
  <2>2. r = TerminalPrint(w, ListRoot(RootDir))
    BY <1>3, <1>8, CommandsDiffer DEF ExecuteLine
  <2>3. ListRoot(RootDir) \in Listings
    BY TerminalAssumption, ListRootIs DEF Entries
  <2> QED  BY <1>1, <2>2, <2>3, PrintListing
<1>9. CASE cmd = <<>>
  <2>2. r = w
    BY <1>3, <1>9, CommandsDiffer DEF ExecuteLine
  <2> QED  BY <1>1, <2>2
<1>10. CASE cmd \notin {echo, clear, lspci, ls, <<>>}
  <2>1. r = TerminalPrint(w, NoSuchCommand \o cmd \o <<NewLine>>)
    BY <1>3, <1>10 DEF ExecuteLine
  <2>2. PICK a \in Seq(Printed) : a = NoSuchCommand \o cmd
    <3>1. NoSuchCommand \in Seq(Printed)
      BY <1>2, Singleton DEF NoSuchCommand
    <3> QED  BY <3>1, ConcatProperties
  <2>3. PICK b \in Seq(Printed) : b = <<NewLine>>
    BY <1>2, Singleton
  <2>4. PICK s : s = a \o b
    OBVIOUS
  <2>5. s \in Seq(Printed) /\ Len(b) = 1 /\ Len(s) = Len(a) + 1 /\ s[Len(s)] = NewLine
    BY <2>3, <2>4
  <2>6. s \in Listings /\ r = TerminalPrint(w, s)
    BY <2>1, <2>2, <2>3, <2>4, <2>5 DEF Listings
  <2> QED  BY <1>1, <2>6, PrintListing
<1> QED  BY <1>5, <1>6, <1>7, <1>8, <1>9, <1>10

\* The prompt at the start of a row.
LEMMA PromptPrinted ==
  ASSUME NEW w \in Windows, Base(w) \in Printing, Base(w).x = 0, NEW r, r = TerminalPrint(w, Prompt)
  PROVE  /\ r \in Windows /\ r = DrawCursor(Base(r), TRUE) /\ Clean(Base(r))
         /\ Base(r).x = 1 /\ Base(r).cells[<<0, Base(r).y>>] = {">"}
<1>1. ">" \in Drawable /\ ">" \in Printed /\ ">" # NewLine /\ ">" # Space
  BY DEF Drawable, Printed, NewLine, Space
<1>2. PICK s \in Seq(Printed) : s = Prompt
  BY <1>1, Singleton DEF Prompt
<1>3. s # <<>> /\ Len(s) = 1 /\ s[1] = ">"
  BY <1>2 DEF Prompt
<1>4. PICK u \in Printing : u = Base(w)
  OBVIOUS
<1>5. r \in Windows /\ Base(r) = PutAll(u, s) /\ r = DrawCursor(Base(r), TRUE)
  BY <1>2, <1>4, TerminalPrintIs
<1>6. PICK p : p = PutAll(u, s)
  OBVIOUS
<1>7. p = Put(u, ">")
  BY <1>3, <1>6, PrintIs
<1>8. Clean(u) /\ u.x = 0 /\ u.x # kColumns - 1 /\ u.x < kColumns
  BY <1>4, BoundsAre DEF Printing
<1>9. p = WriteNext(u, ">")
  BY <1>1, <1>7, <1>8, PutIs
<1>10. Clean(p) /\ p.x = u.x + 1 /\ p.y = u.y /\ p.cells[<<u.x, u.y>>] = Glyph(">")
  BY <1>1, <1>8, <1>9, WriteNextIs
<1>11. Glyph(">") = {">"}
  BY <1>1 DEF Glyph
<1>12. Base(r) = p /\ p.x = 1 /\ p.cells[<<0, p.y>>] = {">"}
  BY <1>5, <1>6, <1>8, <1>10, <1>11
<1> QED  BY <1>5, <1>10, <1>12

-----------------------------------------------------------------------------
(* The line in the window *)

LineFits(line) == line \in Seq(Chars) /\ Len(line) < kColumns

\* u, a window without its cursor, shows the line of n characters before the
\* cursor and, unless its prompt was erased, the prompt before the line.
EditAt(u, line, erased, x, y, n) ==
  /\ Clean(u) /\ u.x = x /\ u.y = y /\ line \in Seq(Chars) /\ Len(line) = n
  /\ n < kColumns /\ x - n \in {0, 1}
  /\ \A i \in 1..n : u.cells[<<x - n + i - 1, y>>] = Glyph(line[i])
  /\ ~erased => x = n + 1 /\ u.cells[<<0, y>>] = {">"}
Editing(u, line, erased) ==
  \E x \in 0..kColumns, y \in 0..(kRows - 1), n \in Nat : EditAt(u, line, erased, x, y, n)

LEMMA EditingFits ==
  ASSUME NEW u, NEW line, NEW erased, Editing(u, line, erased)
  PROVE  LineFits(line) /\ Clean(u)
<1>1. PICK x \in 0..kColumns, y \in 0..(kRows - 1), n \in Nat : EditAt(u, line, erased, x, y, n)
  BY DEF Editing
<1> QED  BY <1>1 DEF LineFits, EditAt

LEMMA EditType ==
  ASSUME NEW u, NEW line, NEW erased, Editing(u, line, erased), u.x < kColumns - 1,
         NEW a \in Chars, NEW r, r = WriteNext(u, a)
  PROVE  Editing(r, Append(line, a), erased)
<1>1. PICK x \in 0..kColumns, y \in 0..(kRows - 1), n \in Nat : EditAt(u, line, erased, x, y, n)
  BY DEF Editing
<1>2. Clean(u) /\ u.x = x /\ u.y = y /\ line \in Seq(Chars) /\ Len(line) = n /\ x - n \in {0, 1}
  BY <1>1 DEF EditAt
<1>3. x < kColumns - 1 /\ u.x < kColumns /\ a \in Drawable
  BY <1>2, BoundsAre DEF Drawable
<1>4. /\ Clean(r) /\ r.x = x + 1 /\ r.y = y /\ r.cells[<<x, y>>] = Glyph(a)
      /\ \A c \in Cells : c # <<x, y>> => r.cells[c] = u.cells[c]
  BY <1>2, <1>3, WriteNextIs
<1>5. PICK new \in Seq(Chars) : new = Append(line, a)
  BY <1>2, AppendProperties
<1>6. Len(new) = n + 1 /\ new[n + 1] = a /\ \A i \in 1..n : new[i] = line[i]
  BY <1>2, <1>5, AppendProperties
<1>7. PICK k \in {0, 1} : k = x - n
  BY <1>2
<1>8. ASSUME NEW i \in 1..(n + 1)
      PROVE  r.cells[<<k + i - 1, y>>] = Glyph(new[i])
  <2>1. CASE i = n + 1
    <3>1. k + i - 1 = x
      BY <1>7, <2>1
    <3> QED  BY <1>4, <1>6, <2>1, <3>1
  <2>2. CASE i # n + 1
    <3>1. i \in 1..n
      BY <2>2
    <3>2. PICK j \in 0..kColumns : j = k + i - 1 /\ j # x
      BY <1>7, <3>1, BoundsAre
    <3>3. u.cells[<<j, y>>] = Glyph(line[i])
      BY <1>1, <1>7, <3>1, <3>2 DEF EditAt
    <3>4. <<j, y>> \in Cells /\ <<j, y>> # <<x, y>>
      BY <3>2, CellIs
    <3> QED  BY <1>4, <1>6, <3>1, <3>2, <3>3, <3>4
  <2> QED  BY <2>1, <2>2
<1>9. ~erased => x + 1 = (n + 1) + 1 /\ r.cells[<<0, y>>] = {">"}
  <2> SUFFICES ASSUME ~erased PROVE x = n + 1 /\ r.cells[<<0, y>>] = {">"}
    BY <1>3, BoundsAre
  <2>1. x = n + 1 /\ u.cells[<<0, y>>] = {">"}
    BY <1>1 DEF EditAt
  <2>2. 0 \in 0..kColumns /\ 0 # x
    BY <2>1, BoundsAre
  <2>3. <<0, y>> \in Cells /\ <<0, y>> # <<x, y>>
    BY <2>2, CellIs
  <2> QED  BY <1>4, <2>1, <2>3
<1>10. x + 1 \in 0..kColumns /\ n + 1 \in Nat /\ n + 1 < kColumns
       /\ (x + 1) - (n + 1) = k
  BY <1>3, <1>7, BoundsAre
<1>11. EditAt(r, new, erased, x + 1, y, n + 1)
  BY <1>4, <1>5, <1>6, <1>8, <1>9, <1>10 DEF EditAt
<1> QED  BY <1>5, <1>10, <1>11 DEF Editing

\* Backspace moves the cursor back and empties the cell it goes to.
SteppedBack(u, r) ==
  \E m : m = [u EXCEPT !.x = u.x - 1] /\ r = FillRectangle(m, {<<m.x, m.y>>})
Shortened(line) == IF line = <<>> THEN <<>> ELSE Front(line)
StillErased(erased, line, erased2) == (erased => erased2) /\ (line = <<>> => erased2)
EmptiedLast(u, r) ==
  /\ r.x = u.x - 1 /\ r.y = u.y
  /\ \A c \in Cells : c # <<r.x, r.y>> => r.cells[c] = u.cells[c]

LEMMA EditBackspace ==
  ASSUME NEW u, NEW line, NEW erased, Editing(u, line, erased), u.x > 0,
         NEW r, SteppedBack(u, r), NEW new, new = Shortened(line),
         NEW erased2, StillErased(erased, line, erased2)
  PROVE  Editing(r, new, erased2) /\ EmptiedLast(u, r)
<1>0. PICK m : m = [u EXCEPT !.x = u.x - 1] /\ r = FillRectangle(m, {<<m.x, m.y>>})
  BY DEF SteppedBack
<1>1. PICK x \in 0..kColumns, y \in 0..(kRows - 1), n \in Nat : EditAt(u, line, erased, x, y, n)
  BY DEF Editing
<1>2. /\ Clean(u) /\ u.x = x /\ u.y = y /\ line \in Seq(Chars) /\ Len(line) = n /\ x - n \in {0, 1}
      /\ u \in Windows /\ x > 0 /\ n < kColumns
  BY <1>1 DEF EditAt, Clean
<1>3. PICK z \in 0..kColumns : z = x - 1
  BY <1>2, BoundsAre
<1>4. m \in Windows /\ m.x = z /\ m.y = y /\ m.cells = u.cells
  BY <1>0, <1>2, <1>3 DEF Windows
<1>5. PICK area : area = {<<z, y>>}
  OBVIOUS
<1>6. r = FillRectangle(m, area)
  BY <1>0, <1>4, <1>5
<1>7. Filled(r, m, area)
  BY <1>4, <1>6, FillRectangleIs
<1>8. /\ r \in Windows /\ r.x = z /\ r.y = y /\ <<z, y>> \in Cells /\ r.cells[<<z, y>>] = {}
      /\ \A c \in Cells : c # <<z, y>> => r.cells[c] = u.cells[c]
  <2>1. r \in Windows /\ r.x = z /\ r.y = y
    BY <1>4, <1>7 DEF Filled, SameCursor
  <2>2. PICK k : k = <<z, y>> /\ k \in Cells
    BY <1>3, CellIs
  <2>3. k \in area /\ \A c \in Cells : c # k => c \notin area
    BY <1>5, <2>2
  <2>4. ASSUME NEW c \in Cells
        PROVE  (c \in area => r.cells[c] = {}) /\ (c \notin area => r.cells[c] = u.cells[c])
    <3>1. r.cells[c] = IF c \in area THEN {} ELSE m.cells[c]
      BY <1>7, Zenon DEF Filled
    <3>2. m.cells[c] = u.cells[c]
      BY <1>4, Zenon
    <3>3. CASE c \in area
      BY <3>1, <3>3, Zenon
    <3>4. CASE c \notin area
      BY <3>1, <3>2, <3>4, Zenon
    <3> QED  BY <3>3, <3>4, Zenon
  <2>5. r.cells[k] = {} /\ \A c \in Cells : c # k => r.cells[c] = u.cells[c]
    BY <2>2, <2>3, <2>4
  <2> QED  BY <2>1, <2>2, <2>5
<1>9. Clean(r)
  <2> SUFFICES ASSUME NEW c \in Cells
      PROVE  "cursor" \notin r.cells[c] /\ (Free(r, c) => r.cells[c] = {})
    BY <1>8 DEF Clean
  <2>1. CASE c = <<z, y>>
    BY <1>8, <2>1
  <2>2. CASE c # <<z, y>>
    <3>1. PICK a \in 0..kColumns, b \in 0..(kRows - 1) : a = c[1] /\ b = c[2] /\ c = <<a, b>>
      BY CellIs
    <3>2. Free(r, c) => Free(u, c)
      <4>1. ~(a = z /\ b = y)
        BY <2>2, <3>1
      <4>2. (a = kColumns \/ b > y \/ (b = y /\ a >= z)) => (a = kColumns \/ b > y \/ (b = y /\ a >= x))
        BY <1>3, <4>1, BoundsAre
      <4>3. /\ Free(r, c) <=> (a = kColumns \/ b > y \/ (b = y /\ a >= z))
            /\ Free(u, c) <=> (a = kColumns \/ b > y \/ (b = y /\ a >= x))
        BY <1>2, <1>8, <3>1 DEF Free
      <4> QED  BY <4>2, <4>3
    <3> QED  BY <1>2, <1>8, <2>2, <3>2 DEF Clean
  <2> QED  BY <2>1, <2>2
<1>10. Editing(r, new, erased2)
  <2>1. CASE line = <<>>
    <3>1. new = <<>> /\ n = 0 /\ z = 0 /\ erased2
      BY <1>2, <1>3, <2>1 DEF Shortened, StillErased
    <3>2. new \in Seq(Chars) /\ Len(new) = 0 /\ 0 < kColumns
      <4>1. <<>> \in Seq(Chars) /\ Len(<<>>) = 0
        OBVIOUS
      <4>2. 0 < kColumns
        BY BoundsAre
      <4> QED  BY <3>1, <4>1, <4>2, Zenon
    <3>3. PICK k \in Nat : k = 0
      OBVIOUS
    <3>4. EditAt(r, new, erased2, z, y, k)
      <4>1. z - k \in {0, 1} /\ k < kColumns /\ Len(new) = k /\ 1..k = {}
        BY <3>1, <3>2, <3>3, BoundsAre
      <4> QED  BY <1>8, <1>9, <3>1, <3>2, <4>1 DEF EditAt
    <3> QED  BY <3>4 DEF Editing
  <2>2. CASE line # <<>>
    <3>1. n > 0
      BY <1>2, <2>2
    <3>2. PICK l \in Nat : l = n - 1
      BY <3>1
    <3>3. new \in Seq(Chars) /\ Len(new) = l /\ \A i \in 1..l : new[i] = line[i]
      <4>1. new = SubSeq(line, 1, l)
        BY <1>2, <2>2, <3>2 DEF Front, Shortened
      <4> QED  BY <1>2, <3>2, <4>1
    <3>4. PICK k \in {0, 1} : k = x - n
      BY <1>2
    <3>5. z - l = k /\ l < kColumns
      BY <1>2, <1>3, <3>2, <3>4, BoundsAre
    <3>6. ASSUME NEW i \in 1..l PROVE r.cells[<<k + i - 1, y>>] = Glyph(new[i])
      <4>1. i \in 1..n
        BY <3>2
      <4>2. PICK j \in 0..kColumns : j = k + i - 1 /\ j # z
        <5>1. k + i - 1 \in 0..kColumns /\ k + i - 1 # z
          <6>1. k \in Int /\ i \in Int /\ l \in Int /\ z \in Int /\ z - l = k /\ 1 <= i /\ i <= l /\ k >= 0
            BY <3>5
          <6>2. k + i - 1 >= 0 /\ k + i - 1 < z
            BY <6>1
          <6> QED  BY <6>1, <6>2, BoundsAre
        <5> QED  BY <5>1
      <4>3. u.cells[<<j, y>>] = Glyph(line[i])
        BY <1>1, <3>4, <4>1, <4>2 DEF EditAt
      <4>4. <<j, y>> \in Cells /\ <<j, y>> # <<z, y>>
        BY <4>2, CellIs
      <4> QED  BY <1>8, <3>3, <4>2, <4>3, <4>4
    <3>7. ~erased2 => z = l + 1 /\ r.cells[<<0, y>>] = {">"}
      <4> SUFFICES ASSUME ~erased2 PROVE z = l + 1 /\ r.cells[<<0, y>>] = {">"}
        OBVIOUS
      <4>1. x = n + 1 /\ u.cells[<<0, y>>] = {">"}
        BY <1>1 DEF EditAt, StillErased
      <4>2. z = l + 1 /\ 0 \in 0..kColumns /\ 0 # z
        BY <1>3, <3>1, <3>2, <4>1, BoundsAre
      <4>3. <<0, y>> \in Cells /\ <<0, y>> # <<z, y>>
        BY <4>2, CellIs
      <4> QED  BY <1>8, <4>1, <4>2, <4>3
    <3>8. EditAt(r, new, erased2, z, y, l)
      BY <1>8, <1>9, <3>3, <3>5, <3>6, <3>7 DEF EditAt
    <3> QED  BY <3>8 DEF Editing
  <2> QED  BY <2>1, <2>2
<1> QED  BY <1>2, <1>3, <1>8, <1>10 DEF EmptiedLast

\* The windows the loop of HistoryUpDown may pass through, as far as their
\* type goes.
Wide == [x : Nat, y : 0..(kRows - 1), cells : [Cells -> SUBSET Marks]]

LEMMA WriteNextWide ==
  ASSUME NEW w \in Wide, NEW a \in Chars
  PROVE  WriteNext(w, a) \in Wide
<1>1. a \in Marks
  BY DEF Marks, Drawable
<1> QED  BY <1>1 DEF WriteNext, WriteAscii, Wide

\* The loop of HistoryUpDown.
WriteAll(w, s) == FoldLeft(WriteNext, w, s)

\* The same, unrolled.
LEMMA WriteAllSteps ==
  ASSUME NEW w \in Wide, NEW s \in Seq(Chars), NEW n \in Nat, n = Len(s)
  PROVE  \E f \in [0..n -> Wide] : /\ f[0] = w /\ f[n] = WriteAll(w, s)
                                   /\ \A i \in 1..n : f[i] = WriteNext(f[i - 1], s[i])
<1> DEFINE F == [p \in Wide \X Chars |-> WriteNext(p[1], p[2])]
           Eqn(it) == it = [T \in SUBSET (DOMAIN s) |->
              IF T = {} THEN w ELSE WriteNext(it[T \ {Max(T)}], s[Max(T)])]
           iter == CHOOSE it : Eqn(it)
<1>1. DOMAIN s = 1..n /\ n \in 0..Len(s) /\ s \in [1..n -> Chars]
  OBVIOUS
<1>2. F \in [Wide \X Chars -> Wide]
  BY WriteNextWide
<1>3. WriteAll(w, s) = iter[DOMAIN s]
  BY DEF WriteAll, FoldLeft, MapThenFoldSet
<1>4. ASSUME NEW a \in Wide, NEW T \in SUBSET (1..n), T # {}
      PROVE  F[<<a, s[Max(T)]>>] = WriteNext(a, s[Max(T)])
  <2>1. Max(T) \in 1..n
    BY <1>1, <1>4, MaxOf
  <2>2. PICK b \in Chars : b = s[Max(T)]
    BY <1>1, <2>1
  <2> QED  BY <2>2
<1> HIDE DEF F
<1>5. PICK it \in [SUBSET (1..n) -> Wide] : IsIter(it, F, w, s, n)
  BY <1>1, <1>2, IterExists
<1>6. Eqn(it)
  BY <1>1, <1>4, <1>5 DEF IsIter
<1>7. Eqn(iter)
  BY <1>6
<1> HIDE DEF iter
<1>8. IsFold(iter, F, w, s, n, Wide, Chars)
  BY <1>1, <1>2, <1>4, <1>7 DEF IsFold
<1>9. PICK f \in [0..n -> Wide] : Steps(f, F, w, s, n) /\ f[n] = iter[1..n]
  BY <1>8, FoldSteps
<1>10. \A i \in 1..n : f[i] = WriteNext(f[i - 1], s[i])
  <2> SUFFICES ASSUME NEW i \in 1..n PROVE f[i] = WriteNext(f[i - 1], s[i])
    OBVIOUS
  <2>1. s[i] \in Chars /\ f[i - 1] \in Wide
    BY <1>1
  <2> QED  BY <1>9, <2>1 DEF F, Steps
<1> QED  BY <1>1, <1>3, <1>9, <1>10 DEF Steps

\* r is u with the first i characters of h in place of the text of row y.
Recalled(u, h, y, i, r) ==
  /\ Clean(r) /\ r.x = i + 1 /\ r.y = y
  /\ \A j \in 1..i : r.cells[<<j, y>>] = Glyph(h[j])
  /\ \A a \in 0..kColumns, b \in 0..(kRows - 1) :
       (b # y \/ a = 0 \/ a = kColumns) => r.cells[<<a, b>>] = u.cells[<<a, b>>]

LEMMA RecallStart ==
  ASSUME NEW u, Clean(u), NEW h, NEW y \in 0..(kRows - 1), y = u.y,
         NEW r, r = [FillRectangle(u, Columns(1, y, kColumns - 1)) EXCEPT !.x = 1]
  PROVE  Recalled(u, h, y, 0, r) /\ r \in Wide
<1>1. PICK d : d = Columns(1, y, kColumns - 1)
  OBVIOUS
<1>2. PICK m : m = FillRectangle(u, d)
  OBVIOUS
<1>3. u \in Windows
  BY DEF Clean
<1>4. Filled(m, u, d)
  BY <1>2, <1>3, FillRectangleIs
<1>5. m \in Windows /\ m.y = y
  BY <1>4 DEF Filled, SameCursor
<1>6. 1 \in 0..kColumns /\ 1 \in Nat
  BY BoundsAre
<1>7. r \in Windows /\ r \in Wide /\ r.x = 1 /\ r.y = y /\ r.cells = m.cells
  <2>1. r = [m EXCEPT !.x = 1]
    BY <1>1, <1>2
  <2>2. r \in Windows /\ r.x = 1 /\ r.y = y /\ r.cells = m.cells
    BY <1>5, <1>6, <2>1 DEF Windows
  <2>3. r \in Wide
    BY <1>5, <1>6, <2>1 DEF Windows, Wide
  <2> QED  BY <2>2, <2>3
<1>8. ASSUME NEW a \in 0..kColumns, NEW b \in 0..(kRows - 1)
      PROVE  /\ <<a, b>> \in Cells
             /\ (b = y /\ a # 0 /\ a # kColumns) => r.cells[<<a, b>>] = {}
             /\ ~(b = y /\ a # 0 /\ a # kColumns) => r.cells[<<a, b>>] = u.cells[<<a, b>>]
  <2>1. PICK c : c = <<a, b>> /\ c \in Cells /\ c[1] = a /\ c[2] = b
    BY CellIs, ZenonT(30)
  <2>2. c \in d <=> (b = y /\ 1 <= a /\ a < 1 + (kColumns - 1))
    BY <1>1, <2>1 DEF Columns
  <2>3. c \in d <=> (b = y /\ a # 0 /\ a # kColumns)
    BY <2>2, BoundsAre
  <2>4. r.cells[c] = IF c \in d THEN {} ELSE u.cells[c]
    <3>1. m.cells[c] = IF c \in d THEN {} ELSE u.cells[c]
      BY <1>4, <2>1, Zenon DEF Filled
    <3> QED  BY <1>7, <3>1, Zenon
  <2>5. CASE c \in d
    BY <2>1, <2>3, <2>4, <2>5
  <2>6. CASE c \notin d
    BY <2>1, <2>3, <2>4, <2>6
  <2> QED  BY <2>5, <2>6
<1>9. Clean(r)
  <2> SUFFICES ASSUME NEW c \in Cells
      PROVE  "cursor" \notin r.cells[c] /\ (Free(r, c) => r.cells[c] = {})
    BY <1>7 DEF Clean
  <2>1. PICK a \in 0..kColumns, b \in 0..(kRows - 1) : a = c[1] /\ b = c[2] /\ c = <<a, b>>
    BY CellIs
  <2>2. CASE b = y /\ a # 0 /\ a # kColumns
    BY <1>8, <2>1, <2>2
  <2>3. CASE ~(b = y /\ a # 0 /\ a # kColumns)
    <3>1. r.cells[c] = u.cells[c]
      BY <1>8, <2>1, <2>3
    <3>2. /\ Free(r, c) <=> (a = kColumns \/ b > y \/ (b = y /\ a >= 1))
          /\ (a = kColumns \/ b > y) => Free(u, c)
      BY <1>7, <2>1 DEF Free
    <3>3. Free(r, c) => Free(u, c)
      BY <2>3, <3>2
    <3> QED  BY <3>1, <3>3 DEF Clean
  <2> QED  BY <2>2, <2>3
<1>10. r.x = 0 + 1
  BY <1>7
<1>11. 1..0 = {}
  OBVIOUS
<1> QED  BY <1>7, <1>8, <1>9, <1>10, <1>11 DEF Recalled

LEMMA RecallStep ==
  ASSUME NEW u, NEW h \in Seq(Chars), Len(h) < kColumns, NEW y \in 0..(kRows - 1),
         NEW i \in 1..Len(h), NEW w, Recalled(u, h, y, i - 1, w), NEW r, r = WriteNext(w, h[i])
  PROVE  Recalled(u, h, y, i, r)
<1>1. Clean(w) /\ w.x = i /\ w.y = y
  BY DEF Recalled
<1>2. i < kColumns /\ w.x < kColumns /\ i \in 0..kColumns
  BY <1>1, BoundsAre
<1>3. PICK k \in Drawable : k = h[i]
  BY DEF Drawable
<1>4. /\ Clean(r) /\ r.x = i + 1 /\ r.y = y /\ r.cells[<<i, y>>] = Glyph(k)
      /\ \A c \in Cells : c # <<i, y>> => r.cells[c] = w.cells[c]
  BY <1>1, <1>2, <1>3, WriteNextIs
<1>5. ASSUME NEW j \in 1..i PROVE r.cells[<<j, y>>] = Glyph(h[j])
  <2>1. CASE j = i
    BY <1>3, <1>4, <2>1
  <2>2. CASE j # i
    <3>1. j \in 1..(i - 1) /\ j \in 0..kColumns
      BY <1>2, <2>2, BoundsAre
    <3>2. w.cells[<<j, y>>] = Glyph(h[j])
      BY <3>1 DEF Recalled
    <3>3. <<j, y>> \in Cells /\ <<j, y>> # <<i, y>>
      BY <2>2, <3>1, CellIs
    <3> QED  BY <1>4, <3>2, <3>3
  <2> QED  BY <2>1, <2>2
<1>6. ASSUME NEW a \in 0..kColumns, NEW b \in 0..(kRows - 1), b # y \/ a = 0 \/ a = kColumns
      PROVE  r.cells[<<a, b>>] = u.cells[<<a, b>>]
  <2>1. <<a, b>> \in Cells
    BY CellIs
  <2>2. ~(a = i /\ b = y)
    BY <1>2, <1>6
  <2>3. <<a, b>> # <<i, y>>
    BY <2>2
  <2>4. w.cells[<<a, b>>] = u.cells[<<a, b>>]
    BY <1>6, Zenon DEF Recalled
  <2> QED  BY <1>4, <2>1, <2>3, <2>4
<1> QED  BY <1>4, <1>5, <1>6 DEF Recalled

\* The line recalled from the history.
LEMMA RecallIs ==
  ASSUME NEW u, NEW h \in Seq(Chars), Len(h) < kColumns, NEW y \in 0..(kRows - 1),
         NEW w \in Wide, Recalled(u, h, y, 0, w), NEW r, r = WriteAll(w, h)
  PROVE  Recalled(u, h, y, Len(h), r)
<1>1. PICK n \in Nat : n = Len(h)
  OBVIOUS
<1>3. PICK f \in [0..n -> Wide] : /\ f[0] = w /\ f[n] = r
                                  /\ \A i \in 1..n : f[i] = WriteNext(f[i - 1], h[i])
  BY <1>1, WriteAllSteps, SMTT(30)
<1> DEFINE T == {i \in 0..n : Recalled(u, h, y, i, f[i])}
<1>4. 0 \in T
  BY <1>3
<1>5. \A i \in 1..n : i - 1 \in T => i \in T
  <2> SUFFICES ASSUME NEW i \in 1..n, i - 1 \in T PROVE i \in T
    OBVIOUS
  <2>1. PICK v : v = f[i - 1] /\ Recalled(u, h, y, i - 1, v)
    OBVIOUS
  <2>2. f[i] = WriteNext(v, h[i])
    BY <1>3, <2>1
  <2>3. Recalled(u, h, y, i, f[i])
    BY <1>1, <2>1, <2>2, RecallStep
  <2> QED  BY <2>3
<1> HIDE DEF T
<1>6. \A i \in 0..n : i \in T
  BY <1>4, <1>5, CountUp
<1>7. n \in T
  BY <1>6
<1> QED  BY <1>1, <1>3, <1>7 DEF T

LEMMA EditHistory ==
  ASSUME NEW u, NEW line, NEW erased, Editing(u, line, erased), NEW h, LineFits(h),
         NEW w, w = [FillRectangle(u, Columns(1, u.y, kColumns - 1)) EXCEPT !.x = 1],
         NEW r, r = WriteAll(w, h)
  PROVE  Editing(r, h, erased) /\ Recalled(u, h, u.y, Len(h), r)
<1>1. PICK x \in 0..kColumns, y \in 0..(kRows - 1), n \in Nat : EditAt(u, line, erased, x, y, n)
  BY DEF Editing
<1>2. Clean(u) /\ u.x = x /\ u.y = y
  BY <1>1 DEF EditAt
<1>3. PICK l \in Nat : l = Len(h) /\ h \in Seq(Chars) /\ l < kColumns
  BY DEF LineFits
<1>4. Recalled(u, h, y, l, r)
  <2>1. w \in Wide /\ Recalled(u, h, y, 0, w)
    BY <1>2, RecallStart
  <2>2. Len(h) < kColumns /\ h \in Seq(Chars)
    BY <1>3
  <2>3. Recalled(u, h, y, Len(h), r)
    BY <2>1, <2>2, RecallIs, ZenonT(30)
  <2> QED  BY <1>3, <2>3
<1>5. PICK z \in 0..kColumns : z = l + 1 /\ z - l = 1
  BY <1>3, BoundsAre, SMTT(30)
<1>6. Clean(r) /\ r.x = z /\ r.y = y
  BY <1>4, <1>5 DEF Recalled
<1>7. ASSUME NEW i \in 1..l PROVE r.cells[<<z - l + i - 1, y>>] = Glyph(h[i])
  <2>1. z - l + i - 1 = i
    BY <1>5
  <2> QED  BY <1>4, <2>1 DEF Recalled
<1>8. ~erased => z = l + 1 /\ r.cells[<<0, y>>] = {">"}
  <2> SUFFICES ASSUME ~erased PROVE r.cells[<<0, y>>] = {">"}
    BY <1>5
  <2>2. u.cells[<<0, y>>] = {">"}
    BY <1>1 DEF EditAt
  <2>3. 0 \in 0..kColumns
    BY BoundsAre
  <2>4. r.cells[<<0, y>>] = u.cells[<<0, y>>]
    BY <1>4, <2>3 DEF Recalled
  <2> QED  BY <2>2, <2>4
<1>9. EditAt(r, h, erased, z, y, l)
  BY <1>3, <1>5, <1>6, <1>7, <1>8 DEF EditAt
<1> QED  BY <1>2, <1>3, <1>4, <1>9 DEF Editing

-----------------------------------------------------------------------------
(* What the window shows between two keys *)

Holds(w, line, erased) ==
  /\ w \in Windows /\ Editing(Base(w), line, erased)
  /\ \E v \in BOOLEAN : w = DrawCursor(Base(w), v)

LEMMA CursorDrawn ==
  ASSUME NEW u, NEW line, NEW erased, Editing(u, line, erased), NEW v \in BOOLEAN,
         NEW w, w = DrawCursor(u, v)
  PROVE  Holds(w, line, erased) /\ CursorOnly(w, u)
<1>1. Clean(u) /\ u \in Windows
  BY EditingFits DEF Clean
<1>2. CursorOnly(w, u)
  BY <1>1, DrawCursorKeeps, Zenon
<1>3. Base(w) = u
  BY <1>1, CleanBase, Zenon
<1>4. w \in Windows
  BY <1>2 DEF CursorOnly, SameCursor
<1> QED  BY <1>2, <1>3, <1>4, Zenon DEF Holds

LEMMA HoldsBase ==
  ASSUME NEW w, NEW line, NEW erased, Holds(w, line, erased)
  PROVE  CursorOnly(w, Base(w)) /\ LineFits(line) /\ Clean(Base(w))
<1>1. PICK u : u = Base(w) /\ Editing(u, line, erased)
  BY Zenon DEF Holds
<1>2. PICK v \in BOOLEAN : w = DrawCursor(u, v)
  BY <1>1, Zenon DEF Holds
<1>3. CursorOnly(w, u)
  BY <1>1, <1>2, CursorDrawn, Zenon
<1>4. LineFits(line) /\ Clean(u)
  BY <1>1, EditingFits, Zenon
<1> QED  BY <1>1, <1>3, <1>4, Zenon

\* The cells before the cursor show the line and, before it, the prompt; the
\* cells behind the cursor are empty.
ShownAt(w, line, erased, x, y, n) ==
  /\ w \in Windows /\ w.x = x /\ w.y = y /\ <<x, y>> \in Cells
  /\ line \in Seq(Chars) /\ Len(line) = n /\ n < kColumns /\ x - n \in {0, 1}
  /\ \A i \in 1..n : w.cells[<<x - n + i - 1, y>>] = Glyph(line[i])
  /\ ~erased => x = n + 1 /\ w.cells[<<0, y>>] = {">"}
  /\ \A a \in 0..kColumns : a > x => w.cells[<<a, y>>] = {}
  /\ \A c \in Cells : "cursor" \in w.cells[c] => c = <<x, y>> /\ w.cells[c] = {"cursor"}

LEMMA HoldsShows ==
  ASSUME NEW w, NEW line, NEW erased, Holds(w, line, erased)
  PROVE  \E x \in 0..kColumns, y \in 0..(kRows - 1), n \in Nat : ShownAt(w, line, erased, x, y, n)
<1>1. PICK u : u = Base(w) /\ Editing(u, line, erased)
  BY Zenon DEF Holds
<1>2. PICK x \in 0..kColumns, y \in 0..(kRows - 1), n \in Nat : EditAt(u, line, erased, x, y, n)
  BY <1>1 DEF Editing
<1>3. CursorOnly(w, u) /\ Clean(u) /\ w \in Windows
  BY <1>1, HoldsBase, Zenon DEF Holds
<1>4. /\ u.x = x /\ u.y = y /\ line \in Seq(Chars) /\ Len(line) = n /\ n < kColumns
      /\ x - n \in {0, 1}
  BY <1>2 DEF EditAt
<1>5. w.x = x /\ w.y = y /\ \A c \in Cells : c # <<x, y>> => w.cells[c] = u.cells[c]
  BY <1>3, <1>4 DEF CursorOnly, SameCursor
<1>6. PICK k \in {0, 1} : k = x - n
  BY <1>4
<1>7. ASSUME NEW i \in 1..n PROVE w.cells[<<x - n + i - 1, y>>] = Glyph(line[i])
  <2>1. k + i - 1 \in 0..kColumns /\ k + i - 1 # x
    <3>1. k >= 0 /\ x = k + n /\ i >= 1 /\ i <= n
      BY <1>6
    <3> QED  BY <3>1, BoundsAre
  <2>2. PICK j \in 0..kColumns : j = k + i - 1 /\ j # x
    BY <2>1
  <2>3. u.cells[<<j, y>>] = Glyph(line[i])
    BY <1>2, <1>6, <2>2 DEF EditAt
  <2>4. <<j, y>> \in Cells /\ <<j, y>> # <<x, y>>
    BY <2>2, CellIs
  <2>5. w.cells[<<j, y>>] = Glyph(line[i])
    BY <1>5, <2>3, <2>4, Zenon
  <2> QED  BY <1>6, <2>2, <2>5
<1>8. ~erased => x = n + 1 /\ w.cells[<<0, y>>] = {">"}
  <2> SUFFICES ASSUME ~erased PROVE x = n + 1 /\ w.cells[<<0, y>>] = {">"}
    OBVIOUS
  <2>1. x = n + 1 /\ u.cells[<<0, y>>] = {">"}
    BY <1>2 DEF EditAt
  <2>2. 0 \in 0..kColumns /\ 0 # x
    BY <2>1, BoundsAre
  <2>3. <<0, y>> \in Cells /\ <<0, y>> # <<x, y>>
    BY <2>2, CellIs
  <2> QED  BY <1>5, <2>1, <2>3
<1>9. ASSUME NEW a \in 0..kColumns, a > x PROVE w.cells[<<a, y>>] = {}
  <2>1. PICK c : c = <<a, y>> /\ c \in Cells /\ c[1] = a /\ c[2] = y
    <3>1. <<a, y>> \in Cells /\ <<a, y>>[1] = a /\ <<a, y>>[2] = y
      BY CellIs, Zenon
    <3> QED  BY <3>1, Zenon
  <2>2. c # <<x, y>>
    BY <1>9, <2>1
  <2>3. Free(u, c)
    BY <1>4, <1>9, <2>1 DEF Free
  <2>4. u.cells[c] = {}
    BY <1>3, <2>1, <2>3 DEF Clean
  <2> QED  BY <1>5, <2>1, <2>2, <2>4
<1>10. ASSUME NEW c \in Cells, "cursor" \in w.cells[c]
       PROVE  c = <<x, y>> /\ w.cells[c] = {"cursor"}
  <2>1. "cursor" \notin u.cells[c]
    BY <1>3 DEF Clean
  <2>2. c = <<x, y>>
    BY <1>5, <1>10, <2>1
  <2>3. PICK v \in BOOLEAN : w = DrawCursor(u, v)
    BY <1>1, Zenon DEF Holds
  <2>4. u \in Windows
    BY <1>3 DEF Clean
  <2>5. (v => w.cells[<<u.x, u.y>>] = {"cursor"}) /\ (~v => w.cells[<<u.x, u.y>>] = {})
    BY <2>3, <2>4, DrawCursorMark, Zenon
  <2>6. <<u.x, u.y>> = c
    BY <1>4, <2>2
  <2>7. CASE v
    BY <2>2, <2>5, <2>6, <2>7
  <2>8. CASE ~v
    BY <1>10, <2>5, <2>6, <2>8
  <2> QED  BY <2>7, <2>8
<1>11. <<x, y>> \in Cells
  BY CellIs
<1>12. ShownAt(w, line, erased, x, y, n)
  BY <1>3, <1>4, <1>5, <1>7, <1>8, <1>9, <1>10, <1>11, Zenon DEF ShownAt
<1> QED  BY <1>12

-----------------------------------------------------------------------------
(* The command history *)

TypedLines == Seq(Chars)

\* The inductive invariant's part about the history.  Once a line was entered
\* the history has its full length.
HistoryHeld ==
  /\ cmd_history_ \in Seq(TypedLines) /\ Len(cmd_history_) \in {0, kHistory}
  /\ \A i \in 1..Len(cmd_history_) : LineFits(cmd_history_[i])
  /\ cmd_history_index_ \in -1..(Len(cmd_history_) - 1)
  /\ entered \in Seq(TypedLines)
  /\ entered # <<>> => Len(cmd_history_) = kHistory
  /\ HistoryKeepsLines

LEMMA EmptyFits == LineFits(<<>>) /\ <<>> \in TypedLines
BY BoundsAre DEF LineFits, TypedLines

LEMMA ResizedIs ==
  ASSUME NEW h \in Seq(TypedLines), NEW r, r = Resized(h)
  PROVE  /\ r \in Seq(TypedLines) /\ Len(r) = kHistory
         /\ \A i \in 1..kHistory : (i <= Len(h) => r[i] = h[i]) /\ (i > Len(h) => r[i] = <<>>)
<1>1. <<>> \in TypedLines
  BY EmptyFits
<1>2. kHistory \in Nat
  BY BoundsAre
<1>3. \A i \in 1..kHistory : (IF i <= Len(h) THEN h[i] ELSE <<>>) \in TypedLines
  BY <1>1, <1>2
<1>4. r = [i \in 1..kHistory |-> IF i <= Len(h) THEN h[i] ELSE <<>>]
  BY DEF Resized
<1>5. r \in Seq(TypedLines) /\ Len(r) = kHistory
  BY <1>2, <1>3, <1>4
<1>6. ASSUME NEW i \in 1..kHistory
      PROVE  (i <= Len(h) => r[i] = h[i]) /\ (i > Len(h) => r[i] = <<>>)
  BY <1>2, <1>4
<1> QED  BY <1>5, <1>6

\* An accepted line comes first; the others move back by one.
LEMMA RememberedIs ==
  ASSUME NEW line \in TypedLines, cmd_history_ \in Seq(TypedLines), NEW n \in Nat, n = Len(cmd_history_),
         NEW h \in Remembered(line)
  PROVE  /\ h \in Seq(TypedLines)
         /\ n > 0 => /\ Len(h) = n /\ h[1] = line
                     /\ \A i \in 2..n : h[i] = cmd_history_[i - 1]
         /\ n = 0 => \A i \in 1..Len(h) : h[i] = line
<1>1. CASE cmd_history_ = <<>>
  <2>1. n = 0 /\ h \in {<<>>, <<line>>}
    BY <1>1 DEF Remembered
  <2>2. CASE h = <<>>
    BY <2>1, <2>2
  <2>3. CASE h = <<line>>
    <3>1. h \in Seq(TypedLines) /\ Len(h) = 1 /\ h[1] = line
      BY <2>3, Singleton
    <3> QED  BY <2>1, <3>1
  <2> QED  BY <2>1, <2>2, <2>3
<1>2. CASE cmd_history_ # <<>>
  <2>1. n > 0 /\ n - 1 \in Nat
    BY <1>2
  <2>2. PICK f : f = SubSeq(cmd_history_, 1, n - 1)
    OBVIOUS
  <2>3. f \in Seq(TypedLines) /\ Len(f) = n - 1 /\ \A i \in 1..(n - 1) : f[i] = cmd_history_[i]
    BY <2>1, <2>2
  <2>4. h = <<line>> \o f
    BY <1>2, <2>2 DEF Remembered, Front
  <2>5. PICK a \in Seq(TypedLines) : a = <<line>> /\ Len(a) = 1 /\ a[1] = line
    BY Singleton
  <2>6. h = a \o f
    BY <2>4, <2>5
  <2>7. h \in Seq(TypedLines) /\ Len(h) = n /\ h[1] = line
    BY <2>1, <2>3, <2>5, <2>6
  <2>8. ASSUME NEW i \in 2..n PROVE h[i] = cmd_history_[i - 1]
    <3>1. i - 1 \in 1..(n - 1)
      OBVIOUS
    <3>2. h[i] = f[i - 1]
      BY <2>3, <2>5, <2>6, <3>1
    <3> QED  BY <2>3, <3>1, <3>2
  <2> QED  BY <2>1, <2>7, <2>8
<1> QED  BY <1>1, <1>2

\* Enter on an empty line keeps the history.
LEMMA EnterEmptyHistory ==
  ASSUME HistoryHeld, cmd_history_' = Resized(cmd_history_), UNCHANGED entered,
         cmd_history_index_' = -1
  PROVE  HistoryHeld'
<1>1. PICK h \in Seq(TypedLines) : h = cmd_history_
  BY DEF HistoryHeld
<1>2. PICK r : r = cmd_history_'
  OBVIOUS
<1>3. /\ r \in Seq(TypedLines) /\ Len(r) = kHistory
      /\ \A i \in 1..kHistory : (i <= Len(h) => r[i] = h[i]) /\ (i > Len(h) => r[i] = <<>>)
  BY <1>1, <1>2, ResizedIs
<1>4. Len(h) \in {0, kHistory} /\ kHistory \in Nat /\ kHistory > 0
  BY <1>1, BoundsAre DEF HistoryHeld
<1>5. ASSUME NEW i \in 1..Len(r) PROVE LineFits(r[i])
  <2>1. CASE i <= Len(h)
    <3>1. i \in 1..Len(h) /\ r[i] = h[i]
      BY <1>3, <1>4, <2>1
    <3> QED  BY <1>1, <3>1 DEF HistoryHeld
  <2>2. CASE i > Len(h)
    <3>1. r[i] = <<>>
      BY <1>3, <1>4, <2>2
    <3> QED  BY <3>1, EmptyFits
  <2> QED  BY <1>4, <2>1, <2>2
<1>6. PICK e \in Seq(TypedLines) : e = entered
  BY DEF HistoryHeld
<1>7. ASSUME NEW i \in 1..Len(e), i < Len(e), i <= kHistory PROVE r[i] = e[i]
  <2>1. e # <<>> /\ Len(h) = kHistory
    BY <1>1, <1>6, <1>7 DEF HistoryHeld
  <2>2. h[i] = e[i]
    BY <1>1, <1>6, <1>7 DEF HistoryHeld, HistoryKeepsLines
  <2>3. r[i] = h[i]
    BY <1>3, <1>4, <1>7, <2>1
  <2> QED  BY <2>2, <2>3
<1>8. HistoryKeepsLines'
  BY <1>2, <1>6, <1>7 DEF HistoryKeepsLines
<1>9. -1 \in -1..(Len(r) - 1)
  BY <1>3, <1>4
<1> QED  BY <1>2, <1>3, <1>5, <1>6, <1>8, <1>9 DEF HistoryHeld

\* Enter on a line puts it in front of the history.
LEMMA EnterLineHistory ==
  ASSUME HistoryHeld, LineFits(linebuf_), NEW h \in Remembered(linebuf_),
         cmd_history_' = Resized(h), entered' = <<linebuf_>> \o entered,
         cmd_history_index_' = -1
  PROVE  HistoryHeld'
<1>1. PICK line \in TypedLines : line = linebuf_ /\ LineFits(line)
  BY DEF LineFits, TypedLines
<1>2. PICK old \in Seq(TypedLines) : old = cmd_history_
  BY DEF HistoryHeld
<1>3. PICK n \in Nat : n = Len(old) /\ n \in {0, kHistory}
  BY <1>2 DEF HistoryHeld
<1>4. /\ h \in Seq(TypedLines)
      /\ n > 0 => /\ Len(h) = n /\ h[1] = line
                  /\ \A i \in 2..n : h[i] = old[i - 1]
      /\ n = 0 => \A i \in 1..Len(h) : h[i] = line
  BY <1>1, <1>2, <1>3, RememberedIs
<1>5. PICK r : r = cmd_history_'
  OBVIOUS
<1>6. /\ r \in Seq(TypedLines) /\ Len(r) = kHistory
      /\ \A i \in 1..kHistory : (i <= Len(h) => r[i] = h[i]) /\ (i > Len(h) => r[i] = <<>>)
  BY <1>4, <1>5, ResizedIs
<1>7. kHistory \in Nat /\ kHistory > 0
  BY BoundsAre
<1>8. ASSUME NEW i \in 1..Len(r) PROVE LineFits(r[i])
  <2>1. CASE i > Len(h)
    <3>1. r[i] = <<>>
      BY <1>6, <1>7, <2>1
    <3> QED  BY <3>1, EmptyFits
  <2>2. CASE i <= Len(h) /\ n = 0
    <3>1. r[i] = line
      BY <1>4, <1>6, <1>7, <2>2
    <3> QED  BY <1>1, <3>1
  <2>3. CASE i <= Len(h) /\ n > 0 /\ i = 1
    <3>1. r[i] = line
      BY <1>4, <1>6, <1>7, <2>3
    <3> QED  BY <1>1, <3>1
  <2>4. CASE i <= Len(h) /\ n > 0 /\ i # 1
    <3>1. i \in 2..n /\ i - 1 \in 1..n
      BY <1>4, <1>6, <1>7, <2>4
    <3>2. r[i] = old[i - 1]
      BY <1>4, <1>6, <1>7, <2>4, <3>1
    <3>3. LineFits(old[i - 1])
      BY <1>2, <1>3, <3>1 DEF HistoryHeld
    <3> QED  BY <3>2, <3>3
  <2>5. i \in Nat /\ Len(h) \in Nat
    BY <1>4
  <2> QED  BY <2>1, <2>2, <2>3, <2>4, <2>5
<1>9. PICK e \in Seq(TypedLines) : e = entered
  BY DEF HistoryHeld
<1>10. PICK a \in Seq(TypedLines) : a = <<line>> /\ Len(a) = 1 /\ a[1] = line
  BY Singleton
<1>11. PICK f : f = entered' /\ f = a \o e
  BY <1>1, <1>9, <1>10
<1>12. /\ f \in Seq(TypedLines) /\ Len(f) = Len(e) + 1 /\ f[1] = line
       /\ \A i \in 1..Len(e) : f[i + 1] = e[i]
  BY <1>9, <1>10, <1>11
<1>13. ASSUME NEW i \in 1..Len(f), i < Len(f), i <= kHistory PROVE r[i] = f[i]
  <2>1. e # <<>> /\ Len(e) \in Nat /\ i <= Len(e)
    BY <1>12, <1>13
  <2>2. n = kHistory
    BY <1>2, <1>3, <1>9, <2>1 DEF HistoryHeld
  <2>3. r[i] = h[i]
    BY <1>4, <1>6, <1>7, <1>13, <2>2
  <2>4. CASE i = 1
    BY <1>4, <1>7, <1>12, <2>2, <2>3, <2>4
  <2>5. CASE i # 1
    <3>1. PICK j \in 1..Len(e) : j = i - 1 /\ j < Len(e) /\ j <= kHistory /\ i = j + 1
      BY <1>7, <1>13, <2>1, <2>5
    <3>2. i \in 2..n
      BY <1>13, <2>2, <2>5
    <3>3. h[i] = old[j]
      BY <1>4, <1>7, <2>2, <3>1, <3>2
    <3>4. old[j] = e[j]
      BY <1>2, <1>9, <3>1 DEF HistoryHeld, HistoryKeepsLines
    <3> QED  BY <1>12, <2>3, <3>1, <3>3, <3>4
  <2> QED  BY <2>4, <2>5
<1>14. HistoryKeepsLines'
  BY <1>5, <1>11, <1>13 DEF HistoryKeepsLines
<1>15. -1 \in -1..(Len(r) - 1)
  BY <1>6, <1>7
<1> QED  BY <1>5, <1>6, <1>8, <1>11, <1>12, <1>14, <1>15 DEF HistoryHeld

LEMMA HistoryKept ==
  ASSUME HistoryHeld, UNCHANGED <<cmd_history_, entered>>,
         cmd_history_index_' \in -1..(Len(cmd_history_) - 1)
  PROVE  HistoryHeld'
<1>1. HistoryKeepsLines'
  BY DEF HistoryHeld, HistoryKeepsLines
<1> QED  BY <1>1 DEF HistoryHeld

-----------------------------------------------------------------------------
(* The screen *)

Areas == SUBSET Cells

\* The inductive invariant's part about the screen.
ScreenHeld ==
  /\ screen \in [Cells -> SUBSET Marks]
  /\ areas \in Seq(Areas) /\ Len(areas) <= MaxPending
  /\ keys \in 0..MaxKeys
  /\ ScreenCatchesUp

\* The cell of a prompt that was erased.
Gap == {c \in {<<0, window.y>>} : prompt_erased}

\* The area a handler sends covers what the handler changed.
Covered(area, old, new) ==
  \A c \in Text : c \notin area => new.cells[c] = old.cells[c] \/ c \in Gap

LEMMA AreaSent ==
  ASSUME ScreenHeld, NEW area \in Areas, SendArea(area), Covered(area, window, window'),
         area = Text \/ Gap \subseteq Gap'
  PROVE  ScreenHeld'
<1>1. PICK s \in Seq(Areas) : s = areas
  BY DEF ScreenHeld
<1>2. PICK t : t = areas' /\ t = Append(s, area)
  BY <1>1 DEF SendArea
<1>3. t \in Seq(Areas) /\ Len(t) = Len(s) + 1 /\ t[Len(t)] = area /\ \A i \in 1..Len(s) : t[i] = s[i]
  BY <1>2, AppendProperties
<1>4. Len(s) < MaxPending /\ keys < MaxKeys /\ keys' = keys + 1 /\ screen' = screen
  BY <1>1 DEF SendArea
<1>5. Len(t) <= MaxPending
  BY <1>3, <1>4, BoundsAre
<1>6. keys' \in 0..MaxKeys
  BY <1>4, BoundsAre DEF ScreenHeld
<1>7. ASSUME NEW c \in Text
      PROVE  \/ screen'[c] = window'.cells[c]
             \/ \E i \in 1..Len(t) : c \in t[i]
             \/ c \in Gap'
  <2>1. CASE c \in area
    <3>1. Len(t) \in 1..Len(t)
      BY <1>3
    <3> QED  BY <1>3, <2>1, <3>1
  <2>2. CASE c \notin area /\ c \in Gap
    BY <2>2
  <2>3. CASE c \notin area /\ c \notin Gap
    <3>1. window'.cells[c] = window.cells[c]
      BY <2>3 DEF Covered
    <3>2. screen[c] = window.cells[c] \/ \E i \in 1..Len(s) : c \in s[i]
      BY <1>1, <2>3 DEF ScreenHeld, ScreenCatchesUp, Gap
    <3>3. CASE screen[c] = window.cells[c]
      BY <1>4, <3>1, <3>3
    <3>4. CASE \E i \in 1..Len(s) : c \in s[i]
      <4>1. PICK i \in 1..Len(s) : c \in s[i]
        BY <3>4
      <4>2. i \in 1..Len(t) /\ t[i] = s[i]
        BY <1>3
      <4> QED  BY <4>1, <4>2
    <3> QED  BY <3>2, <3>3, <3>4
  <2> QED  BY <2>1, <2>2, <2>3
<1>8. ScreenCatchesUp'
  BY <1>2, <1>7 DEF ScreenCatchesUp, Gap
<1> QED  BY <1>2, <1>3, <1>4, <1>5, <1>6, <1>8 DEF ScreenHeld

\* Main draws the oldest area as the window is by now.
LEMMA MainDrawsScreen ==
  ASSUME ScreenHeld, window \in Windows, MainDrawsArea
  PROVE  ScreenHeld'
<1>1. PICK s \in Seq(Areas) : s = areas
  BY DEF ScreenHeld
<1>2. PICK w \in Windows : w = window
  OBVIOUS
<1>3. w.cells \in [Cells -> SUBSET Marks]
  BY WindowIs
<1>4. /\ s # <<>> /\ window' = w /\ keys' = keys /\ prompt_erased' = prompt_erased
      /\ screen' = [c \in Cells |-> IF c \in Head(s) THEN w.cells[c] ELSE screen[c]]
  BY <1>1, <1>2 DEF MainDrawsArea, lineVars
<1>5. PICK t : t = areas' /\ t = Tail(s)
  BY <1>1 DEF MainDrawsArea
<1>6. t \in Seq(Areas) /\ Len(t) = Len(s) - 1 /\ \A i \in 1..Len(t) : t[i] = s[i + 1]
  BY <1>4, <1>5
<1>7. Head(s) = s[1] /\ Len(s) >= 1
  BY <1>4
<1>8. screen' \in [Cells -> SUBSET Marks]
  BY <1>3, <1>4 DEF ScreenHeld
<1>9. ASSUME NEW c \in Text
      PROVE  \/ screen'[c] = w.cells[c]
             \/ \E i \in 1..Len(t) : c \in t[i]
             \/ prompt_erased /\ c = <<0, w.y>>
  <2>1. c \in Cells
    BY DEF Text
  <2>2. CASE c \in Head(s)
    BY <1>4, <2>1, <2>2
  <2>3. CASE c \notin Head(s)
    <3>1. screen'[c] = screen[c]
      BY <1>4, <2>1, <2>3
    <3>2. \/ screen[c] = w.cells[c] \/ \E i \in 1..Len(s) : c \in s[i]
          \/ (prompt_erased /\ c = <<0, w.y>>)
      BY <1>1, <1>2 DEF ScreenHeld, ScreenCatchesUp
    <3>3. CASE \E i \in 1..Len(s) : c \in s[i]
      <4>1. PICK i \in 1..Len(s) : c \in s[i]
        BY <3>3
      <4>2. i # 1
        BY <1>7, <2>3, <4>1
      <4>3. PICK j \in 1..Len(t) : j = i - 1 /\ i = j + 1
        BY <1>6, <4>2
      <4>4. c \in t[j]
        BY <1>6, <4>1, <4>3
      <4> QED  BY <4>4
    <3> QED  BY <3>1, <3>2, <3>3
  <2> QED  BY <2>2, <2>3
<1>10. ScreenCatchesUp'
  BY <1>2, <1>4, <1>5, <1>9 DEF ScreenCatchesUp
<1>11. Len(t) <= MaxPending
  BY <1>1, <1>6, <1>7, BoundsAre DEF ScreenHeld
<1> QED  BY <1>4, <1>5, <1>6, <1>8, <1>10, <1>11 DEF ScreenHeld

-----------------------------------------------------------------------------
(* The inductive invariant *)

WindowHeld ==
  /\ Holds(window, linebuf_, prompt_erased)
  /\ cursor_visible_ \in BOOLEAN /\ prompt_erased \in BOOLEAN

TerminalIInv == WindowHeld /\ HistoryHeld /\ ScreenHeld

\* What InputKey starts from: the window without its cursor.
ErasedIs(u) ==
  /\ u = Base(window) /\ u = Erased /\ Editing(u, linebuf_, prompt_erased)
  /\ Clean(u) /\ u \in Windows /\ CursorOnly(window, u) /\ u.x = window.x /\ u.y = window.y

LEMMA KeyStarts ==
  ASSUME WindowHeld
  PROVE  \E u : ErasedIs(u)
<1>1. PICK u : u = Base(window)
  OBVIOUS
<1>2. Holds(window, linebuf_, prompt_erased)
  BY DEF WindowHeld
<1>3. Editing(u, linebuf_, prompt_erased)
  BY <1>1, <1>2, Zenon DEF Holds
<1>4. CursorOnly(window, u) /\ Clean(u)
  BY <1>1, <1>2, HoldsBase, Zenon
<1>5. u.x = window.x /\ u.y = window.y /\ u \in Windows
  BY <1>4 DEF CursorOnly, SameCursor, Clean
<1>6. u = Erased
  BY <1>1 DEF Erased, Base
<1>7. ErasedIs(u)
  BY <1>1, <1>3, <1>4, <1>5, <1>6, Zenon DEF ErasedIs
<1> QED  BY <1>7

\* m with a cursor in place of u with a cursor.
LEMMA CoverIs ==
  ASSUME NEW w, NEW u, CursorOnly(w, u), NEW n, NEW m, CursorOnly(n, m), NEW area,
         \A c \in Text : c \notin area =>
            \/ c \in Gap
            \/ m.cells[c] = u.cells[c] /\ c # <<u.x, u.y>> /\ c # <<m.x, m.y>>
  PROVE  Covered(area, w, n)
<1> SUFFICES ASSUME NEW c \in Text, c \notin area
    PROVE  n.cells[c] = w.cells[c] \/ c \in Gap
  BY DEF Covered
<1>1. c \in Cells
  BY DEF Text
<1>2. CASE m.cells[c] = u.cells[c] /\ c # <<u.x, u.y>> /\ c # <<m.x, m.y>>
  <2>1. w.cells[c] = u.cells[c] /\ n.cells[c] = m.cells[c]
    BY <1>1, <1>2, Zenon DEF CursorOnly
  <2> QED  BY <1>2, <2>1, Zenon
<1> QED  BY <1>2, Zenon

\* The area that begins at the cursor.
LEMMA TwoCellsIs ==
  ASSUME NEW w \in Windows
  PROVE  /\ TwoCells(w) \in Areas /\ <<w.x, w.y>> \in TwoCells(w)
         /\ w.x < kColumns => <<w.x + 1, w.y>> \in TwoCells(w)
<1>1. PICK x \in 0..kColumns, y \in 0..(kRows - 1) : x = w.x /\ y = w.y
  BY WindowIs
<1>2. TwoCells(w) = {c \in Cells : c[2] = y /\ x <= c[1] /\ c[1] < x + 2}
  BY <1>1 DEF TwoCells, Columns
<1>3. <<x, y>> \in Cells /\ <<x, y>>[1] = x /\ <<x, y>>[2] = y
  BY CellIs
<1>4. x <= x /\ x < x + 2
  OBVIOUS
<1>5. <<x, y>> \in TwoCells(w)
  BY <1>2, <1>3, <1>4
<1>6. ASSUME x < kColumns PROVE <<x + 1, y>> \in TwoCells(w)
  <2>1. PICK z \in 0..kColumns : z = x + 1
    BY <1>6, BoundsAre
  <2>2. <<z, y>> \in Cells /\ <<z, y>>[1] = z /\ <<z, y>>[2] = y
    BY CellIs
  <2>3. x <= z /\ z < x + 2
    BY <2>1
  <2>4. <<z, y>> \in TwoCells(w)
    BY <1>2, <2>2, <2>3
  <2> QED  BY <2>1, <2>4
<1>7. TwoCells(w) \in Areas
  BY <1>2 DEF Areas
<1> QED  BY <1>1, <1>5, <1>6, <1>7

\* A key that only draws the cursor again, and its timer.
LEMMA CursorRedrawn ==
  ASSUME TerminalIInv, NEW u, ErasedIs(u), NEW v \in BOOLEAN, window' = DrawCursor(u, v),
         NEW area \in Areas, <<u.x, u.y>> \in area, SendArea(area),
         UNCHANGED lineVars, cursor_visible_' \in BOOLEAN
  PROVE  TerminalIInv'
<1>1. /\ linebuf_' = linebuf_ /\ prompt_erased' = prompt_erased /\ entered' = entered
      /\ cmd_history_' = cmd_history_ /\ cmd_history_index_' = cmd_history_index_
  BY DEF lineVars
<1>2. PICK w : w = window'
  OBVIOUS
<1>3. Holds(w, linebuf_, prompt_erased) /\ CursorOnly(w, u)
  BY <1>2, CursorDrawn, Zenon DEF ErasedIs
<1>4. WindowHeld'
  BY <1>1, <1>2, <1>3 DEF WindowHeld, TerminalIInv
<1>5. HistoryHeld'
  BY <1>1, HistoryKept DEF TerminalIInv, HistoryHeld
<1>6. Covered(area, window, w)
  <2>1. CursorOnly(window, u)
    BY DEF ErasedIs
  <2>2. \A c \in Text : c \notin area => u.cells[c] = u.cells[c] /\ c # <<u.x, u.y>>
    OBVIOUS
  <2> QED  BY <1>3, <2>1, <2>2, CoverIs, Zenon
<1>7. Gap \subseteq Gap'
  <2>1. w.y = u.y /\ u.y = window.y
    BY <1>3 DEF CursorOnly, SameCursor, ErasedIs
  <2> QED  BY <1>1, <1>2, <2>1 DEF Gap
<1>8. ScreenHeld'
  BY <1>2, <1>6, <1>7, AreaSent DEF TerminalIInv
<1> QED  BY <1>4, <1>5, <1>8 DEF TerminalIInv

LEMMA OtherKeyIInv ==
  ASSUME TerminalIInv, OtherKey
  PROVE  TerminalIInv'
<1>1. PICK u : ErasedIs(u)
  BY KeyStarts DEF TerminalIInv
<1>2. u = Erased /\ u \in Windows
  BY <1>1 DEF ErasedIs
<1>3. TwoCells(u) \in Areas /\ <<u.x, u.y>> \in TwoCells(u)
  BY <1>2, TwoCellsIs, Zenon
<1>4. window' = DrawCursor(u, TRUE) /\ SendArea(TwoCells(u)) /\ UNCHANGED lineVars
  BY <1>2 DEF OtherKey
<1>5. cursor_visible_' \in BOOLEAN
  BY DEF OtherKey, TerminalIInv, WindowHeld
<1> QED  BY <1>1, <1>3, <1>4, <1>5, CursorRedrawn, Zenon

LEMMA BlinkCursorIInv ==
  ASSUME TerminalIInv, BlinkCursor
  PROVE  TerminalIInv'
<1>1. PICK u : ErasedIs(u)
  BY KeyStarts DEF TerminalIInv
<1>2. u \in Windows /\ u = Base(window) /\ u.x = window.x /\ u.y = window.y
  BY <1>1 DEF ErasedIs
<1>3. PICK b \in BOOLEAN : b = cursor_visible_'
  BY DEF BlinkCursor
<1>4. PICK v \in BOOLEAN : window = DrawCursor(u, v)
  BY <1>2, Zenon DEF TerminalIInv, WindowHeld, Holds
<1>5. window' = DrawCursor(u, b)
  <2>1. window' = DrawCursor(DrawCursor(u, v), b)
    BY <1>3, <1>4 DEF BlinkCursor
  <2>2. DrawCursor(DrawCursor(u, v), b) = DrawCursor(u, b)
    BY <1>2, DrawCursorTwice
  <2> QED  BY <2>1, <2>2, Zenon
<1>6. PICK area : area = {<<u.x, u.y>>}
  OBVIOUS
<1>7. <<u.x, u.y>> \in Cells
  BY <1>2, WindowIs
<1>8. area \in Areas /\ <<u.x, u.y>> \in area
  BY <1>6, <1>7 DEF Areas
<1>9. SendArea(area) /\ UNCHANGED lineVars
  BY <1>2, <1>6 DEF BlinkCursor, cursor_
<1>10. cursor_visible_' \in BOOLEAN
  BY <1>3
<1> QED  BY <1>1, <1>5, <1>8, <1>9, <1>10, CursorRedrawn, Zenon

\* A key that changes the line: the window shows the new one and the area sent
\* covers what changed.
LEMMA LineChanged ==
  ASSUME TerminalIInv, NEW u, Editing(u, linebuf_', prompt_erased'), window' = DrawCursor(u, TRUE),
         prompt_erased' \in BOOLEAN, UNCHANGED cursor_visible_,
         HistoryHeld', NEW area \in Areas, SendArea(area),
         area = Text \/ (prompt_erased => prompt_erased' /\ u.y = window.y),
         \A w : CursorOnly(w, u) => Covered(area, window, w)
  PROVE  TerminalIInv'
<1>1. PICK w : w = window'
  OBVIOUS
<1>2. Holds(w, linebuf_', prompt_erased') /\ CursorOnly(w, u)
  BY <1>1, CursorDrawn, Zenon
<1>3. WindowHeld'
  BY <1>1, <1>2 DEF WindowHeld, TerminalIInv
<1>4. Covered(area, window, w)
  BY <1>2, Zenon
<1>5. area = Text \/ Gap \subseteq Gap'
  <2>1. w.y = u.y
    BY <1>2 DEF CursorOnly, SameCursor
  <2> QED  BY <1>1, <2>1 DEF Gap
<1>6. ScreenHeld'
  BY <1>1, <1>4, <1>5, AreaSent DEF TerminalIInv
<1> QED  BY <1>3, <1>6 DEF TerminalIInv

LEMMA TypeIInv ==
  ASSUME TerminalIInv, NEW a \in Chars, Type(a)
  PROVE  TerminalIInv'
<1>1. PICK u : ErasedIs(u)
  BY KeyStarts DEF TerminalIInv
<1>2. u = Erased /\ u \in Windows /\ u.x = window.x /\ Editing(u, linebuf_, prompt_erased) /\ Clean(u)
  BY <1>1 DEF ErasedIs
<1>3. TwoCells(u) \in Areas /\ <<u.x, u.y>> \in TwoCells(u)
      /\ (u.x < kColumns => <<u.x + 1, u.y>> \in TwoCells(u))
  BY <1>2, TwoCellsIs, Zenon
<1>4. /\ SendArea(TwoCells(u))
      /\ UNCHANGED <<cursor_visible_, cmd_history_, cmd_history_index_, entered, prompt_erased>>
  BY <1>2 DEF Type
<1>5. CASE ~Room
  <2>1. window' = DrawCursor(u, TRUE) /\ UNCHANGED linebuf_
    BY <1>2, <1>5 DEF Type
  <2>2. UNCHANGED lineVars /\ cursor_visible_' \in BOOLEAN
    BY <1>4, <2>1 DEF lineVars, TerminalIInv, WindowHeld
  <2> QED  BY <1>1, <1>3, <1>4, <2>1, <2>2, CursorRedrawn, Zenon
<1>6. CASE Room
  <2>1. linebuf_' = Append(linebuf_, a) /\ window' = DrawCursor(WriteNext(u, a), TRUE)
    BY <1>2, <1>6 DEF Type
  <2>2. PICK r : r = WriteNext(u, a)
    OBVIOUS
  <2>3. u.x < kColumns - 1
    BY <1>2, <1>6 DEF Room
  <2>4. Editing(r, Append(linebuf_, a), prompt_erased)
    BY <1>2, <2>2, <2>3, EditType, Zenon
  <2>5. u.x < kColumns
    <3>1. PICK x \in 0..kColumns : x = u.x
      BY <1>2, WindowIs
    <3> QED  BY <2>3, <3>1, BoundsAre
  <2>6. r.x = u.x + 1 /\ r.y = u.y /\ \A c \in Cells : c # <<u.x, u.y>> => r.cells[c] = u.cells[c]
    <3>1. a \in Drawable
      BY DEF Drawable
    <3>2. Written(r, u, a)
      BY <1>2, <2>2, <2>5, <3>1, WrittenIs
    <3> QED  BY <3>2 DEF Written
  <2>7. ASSUME NEW w, CursorOnly(w, r) PROVE Covered(TwoCells(u), window, w)
    <3>1. CursorOnly(window, u)
      BY <1>1 DEF ErasedIs
    <3>2. ASSUME NEW c \in Text, c \notin TwoCells(u)
          PROVE  r.cells[c] = u.cells[c] /\ c # <<u.x, u.y>> /\ c # <<r.x, r.y>>
      <4>1. c # <<u.x, u.y>> /\ c # <<u.x + 1, u.y>> /\ c \in Cells
        BY <1>3, <2>5, <3>2, Zenon DEF Text
      <4>2. <<r.x, r.y>> = <<u.x + 1, u.y>>
        BY <2>6, Zenon
      <4> QED  BY <2>6, <4>1, <4>2, Zenon
    <3> QED  BY <2>7, <3>1, <3>2, CoverIs, Zenon
  <2>8. Editing(r, linebuf_', prompt_erased') /\ window' = DrawCursor(r, TRUE)
    BY <1>4, <2>1, <2>2, <2>4, Zenon
  <2>9. HistoryHeld'
    BY <1>4, HistoryKept DEF TerminalIInv, HistoryHeld
  <2>10. prompt_erased' \in BOOLEAN /\ (prompt_erased => prompt_erased' /\ r.y = window.y)
    BY <1>1, <1>4, <2>6 DEF TerminalIInv, WindowHeld, ErasedIs
  <2> QED  BY <1>3, <1>4, <2>7, <2>8, <2>9, <2>10, LineChanged, Zenon
<1> QED  BY <1>5, <1>6

LEMMA BackspaceIInv ==
  ASSUME TerminalIInv, Backspace
  PROVE  TerminalIInv'
<1>1. PICK u : ErasedIs(u)
  BY KeyStarts DEF TerminalIInv
<1>2. u = Erased /\ u \in Windows /\ u.x = window.x /\ Editing(u, linebuf_, prompt_erased) /\ Clean(u)
  BY <1>1 DEF ErasedIs
<1>3. PICK x \in 0..kColumns, y \in 0..(kRows - 1) : x = u.x /\ y = u.y
  BY <1>2, WindowIs
<1>4. /\ UNCHANGED <<cursor_visible_, cmd_history_, cmd_history_index_, entered>>
      /\ prompt_erased' = (prompt_erased \/ (linebuf_ = <<>> /\ window.x > 0))
  BY DEF Backspace
<1>5. prompt_erased \in BOOLEAN /\ cursor_visible_ \in BOOLEAN
  BY DEF TerminalIInv, WindowHeld
<1>6. CASE ~(window.x > 0)
  <2>1. window' = DrawCursor(u, TRUE) /\ UNCHANGED linebuf_ /\ SendArea(TwoCells(u))
    BY <1>2, <1>6 DEF Backspace
  <2>2. prompt_erased' = prompt_erased
    BY <1>4, <1>5, <1>6, Zenon
  <2>3. UNCHANGED lineVars /\ cursor_visible_' \in BOOLEAN
    BY <1>4, <1>5, <2>1, <2>2 DEF lineVars
  <2>4. TwoCells(u) \in Areas /\ <<u.x, u.y>> \in TwoCells(u)
    BY <1>2, TwoCellsIs, Zenon
  <2> QED  BY <1>1, <2>1, <2>3, <2>4, CursorRedrawn, Zenon
<1>7. CASE window.x > 0
  <2>1. PICK m : m = [u EXCEPT !.x = u.x - 1]
    OBVIOUS
  <2>2. PICK r : r = FillRectangle(m, {<<m.x, m.y>>})
    OBVIOUS
  <2>3. PICK new : new = IF linebuf_ = <<>> THEN <<>> ELSE Front(linebuf_)
    OBVIOUS
  <2>4. window' = DrawCursor(r, TRUE) /\ linebuf_' = new /\ SendArea(TwoCells(m))
    BY <1>2, <1>7, <2>1, <2>2, <2>3 DEF Backspace, ErasedArea
  <2>5. u.x > 0
    BY <1>2, <1>7
  <2>6. (prompt_erased => prompt_erased') /\ (linebuf_ = <<>> => prompt_erased') /\ prompt_erased' \in BOOLEAN
    BY <1>4, <1>5, <1>7, Zenon
  <2>7. Editing(r, new, prompt_erased') /\ r.x = u.x - 1 /\ r.y = u.y
        /\ \A c \in Cells : c # <<r.x, r.y>> => r.cells[c] = u.cells[c]
    <3>1. PICK e : e = prompt_erased' /\ StillErased(prompt_erased, linebuf_, e)
      BY <2>6, Zenon DEF StillErased
    <3>2. SteppedBack(u, r) /\ new = Shortened(linebuf_)
      BY <2>1, <2>2, <2>3 DEF SteppedBack, Shortened
    <3>3. Editing(r, new, e) /\ EmptiedLast(u, r)
      BY <1>2, <2>5, <3>1, <3>2, EditBackspace, Zenon
    <3> QED  BY <3>1, <3>3, Zenon DEF EmptiedLast
  <2>8. PICK z \in 0..kColumns : z = x - 1
    <3>1. x > 0
      BY <1>3, <2>5
    <3> QED  BY <3>1, BoundsAre
  <2>9. m \in Windows /\ m.x = z /\ m.y = y /\ z < kColumns /\ z + 1 = x
    BY <1>2, <1>3, <2>1, <2>8, BoundsAre DEF Windows
  <2>10. TwoCells(m) \in Areas /\ <<z, y>> \in TwoCells(m) /\ <<x, y>> \in TwoCells(m)
    <3>1. TwoCells(m) \in Areas /\ <<m.x, m.y>> \in TwoCells(m)
          /\ (m.x < kColumns => <<m.x + 1, m.y>> \in TwoCells(m))
      BY <2>9, TwoCellsIs, Zenon
    <3> QED  BY <2>9, <3>1, Zenon
  <2>11. r.x = z /\ r.y = y
    BY <1>3, <2>7, <2>8
  <2>12. ASSUME NEW w, CursorOnly(w, r) PROVE Covered(TwoCells(m), window, w)
    <3>1. CursorOnly(window, u)
      BY <1>1 DEF ErasedIs
    <3>2. ASSUME NEW c \in Text, c \notin TwoCells(m)
          PROVE  r.cells[c] = u.cells[c] /\ c # <<u.x, u.y>> /\ c # <<r.x, r.y>>
      <4>1. c # <<z, y>> /\ c # <<x, y>> /\ c \in Cells
        BY <2>10, <3>2, Zenon DEF Text
      <4>2. <<r.x, r.y>> = <<z, y>> /\ <<u.x, u.y>> = <<x, y>>
        BY <1>3, <2>11, Zenon
      <4> QED  BY <2>7, <4>1, <4>2, Zenon
    <3> QED  BY <2>12, <3>1, <3>2, CoverIs, Zenon
  <2>13. HistoryHeld'
    BY <1>4, HistoryKept DEF TerminalIInv, HistoryHeld
  <2>14. prompt_erased => prompt_erased' /\ r.y = window.y
    BY <1>1, <2>6, <2>7 DEF ErasedIs
  <2> QED  BY <1>4, <2>4, <2>6, <2>7, <2>10, <2>12, <2>13, <2>14, LineChanged, Zenon
<1> QED  BY <1>6, <1>7

LEMMA HistoryUpDownIInv ==
  ASSUME TerminalIInv, NEW up \in BOOLEAN, HistoryUpDown(up)
  PROVE  TerminalIInv'
<1>1. PICK u : ErasedIs(u)
  BY KeyStarts DEF TerminalIInv
<1>2. /\ u = Erased /\ u \in Windows /\ u.x = window.x /\ u.y = window.y
      /\ Editing(u, linebuf_, prompt_erased) /\ Clean(u)
  BY <1>1 DEF ErasedIs
<1>3. PICK y \in 0..(kRows - 1) : y = u.y /\ y = window.y
  BY <1>2, WindowIs
<1>4. PICK d : d = Columns(1, y, kColumns - 1)
  OBVIOUS
<1>5. PICK s \in Seq(TypedLines) : s = cmd_history_
  BY DEF TerminalIInv, HistoryHeld
<1>6. PICK old \in -1..(Len(s) - 1) : old = cmd_history_index_
  BY <1>5 DEF TerminalIInv, HistoryHeld
<1>7. PICK index : index = IF up THEN IF old + 1 < Len(s) THEN old + 1 ELSE old
                           ELSE IF old >= 0 THEN old - 1 ELSE old
  OBVIOUS
<1>8. index \in -1..(Len(s) - 1)
  BY <1>7
<1>9. PICK h : h = IF index >= 0 THEN s[index + 1] ELSE <<>>
  OBVIOUS
<1>10. LineFits(h)
  <2>1. CASE index >= 0
    <3>1. PICK i \in 1..Len(s) : i = index + 1
      BY <1>8, <2>1
    <3>2. h = s[i]
      BY <1>9, <2>1, <3>1
    <3> QED  BY <1>5, <3>1, <3>2 DEF TerminalIInv, HistoryHeld
  <2>2. CASE ~(index >= 0)
    <3>1. h = <<>>
      BY <1>9, <2>2
    <3> QED  BY <3>1, EmptyFits
  <2> QED  BY <2>1, <2>2
<1>11. PICK w : w = [FillRectangle(u, d) EXCEPT !.x = 1]
  OBVIOUS
<1>12. PICK r : r = WriteAll(w, h)
  OBVIOUS
<1>13. /\ cmd_history_index_' = index /\ linebuf_' = h /\ window' = DrawCursor(r, TRUE)
       /\ SendArea(d) /\ UNCHANGED <<cursor_visible_, cmd_history_, entered, prompt_erased>>
  BY <1>2, <1>3, <1>4, <1>5, <1>6, <1>7, <1>9, <1>11, <1>12 DEF HistoryUpDown, WriteAll
<1>14. Editing(r, h, prompt_erased) /\ Recalled(u, h, y, Len(h), r)
  <2>1. w = [FillRectangle(u, Columns(1, u.y, kColumns - 1)) EXCEPT !.x = 1]
    BY <1>3, <1>4, <1>11
  <2>2. Editing(r, h, prompt_erased) /\ Recalled(u, h, u.y, Len(h), r)
    BY <1>2, <1>10, <1>12, <2>1, EditHistory, Zenon
  <2> QED  BY <1>3, <2>2
<1>15. PICK l \in Nat : l = Len(h)
  BY <1>10 DEF LineFits
<1>16. PICK x \in 0..kColumns, n \in Nat : x = u.x /\ (~prompt_erased => x = n + 1)
  <2>1. PICK x \in 0..kColumns, z \in 0..(kRows - 1), n \in Nat : EditAt(u, linebuf_, prompt_erased, x, z, n)
    BY <1>2, Zenon DEF Editing
  <2>2. x = u.x /\ (~prompt_erased => x = n + 1)
    BY <2>1 DEF EditAt
  <2> QED  BY <2>2
<1>17. ASSUME NEW c \in Text, c \notin d
       PROVE  \/ c \in Gap
              \/ r.cells[c] = u.cells[c] /\ c # <<u.x, u.y>> /\ c # <<r.x, r.y>>
  <2>1. c \in Cells /\ c[1] < kColumns
    BY DEF Text
  <2>2. PICK a \in 0..kColumns, b \in 0..(kRows - 1) : a = c[1] /\ b = c[2] /\ c = <<a, b>>
    BY <2>1, CellIs
  <2>3. ~(b = y /\ 1 <= a /\ a < 1 + (kColumns - 1))
    BY <1>4, <1>17, <2>1, <2>2 DEF Columns
  <2>4. b # y \/ a = 0
    BY <2>1, <2>2, <2>3, BoundsAre
  <2>5. r.cells[<<a, b>>] = u.cells[<<a, b>>] /\ r.x = l + 1 /\ r.y = y
    BY <1>14, <1>15, <2>4, Zenon DEF Recalled
  <2>6. l + 1 # 0
    BY <1>15
  <2>7. c # <<r.x, r.y>>
    BY <2>2, <2>4, <2>5, <2>6
  <2>8. CASE b # y
    <3>1. c # <<u.x, u.y>>
      BY <1>3, <2>2, <2>8
    <3> QED  BY <2>2, <2>5, <2>7, <3>1
  <2>9. CASE a = 0 /\ ~prompt_erased
    <3>1. u.x # 0
      BY <1>16, <2>9
    <3>2. c # <<u.x, u.y>>
      BY <2>2, <2>9, <3>1
    <3> QED  BY <2>2, <2>5, <2>7, <3>2
  <2>10. CASE a = 0 /\ b = y /\ prompt_erased
    BY <1>3, <2>2, <2>10 DEF Gap
  <2> QED  BY <2>4, <2>8, <2>9, <2>10
<1>18. ASSUME NEW v, CursorOnly(v, r) PROVE Covered(d, window, v)
  <2>1. CursorOnly(window, u)
    BY <1>1 DEF ErasedIs
  <2> QED  BY <1>17, <1>18, <2>1, CoverIs, Zenon
<1>19. d \in Areas
  BY <1>4 DEF Columns, Areas
<1>20. HistoryHeld'
  BY <1>5, <1>8, <1>13, HistoryKept DEF TerminalIInv
<1>21. Editing(r, linebuf_', prompt_erased') /\ window' = DrawCursor(r, TRUE)
  BY <1>13, <1>14, Zenon
<1>22. prompt_erased' \in BOOLEAN /\ (prompt_erased => prompt_erased' /\ r.y = window.y)
  BY <1>3, <1>13, <1>14 DEF TerminalIInv, WindowHeld, Recalled
<1> QED  BY <1>13, <1>18, <1>19, <1>20, <1>21, <1>22, LineChanged, Zenon

\* A prompt that was just printed has an empty line behind it.
LEMMA EditPrompt ==
  ASSUME NEW b, Clean(b), b.x = 1, b.cells[<<0, b.y>>] = {">"}, NEW erased
  PROVE  Editing(b, <<>>, erased)
<1>1. PICK y \in 0..(kRows - 1) : y = b.y
  BY WindowIs DEF Clean
<1>2. PICK line \in Seq(Chars) : line = <<>> /\ Len(line) = 0
  <2>1. <<>> \in Seq(Chars) /\ Len(<<>>) = 0
    OBVIOUS
  <2> QED  BY <2>1, Zenon
<1>3. PICK x \in 0..kColumns : x = 1 /\ x < kColumns
  BY BoundsAre
<1>4. PICK n \in Nat : n = 0 /\ n < kColumns
  BY BoundsAre
<1>5. x - n \in {0, 1} /\ x = n + 1 /\ 1..n = {}
  BY <1>3, <1>4
<1>6. EditAt(b, line, erased, x, y, n)
  BY <1>1, <1>2, <1>3, <1>4, <1>5 DEF EditAt
<1>7. Editing(b, line, erased)
  BY <1>6 DEF Editing
<1> QED  BY <1>2, <1>7, Zenon

LEMMA EnterIInv ==
  ASSUME TerminalIInv, Enter
  PROVE  TerminalIInv'
<1>1. PICK u : ErasedIs(u)
  BY KeyStarts DEF TerminalIInv
<1>2. u = Erased /\ Editing(u, linebuf_, prompt_erased) /\ Clean(u)
  BY <1>1 DEF ErasedIs
<1>3. LineFits(linebuf_)
  BY <1>2, EditingFits, Zenon
<1>4. PICK line \in Seq(Chars) : line = linebuf_
  BY <1>3 DEF LineFits
<1>5. PICK a : a = newline(u)
  OBVIOUS
<1>6. a \in Printing /\ a.x = 0
  BY <1>2, <1>5, NewlineIs
<1>7. PICK w : w = ExecuteLine(a, line)
  OBVIOUS
<1>8. w \in Windows /\ Base(w) \in Printing /\ Base(w).x = 0
  BY <1>6, <1>7, ExecuteLineIs
<1>9. PICK p : p = TerminalPrint(w, Prompt)
  OBVIOUS
<1>10. PICK b : b = Base(p)
  OBVIOUS
<1>11. p = DrawCursor(b, TRUE) /\ Clean(b) /\ b.x = 1 /\ b.cells[<<0, b.y>>] = {">"}
  BY <1>8, <1>9, <1>10, PromptPrinted
<1>12. window' = DrawCursor(p, TRUE)
  BY <1>2, <1>4, <1>5, <1>7, <1>9 DEF Enter
<1>13. window' = DrawCursor(b, TRUE)
  <2>1. b \in Windows
    BY <1>11 DEF Clean
  <2>2. DrawCursor(DrawCursor(b, TRUE), TRUE) = DrawCursor(b, TRUE)
    BY <2>1, DrawCursorTwice
  <2> QED  BY <1>11, <1>12, <2>2, Zenon
<1>14. /\ linebuf_' = <<>> /\ cmd_history_index_' = -1 /\ SendArea(Text)
       /\ prompt_erased' = FALSE /\ UNCHANGED cursor_visible_
  BY DEF Enter
<1>15. Editing(b, linebuf_', prompt_erased')
  <2>1. Editing(b, <<>>, FALSE)
    BY <1>11, EditPrompt
  <2> QED  BY <1>14, <2>1, Zenon
<1>16. HistoryHeld'
  <2>1. CASE linebuf_ = <<>>
    <3>1. cmd_history_' = Resized(cmd_history_) /\ UNCHANGED entered
      BY <2>1 DEF Enter
    <3> QED  BY <1>14, <3>1, EnterEmptyHistory DEF TerminalIInv
  <2>2. CASE linebuf_ # <<>>
    <3>1. PICK h \in Remembered(linebuf_) : cmd_history_' = Resized(h)
      BY <2>2 DEF Enter
    <3>2. entered' = <<linebuf_>> \o entered
      BY <2>2 DEF Enter
    <3> QED  BY <1>3, <1>14, <3>1, <3>2, EnterLineHistory DEF TerminalIInv
  <2> QED  BY <2>1, <2>2
<1>17. Text \in Areas /\ \A v : CursorOnly(v, b) => Covered(Text, window, v)
  BY DEF Text, Areas, Covered
<1>18. prompt_erased' \in BOOLEAN
  BY <1>14
<1> QED  BY <1>13, <1>14, <1>15, <1>16, <1>17, <1>18, LineChanged, Zenon

LEMMA MainDrawsAreaIInv ==
  ASSUME TerminalIInv, MainDrawsArea
  PROVE  TerminalIInv'
<1>1. UNCHANGED <<window, cursor_visible_, lineVars>>
  BY DEF MainDrawsArea
<1>2. /\ linebuf_' = linebuf_ /\ prompt_erased' = prompt_erased /\ entered' = entered
      /\ cmd_history_' = cmd_history_ /\ cmd_history_index_' = cmd_history_index_
      /\ window' = window /\ cursor_visible_' = cursor_visible_
  BY <1>1 DEF lineVars
<1>3. WindowHeld'
  BY <1>2 DEF WindowHeld, TerminalIInv
<1>4. HistoryHeld'
  BY <1>2, HistoryKept DEF TerminalIInv, HistoryHeld
<1>5. ScreenHeld'
  BY MainDrawsScreen DEF TerminalIInv, WindowHeld, Holds
<1> QED  BY <1>3, <1>4, <1>5 DEF TerminalIInv

LEMMA InitTerminalIInv ==
  ASSUME Init
  PROVE  TerminalIInv
<1>1. PICK f : f = [c \in Cells |-> {}]
  OBVIOUS
<1>2. f \in [Cells -> SUBSET Marks] /\ \A c \in Cells : f[c] = {}
  BY <1>1
<1>3. PICK w : w = [x |-> 0, y |-> 0, cells |-> f]
  OBVIOUS
<1>4. 0 \in 0..kColumns /\ 0 \in 0..(kRows - 1) /\ 0 < kColumns
  BY BoundsAre
<1>5. w \in Windows /\ w.x = 0 /\ w.cells = f
  BY <1>2, <1>3, <1>4 DEF Windows
<1>6. Clean(w) /\ w \in Printing
  BY <1>2, <1>4, <1>5 DEF Clean, Printing
<1>7. Base(w) = w
  BY <1>6, CleanBase
<1>8. window = TerminalPrint(w, Prompt)
  BY <1>1, <1>3 DEF Init
<1>9. PICK p : p = window
  OBVIOUS
<1>10. PICK b : b = Base(p)
  OBVIOUS
<1>11. p \in Windows /\ p = DrawCursor(b, TRUE) /\ Clean(b) /\ b.x = 1 /\ b.cells[<<0, b.y>>] = {">"}
  BY <1>5, <1>6, <1>7, <1>8, <1>9, <1>10, PromptPrinted
<1>12. Editing(b, <<>>, FALSE)
  BY <1>11, EditPrompt
<1>13. Holds(p, <<>>, FALSE)
  BY <1>11, <1>12, CursorDrawn, Zenon
<1>14. /\ screen = window.cells /\ cursor_visible_ = FALSE /\ linebuf_ = <<>> /\ cmd_history_ = <<>>
       /\ cmd_history_index_ = -1 /\ areas = <<>> /\ entered = <<>> /\ prompt_erased = FALSE /\ keys = 0
  BY DEF Init
<1>15. WindowHeld
  BY <1>9, <1>13, <1>14, Zenon DEF WindowHeld
<1>16. HistoryHeld
  <2>1. <<>> \in Seq(TypedLines) /\ Len(<<>>) = 0
    OBVIOUS
  <2>2. -1 \in -1..(0 - 1) /\ 1..0 = {}
    OBVIOUS
  <2> QED  BY <1>14, <2>1, <2>2 DEF HistoryHeld, HistoryKeepsLines
<1>17. ScreenHeld
  <2>1. window.cells \in [Cells -> SUBSET Marks]
    BY <1>9, <1>11, WindowIs
  <2>2. <<>> \in Seq(Areas) /\ Len(<<>>) = 0 /\ 0 <= MaxPending /\ 0 \in 0..MaxKeys
    BY BoundsAre
  <2>3. ScreenCatchesUp
    BY <1>14 DEF ScreenCatchesUp
  <2> QED  BY <1>14, <2>1, <2>2, <2>3 DEF ScreenHeld
<1> QED  BY <1>15, <1>16, <1>17 DEF TerminalIInv

LEMMA AlwaysTerminalIInv == Spec => []TerminalIInv
<1>1. Init => TerminalIInv
  BY InitTerminalIInv
<1>2. TerminalIInv /\ [Next]_vars => TerminalIInv'
  <2> SUFFICES ASSUME TerminalIInv, [Next]_vars PROVE TerminalIInv'
    OBVIOUS
  <2>1. CASE UNCHANGED vars
    <3>1. /\ linebuf_' = linebuf_ /\ prompt_erased' = prompt_erased /\ entered' = entered
          /\ cmd_history_' = cmd_history_ /\ cmd_history_index_' = cmd_history_index_
          /\ window' = window /\ cursor_visible_' = cursor_visible_
          /\ areas' = areas /\ screen' = screen /\ keys' = keys
      BY <2>1 DEF vars, lineVars
    <3> QED  BY <3>1 DEF TerminalIInv, WindowHeld, HistoryHeld, ScreenHeld, HistoryKeepsLines,
                         ScreenCatchesUp
  <2>2. CASE Enter
    BY <2>2, EnterIInv
  <2>3. CASE Backspace
    BY <2>3, BackspaceIInv
  <2>4. CASE \E c \in Chars : Type(c)
    BY <2>4, TypeIInv
  <2>5. CASE \E up \in BOOLEAN : HistoryUpDown(up)
    BY <2>5, HistoryUpDownIInv
  <2>6. CASE OtherKey
    BY <2>6, OtherKeyIInv
  <2>7. CASE BlinkCursor
    BY <2>7, BlinkCursorIInv
  <2>8. CASE MainDrawsArea
    BY <2>8, MainDrawsAreaIInv
  <2> QED  BY <2>1, <2>2, <2>3, <2>4, <2>5, <2>6, <2>7, <2>8 DEF Next
<1> QED  BY <1>1, <1>2, PTL DEF Spec

-----------------------------------------------------------------------------
(* The theorems *)

LEMMA TerminalIInvSuffices ==
  ASSUME TerminalIInv
  PROVE  TerminalInv
<1>1. PICK x \in 0..kColumns, y \in 0..(kRows - 1), n \in Nat :
        ShownAt(window, linebuf_, prompt_erased, x, y, n)
  BY HoldsShows DEF TerminalIInv, WindowHeld
<1>2. /\ window \in Windows /\ window.x = x /\ window.y = y /\ <<x, y>> \in Cells
      /\ linebuf_ \in Seq(Chars) /\ Len(linebuf_) = n /\ n < kColumns /\ x - n \in {0, 1}
  BY <1>1 DEF ShownAt
<1>3. TypeOK
  <2>1. cursor_ \in Cells /\ window.cells \in [Cells -> SUBSET Marks]
    BY <1>2, WindowIs DEF cursor_
  <2>2. Len(linebuf_) < kLineMax
    BY <1>2, BoundsAre
  <2> QED  BY <1>2, <2>1, <2>2 DEF TypeOK, TerminalIInv, WindowHeld, HistoryHeld, ScreenHeld,
                                   TypedLines, Areas
<1>4. LineIsShown
  <2>1. ASSUME NEW i \in 1..n PROVE window.cells[<<x - n + i - 1, y>>] = Glyph(linebuf_[i])
    BY <1>1 DEF ShownAt
  <2>2. ASSUME NEW c \in Columns(x + 1, y, kColumns) PROVE window.cells[c] = {}
    <3>1. c \in Cells /\ c[2] = y /\ x + 1 <= c[1]
      BY DEF Columns
    <3>2. PICK a \in 0..kColumns : a = c[1] /\ a > x /\ c = <<a, y>>
      BY <3>1, CellIs
    <3>3. window.cells[<<a, y>>] = {}
      BY <1>1, <3>2 DEF ShownAt
    <3> QED  BY <3>2, <3>3
  <2> QED  BY <1>2, <2>1, <2>2 DEF LineIsShown
<1>5. PromptIsShown
  BY <1>1, <1>2 DEF ShownAt, PromptIsShown
<1>6. OneCursor
  BY <1>1, <1>2 DEF ShownAt, OneCursor, cursor_
<1> QED  BY <1>3, <1>4, <1>5, <1>6 DEF TerminalInv

\* Whatever is typed, erased, recalled or scrolled (InputKey, HistoryUpDown,
\* Print, ExecuteLine), what Enter would execute stands in the row of the cursor
\* right before the cursor, with the prompt and nothing else in front of it
\* unless a Backspace on the empty line has erased this line's prompt; one
\* cursor is drawn at most and linebuf_ never overflows: for every size of the
\* window, the line buffer and the history, every set of devices and every root
\* directory.
THEOREM LineIsWhatIsShown == Spec => []TerminalInv
BY AlwaysTerminalIInv, TerminalIInvSuffices, PTL

\* The areas InputKey, HistoryUpDown and BlinkCursor return cover what they
\* changed, so the DrawArea messages on their way to main cover every cell where
\* the screen is behind the window, but for the first cell of the cursor's row
\* while the prompt that was there is erased.
THEOREM ScreenFollowsWindow == Spec => []ScreenCatchesUp
<1>1. TerminalIInv => ScreenCatchesUp
  BY DEF TerminalIInv, ScreenHeld
<1> QED  BY <1>1, AlwaysTerminalIInv, PTL

\* The history InputKey keeps (pop_back, push_front, resize) holds the newest
\* lines entered, newest first, but for the very first, whichever way the
\* undefined pop_back of an empty deque goes.
THEOREM HistoryIsKept == Spec => []HistoryKeepsLines
<1>1. TerminalIInv => HistoryKeepsLines
  BY DEF TerminalIInv, HistoryHeld
<1> QED  BY <1>1, AlwaysTerminalIInv, PTL
===============================================================================
