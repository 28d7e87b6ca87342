------------------------------- MODULE MCLayers -------------------------------
\* A screen of 3 by 2 pixels with windows that overlap each other and its edge.
EXTENDS Layers

MCScreenSize == <<3, 2>>
MCSize == <<MCScreenSize, <<2, 1>>, <<2, 1>>, <<1, 1>>, <<2, 1>>, <<2, 1>>>>
MCStartPos == <<<<0, 0>>, <<0, 0>>, <<1, 0>>, <<1, 0>>, <<1, 1>>, <<1, 0>>>>
MCMouseShape == {<<0, 0>>}
MCDisplacements == {<<1, -1>>, <<-1, 1>>}
\* A part of the window, a part that reaches over its edge on either side, a
\* line without height and the window as a whole.
MCDrawAreas ==
  {Rect(<<0, 0>>, <<1, 1>>), Rect(<<1, 0>>, <<2, 2>>), Rect(<<-1, -1>>, <<2, 2>>),
   Rect(<<0, 0>>, <<2, 0>>), WholeWindow}
===============================================================================
