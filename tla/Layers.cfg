SPECIFICATION LayersSpec
CONSTANTS
  ScreenSize <- MCScreenSize
  Size <- MCSize
  StartPos <- MCStartPos
  MouseShape <- MCMouseShape
  Displacements <- MCDisplacements
  DrawAreas <- MCDrawAreas
INVARIANTS WindowsInv ScreenShowsStack
PROPERTIES PressRaises DragKeepsOffset
