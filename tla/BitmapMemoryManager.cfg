SPECIFICATION BitmapSpec
CONSTANTS
  kFrameCount = 6
  kBitsPerMapLine = 3
  kHeapFrames = 1
  kBytesPerFrame = 2
  PhysicalFrames = 6
  MaxDescriptors = 3
  Requests = {1, 2}
  MaxOwned = 2
INVARIANTS BitmapInv OnlyAvailableIsFree FramesAccounted
PROPERTIES FailsOnlyWhenFull ImplementsFirstFit
