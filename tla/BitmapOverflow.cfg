SPECIFICATION BitmapSpec
CONSTANTS
  kFrameCount = 8
  kBitsPerMapLine = 4
  kHeapFrames = 1
  kBytesPerFrame = 2
  PhysicalFrames = 10
  MaxDescriptors = 2
  Requests = {1, 2}
  MaxOwned = 2
INVARIANTS BitmapInBounds
