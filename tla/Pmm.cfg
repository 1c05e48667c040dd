CONSTANTS
  PMM_BITMAP_SIZE = 4
  KernelStart = 9
  KernelFrames = 6
  StackTop = 21
  StackPages = 5
  HeapPages = 7
  VgaFrame = 8
  Clients = {c1, c2}
SPECIFICATION Spec
INVARIANTS TypeOK ExclusiveOwnership BitmapExact HintIsFree
PROPERTY ImplementsFrameAllocator
