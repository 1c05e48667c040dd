CONSTANTS
  PtSize = 8
  Kernel = {0, 7}
  Stack = {7}
  LargeBase = 1
  MaxLarge = 9
  LargeSizes = {1, 2}
  Touched = {10, 11, 12, 14}
  Pool = {f1, f2, f3, f4}
  NamedFrame = f1
  Firmware <- MCFirmware
  Slots = {0, 8}
SPECIFICATION Spec
SYMMETRY Symmetric
INVARIANTS FramesExclusive FramesConserved QueueIsExact KernelStaysMapped
PROPERTY NothingSwappedOut
