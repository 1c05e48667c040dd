CONSTANTS
  NUM_CACHES = 2
  EXTRA_BLOCKS = 1
  HeapBase = 8
  Frames = 3
  LargeSizes = {1, 2}
  MaxLargePages = 5
  ObjectsPerSlab <- MCObjectsPerSlab
SPECIFICATION Spec
INVARIANT FreeCountIsExact
