CONSTANTS
  DISK_BITMAP_SIZE = 2
  MaxRuns = 3
  SlotCounts = {0, 1, 3, 8}
SPECIFICATION SlotsSpec
INVARIANTS RunsDisjoint LeakIsLastRun
PROPERTY RefusesOnlyWhenExhausted
