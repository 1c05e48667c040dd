CONSTANTS
  Disks = {0, 1}
  total_sectors = 3
  sector_size = 2
  MAX_SECTORS_PER_CALL_SIZE = 2
  Lbas = {0, 2}
  Lens = {3, 6}
  Faults = {"error", "late", "stuck"}
  MaxWrites = 2
SPECIFICATION FairSpec
INVARIANTS BytesWherePut ReadsReturnMedia WriteHonestUnlessLate TempsFreed
PROPERTIES CommandsReachReadyDrive EveryCallReturns
