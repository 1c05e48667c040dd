CONSTANTS
  TICKS_UNTIL_SWITCH = 2
  MaxNodes = 5
  RemoveInit = FALSE
SPECIFICATION FairSpec
INVARIANTS ListIntact RingClosed NeverPanics
PROPERTIES ImplementsRoundRobin EveryProcessRuns
