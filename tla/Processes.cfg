SPECIFICATION Spec
CONSTANTS
  MaxCreated = 3
  Frames = 9
  StackPages = 2
  TICKS_UNTIL_SWITCH = 2
  PidSpace = 8
INVARIANTS
  ContextIntact
  TimerAlive
  InterruptsReachTheirHandler
PROPERTIES
  EveryProcessRuns
