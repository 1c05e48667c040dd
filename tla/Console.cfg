CONSTANTS
  BUFFER_SIZE = 4
  MAX_INPUT_LENGTH = 2
  MaxTypeAhead = 3
  BackspaceInGet = FALSE
  Keys = {"q", "Ctrl", "Enter", "Backspace", "Shift", "CapsLock"}
SPECIFICATION FairSpec
INVARIANTS InputFits
PROPERTIES ImplementsCharQueue EveryCharIsRead
