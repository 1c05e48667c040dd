CONSTANTS
  BUFFER_SIZE = 4
  MAX_INPUT_LENGTH = 3
  MaxTypeAhead = 3
  BackspaceInGet = TRUE
  Keys = {"a", "b", "Backspace"}
SPECIFICATION Spec
PROPERTY ImplementsCharQueue
