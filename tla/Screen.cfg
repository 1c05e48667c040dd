CONSTANTS
  VGA_WIDTH = 2
  VGA_HEIGHT = 3
SPECIFICATION Spec
INVARIANTS ScrollsBeforeWriting BlankAhead OverrunBounded
