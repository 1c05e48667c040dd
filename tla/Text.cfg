CONSTANTS
  IntMax = 511
  HEXA_SIZE = 3
  Letters = {1, 2}
  MaxLen = 4
  NameMax = 4
SPECIFICATION TextSpec
INVARIANTS ConversionsExact StringsExact
