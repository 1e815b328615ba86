SPECIFICATION Spec
CONSTANTS
  Alphabet = {"+", "-", ".", "0", "1", "2", "8", "e", "x", "o", "F"}
  MaxSize = 4
  Texts <- MCTexts
  LongBits = 8
  IntBits = 6
  TargetWidths = {8}
INVARIANTS
  IntegersConvert
