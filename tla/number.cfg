SPECIFICATION FairSpec
CONSTANTS
  Alphabet = {"+", "-", ".", "0", "1", "2", "8", "e", "x", "o", "F"}
  MaxSize = 5
  Texts <- MCTexts
  LongBits = 8
  IntBits = 6
  TargetWidths = {7, 8}
INVARIANTS
  KindIsCoreSchema
  ReadsInText
  ConvertsWithinWidth
PROPERTIES
  AlwaysConverts
