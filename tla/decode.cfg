SPECIFICATION MCSpec
CONSTANTS
  MaxPieces = 3
  Tokens <- MCTokens
  SqQuote = "'"
  SqChar = {"'", "x", "y"}
  MaxUnits = 5
  SqTokens <- MCSqTokens
INVARIANTS
  StaysInBounds
  RefusesExactlyBad
  WritesWhatIsMeant
  StandsOnUnits
  UndoublesQuotes
PROPERTIES
  StepsAdvance
