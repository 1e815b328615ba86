SPECIFICATION Spec
CONSTANTS
  MaxWord = 3
  MaxPlain = 5
  MaxQuoted = 6
  Alphabet <- MCAlphabet
  OtherCase <- MCOtherCase
  LineFeed <- MCLineFeed
INVARIANTS
  LoweringKeepsWords
  MatchesLongest
  PlainIsLongest
  QuotedCloses
