SPECIFICATION FairTreeSpec
CONSTANTS
  MaxProds = 3
  MaxRhs = 2
  MaxSize = 2
  MaxText = 3
  MaxDepth = 16
  MaxKids = 16
  Slack <- MCSlack
  NoAlias = "none"
  Alphabet <- MCAlphabet
  OtherCase <- MCOtherCase
  LineFeed <- MCLineFeed
  Jobs <- MCJobs
  Longest <- MCLongest
INVARIANTS
  TypeOK
  TokensFit
  AcceptsExactly
  ExpectedIsViable
  ShortInputsFit
  ResolvesAsListed
  LexesLongest
PROPERTIES
  AlwaysEnds
