SPECIFICATION Spec
CONSTANTS
  MaxNesting = 8
  SnippetWidth = 72
  CaretMax = 60
  ExpectedCap = 12
  MaxText = 0
  MaxFlow = 0
  MaxDepth = 24
  MaxKids = 256
  Inputs <- MCDeepBlocks
  JobOf <- MCJobOf
  Longest <- MCLongest
  Keys <- MCKeys
  Vals = {}
  NoKey <- MCNoKey
INVARIANTS
  RoundTrips
