SPECIFICATION Spec
CONSTANTS
  MaxNesting = 4
  SnippetWidth = 4
  CaretMax = 2
  ExpectedCap = 3
  MaxText = 3
  MaxFlow = 2
  MaxDepth = 256
  MaxKids = 256
  Inputs <- MCInputs
  JobOf <- MCJobOf
  Longest <- MCLongest
  Keys <- MCKeys
  Vals = {}
  NoKey <- MCNoKey
INVARIANTS
  RoundTrips
  SegmentsAreReal
  DiagnosisPoints
