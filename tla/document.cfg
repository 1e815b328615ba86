SPECIFICATION Spec
CONSTANTS
  NoKey = NoKey
  k1 = k1
  k2 = k2
  v1 = v1
  Keys <- MCKeys
  Vals <- MCVals
  Texts <- MCTexts
  FlowDepth = 2
INVARIANTS
  IndentIsColumn
  BlameIsReal
  NoFaultIsMissed
