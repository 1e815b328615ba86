SPECIFICATION FairSpec
CONSTANTS
  NoKey = NoKey
  k1 = k1
  k2 = k2
  v1 = v1
  v2 = v2
  Keys <- MCKeys
  Vals <- MCVals
  Docs <- MCDocs
INVARIANTS
  TypeOK
  NestingFollowsIndent
  BadScalarsReject
PROPERTIES
  StepsDescend
  AlwaysDecides
  ImplementsIndentTree
