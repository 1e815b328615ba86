SPECIFICATION Spec
CONSTANTS
  MaxNesting = 4
  MaxItems = 2
  MaxString = 3
  Docs <- MCDocs
  Asked <- MCAsked
  Indices = {0, 1, 2}
INVARIANTS
  ReadsInside
  FollowsPath
  TellsMisses
  VisitsEach
  WritesExactlyLength
  ScalarsReadBack
