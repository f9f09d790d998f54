SPECIFICATION Spec
CONSTANTS
  Obj <- LimObj
  Root = "r"
  Globals = {}
  Kind <- LimKind
  Sub = {}
  Rank <- LimRank
  Docs <- LimDocs
  OptSets <- LimOptSets
  Defaults = {TRUE, FALSE}
  Returns <- LimReturns
  ArrayTexts <- MCArrayTexts
  MaxDepth = 3
  MaxDefaultDepth = 2
  PyRaises = TRUE
  MaxLen = 3
  MaxMutations = 1
INVARIANTS DepthIsNesting StackBounded
PROPERTIES LateDatetimeHonoured Terminates
