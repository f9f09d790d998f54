SPECIFICATION Spec
CONSTANTS
  Obj <- MemObj
  Root = "r"
  Globals = {}
  Kind <- MemKind
  Sub = {"k"}
  Rank <- MemRank
  Docs <- MemDocs
  OptSets <- MemOptSets
  Defaults = {TRUE, FALSE}
  Returns <- MemReturns
  ArrayTexts <- MCArrayTexts
  MaxDepth = 3
  MaxDefaultDepth = 1
  PyRaises = TRUE
  MaxLen = 3
  MaxMutations = 1
INVARIANTS TypeOK NoUseAfterFree RefsBalanced GuardSound WellFormed
PROPERTIES FailureIsFinal
