SPECIFICATION Spec
CONSTANTS
  Obj <- HugeObj
  Root = "r"
  Globals = {}
  Kind <- HugeKind
  Sub = {}
  Rank <- HugeRank
  Docs <- HugeDocs
  OptSets = {{}}
  Defaults = {FALSE}
  Returns <- HugeReturns
  ArrayTexts <- MCArrayTexts
  MaxDepth = 2
  MaxDefaultDepth = 1
  PyRaises = FALSE
  MaxLen = 2
  MaxMutations = 1
INVARIANTS GuardSound
