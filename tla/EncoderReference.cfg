SPECIFICATION Spec
CONSTANTS
  Obj <- RefObj
  Root = "r"
  Globals = {"s", "d"}
  Kind <- RefKind
  Sub = {"k", "e"}
  Rank <- RefRank
  Docs <- RefDocs
  OptSets <- RefOptSets
  Defaults = {TRUE, FALSE}
  Returns <- RefReturns
  ArrayTexts <- MCArrayTexts
  MaxDepth = 2
  MaxDefaultDepth = 2
  PyRaises = FALSE
  MaxLen = 3
  MaxMutations = 0
INVARIANTS OutputIsReference
