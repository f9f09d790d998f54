SPECIFICATION Spec
CONSTANTS
  Thousand = 2
  Sixty = 2
  TwentyFour = 2
  MaxI64 = 300000000
  MaxI128 = 2000000000
  None = None
  Arrays <- MCArrays
  Scalars <- MCScalars
  OptSets <- MCOptSets
  Depth = 1
  Deltas <- MCDeltas
INVARIANTS TypeOK ReadsRowMajor WholeOrNothing WrittenIffPossible ScalarRight TextRight OffsetsRead
CHECK_DEADLOCK FALSE
