SPECIFICATION Spec
CONSTANTS
  MinCap = 2
  Spare = {1}
  Wide = 4
  Word = 2
  TextBytes = {31, 34, 35}
  CodePoints = {31, 233, 12354, 55296, 128293}
  PieceSizes = {1, 32}
  FloatSizes = {3}
  IntSizes = {1, 20}
  Hints = {0, 9}
  Null = Null
  MaxUnits = 8
  MaxCalls = 1
INVARIANTS TypeOK InCapacity SwarExact OneObject ReadsBack
PROPERTIES ImplementsByteSink
CHECK_DEADLOCK FALSE
