SPECIFICATION Spec
CONSTANTS
  Tape <- FailTape
  Hash <- MCHash
  Singletons <- MCSingletons
  BlankDoc = BlankDoc
  RejectedDoc = RejectedDoc
  CacheSlots = 2
  Arguments = {"str", "memoryview", "strided", "other"}
  MaxObjects = 34
  MaxCalls = 3
  MaxNesting = 2
  MaxFailures = 1
INVARIANTS TypeOK RefsExact ScratchFree InBounds Answer
