SPECIFICATION Spec
CONSTANTS
  Tape <- ValueTape
  Hash <- MCHash
  Singletons <- MCSingletons
  BlankDoc = BlankDoc
  RejectedDoc = RejectedDoc
  CacheSlots = 2
  Arguments = {"bytes"}
  MaxObjects = 22
  MaxCalls = 2
  MaxNesting = 1
  MaxFailures = 0
INVARIANT ResultDenotes
