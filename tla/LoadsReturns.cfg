SPECIFICATION Spec
CONSTANTS
  Tape <- OneTape
  Hash <- MCHash
  Singletons <- MCSingletons
  BlankDoc = BlankDoc
  RejectedDoc = RejectedDoc
  CacheSlots = 2
  Arguments = {"bytes", "str", "bytearray", "memoryview", "surrogates", "strided", "other"}
  MaxObjects = 14
  MaxCalls = 3
  MaxNesting = 3
  MaxFailures = 1
PROPERTY Returns
