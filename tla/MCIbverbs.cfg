SPECIFICATION Spec
CONSTANTS
  Slots = {1, 2}
  Sending = {1}
  Receiving = {1}
  kMaxBuffers = 2
  MaxSends = 2
  MaxArrivals = 1
  MaxTimeouts = 1
CHECK_DEADLOCK FALSE
INVARIANTS
  RegionsRight
  BenchIsFull
  CompletionsExpected
PROPERTIES
  WaitsEnd
