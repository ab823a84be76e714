SPECIFICATION FairSpec
CONSTANTS
  b1 = b1
  b2 = b2
  Buffers = {b1, b2}
  Peers = {p1}
  MaxOps <- MCMaxOps
  MaxAborts <- MCMaxAborts
INVARIANTS
  CompletionsReported
  AbortEndsOneWait
  NoUseAfterDestroy
  NoIoAfterThrow
PROPERTIES
  WaitsEnd
CHECK_DEADLOCK FALSE
