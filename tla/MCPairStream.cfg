SPECIFICATION FairSpec
CONSTANTS
  o1 = o1
  o2 = o2
  o3 = o3
  o4 = o4
  Ops <- MCOps
  Opcode <- MCOpcode
  Length <- MCLength
  Preamble = 2
  SocketSize = 3
INVARIANTS
  StreamIntact
  CompletedIsWritten
PROPERTIES
  FifoRefinement
  EverythingIsHandled
CHECK_DEADLOCK FALSE
