SPECIFICATION Spec
CONSTANTS
  SEND_BUFFER_SIZE = 3
  INITIAL_WINDOW_PACKETS = 1
  PRIORITY_UNIT = 3
  OutOfBounds = {0}
  Preamble = 2
  Ops <- MCOps
  ElicitMax = 2
  Faults = {"lose", "duplicate", "overtake", "fail"}
  MaxFaults = 1
  MaxRetries = 1
  MaxQueue = 4
INVARIANTS
  QuestionsAccountedFor
  AcksAreTrue
  DroppedIsReceived
CHECK_DEADLOCK FALSE
PROPERTIES
  WritesReturn
