SPECIFICATION Spec
CONSTANTS
  a = a
  b = b
  Ranks = {a, b}
  Slots = {1, 2}
  MaxSends <- MCNoOps
  MaxRecvs <- MCNoOps
  Address <- MCAddress
  Preamble = 2
  Payload <- MCPayload
  MaxFaults = 1
CHECK_DEADLOCK FALSE
PROPERTY
  ConnectErrorReported
