SPECIFICATION Spec
CONSTANTS
  a = a
  b = b
  Ranks = {a, b}
  Slots = {1, 2}
  MaxSends <- MCMaxSends
  MaxRecvs <- MCMaxRecvs
  Address <- MCAddress
  Preamble = 2
  Payload <- MCPayload
  MaxFaults = 1
CHECK_DEADLOCK FALSE
INVARIANTS
  StreamAgrees
  ReadsNextMessage
  EventsMatchOps
  NoUseAfterDestroy
PROPERTIES
  Drains
