SPECIFICATION FairSpec
CONSTANTS
  a = a
  b = b
  c = c
  Ranks = {a, b, c}
  Slots = {1}
  MaxSends <- Sends
  MaxRecvs <- Recvs
CHECK_DEADLOCK FALSE
INVARIANTS
  RecvsAccounted
  BalanceAgreed
  NonOvertaking
  NeverHeldBack
  NoMissedMatch
PROPERTIES
  DeliversWhatMatches
