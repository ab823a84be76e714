SPECIFICATION Spec
CONSTANTS
  b1 = b1
  b2 = b2
  Buffers = {b1}
  Peers = {p1, p2}
  MaxOps <- OneMaxOps
  MaxAborts <- OneMaxAborts
INVARIANT
  AllPendingSignalled
CHECK_DEADLOCK FALSE
