CONSTANTS
  Worker = {w1}
  Conn = {c1}
  Lease = {l1, l2, l3}
  None = None
  MaxVersion = 3
  MaxActs = 0
  MaxTrouble = 1
SPECIFICATION FairSpec
PROPERTY CatchesUp
CHECK_DEADLOCK FALSE
