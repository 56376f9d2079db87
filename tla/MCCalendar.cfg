CONSTANTS
  Worker = {w1, w2}
  Conn = {c1, c2}
  Lease = {l1, l2, l3}
  None = None
  MaxVersion = 3
  MaxActs = 2
  MaxTrouble = 1
SPECIFICATION Spec
SYMMETRY Interchangeable
INVARIANTS TypeOK OneRequestAtATime SyncedMeansMirrored
PROPERTIES KeepsThePromise
CHECK_DEADLOCK FALSE
