SPECIFICATION FairSpec
CONSTANTS
  Event = {e1, e2}
  Worker = {w1, w2}
  Channel = {c1, c2}
  None = None
  MaxAttempts = 2
  Budgets <- Weeks
INVARIANTS TypeOK NothingMissedOnTime EveryRequestIsRead WatchUnbroken
PROPERTIES MirrorCatchesUp
CHECK_DEADLOCK FALSE
