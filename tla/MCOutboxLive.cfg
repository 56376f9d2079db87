\* Two rows of one recipient in one batch, the first critical, a budget of one, two months.
SPECIFICATION FairSpec
CONSTANTS
  Row <- TwoRows
  Priority <- FirstCritical
  To <- ToOne
  Recipient = {"papa"}
  Canonical = {1}
  Worker = {w1}
  LastMonth = 2
  AppHardCap = 1
  SoftBudget = 1
  CriticalReserve = 0
  DefaultProviderLimit = 2
  ProviderReports <- TwoReports
  RefreshPeriod = 1
  BatchLimit = 2
  MaxAttempts = 2
  Lease = 1
  RetryDelay = 1
  KeyWindow = 1
  BusinessWindows <- OneWindow
  WorkerLife = 1
  ProviderMemory = 2
INVARIANTS
  CountedOnce
PROPERTIES
  EveryRowSettles
