\* Two rows, two runs at a time that ask for the last permit: leases lapse, answers are lost, runs die.
SPECIFICATION Spec
CONSTANTS
  Row <- TwoRows
  Priority <- AllNormal
  To <- ToOne
  Recipient = {"papa"}
  Canonical = {1, 2}
  Worker = {w1, w2}
  LastMonth = 1
  AppHardCap = 1
  SoftBudget = 1
  CriticalReserve = 0
  DefaultProviderLimit = 2
  ProviderReports <- NoReport
  RefreshPeriod = 1
  BatchLimit = 1
  MaxAttempts = 2
  Lease = 1
  RetryDelay = 1
  KeyWindow = 2
  BusinessWindows <- OneWindow
  WorkerLife = 1
  ProviderMemory = 3
SYMMETRY Runs
INVARIANTS
  HardCapRespected
  NoDoubleDelivery
  SettlementMatchesOutcome
