SPECIFICATION FairSpec
CONSTANTS
  Sender = {papa, mama}
  Event = {1, 2, 3}
  Run = {r1, r2}
  Job = {j1}
  Task = {t1}
  ShoppingItem = {i1}
  papa = papa
  mama = mama
  t1 = t1
  i1 = i1
  MaxAttempts = 2
  MaxExecutions = 2
  MaxRevision = 5
  Stories <- ChatStories
INVARIANTS
  TypeOK
  ExecutedAsConfirmed
  SucceededIsComplete
PROPERTIES
  EveryEventSettles
  ConfirmedSettles
  CorrectionsInOrder
  UndoErasesNothing
  AgreedAsShown
CHECK_DEADLOCK FALSE
