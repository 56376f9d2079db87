\* An old card is tapped in the middle of a consultation.
SPECIFICATION Spec
CONSTANTS
  Kind = "light"
  Task = {t1}
  Anchor = t1
  Checklist = {}
  Manual = {}
  Conversations <- CardConversations
  WorkDue = {1, 2}
  ReplyDue = {2}
  MaxAttempts = 1
  MaxRevision = 6
  MaxTaskRevision = 2
  Horizon = 2
INVARIANTS
  ConsentOnEveryPath
CHECK_DEADLOCK FALSE
