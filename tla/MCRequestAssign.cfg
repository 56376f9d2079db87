\* A checklist and a task edited by hand are handed over and changed.
SPECIFICATION Spec
CONSTANTS
  Kind = "assignment_change"
  Task = {t1, t2}
  Anchor = t1
  Checklist = {t1}
  Manual = {t2}
  Conversations <- HandingConversations
  WorkDue = {1}
  ReplyDue = {1}
  MaxAttempts = 2
  MaxRevision = 3
  MaxTaskRevision = 3
  Horizon = 1
INVARIANTS
  AllOrNothing
  AlwaysProjectable
PROPERTIES
  AgreedOnWhatIsThere
CHECK_DEADLOCK FALSE
