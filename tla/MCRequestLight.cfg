\* A light request: consultation, answers and second proposals, follow-ups.
SPECIFICATION FairSpec
CONSTANTS
  Kind = "light"
  Task = {t1}
  Anchor = t1
  Checklist = {}
  Manual = {}
  Conversations <- LightConversations
  WorkDue = {1}
  ReplyDue = {1, 2}
  MaxAttempts = 2
  MaxRevision = 5
  MaxTaskRevision = 3
  Horizon = 2
INVARIANTS
  TypeOK
  ConsentIsToTheTerms
  OneAgreement
  StatusReflectsAttempts
  RequestFollowsTask
PROPERTIES
  ProposalsClose
CHECK_DEADLOCK FALSE
