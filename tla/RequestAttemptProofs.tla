------------------------ MODULE RequestAttemptProofs ------------------------
(* The agreement of two members, for any tasks, deadlines, conversations    *)
(* and numbers of attempts and operations.                                  *)
EXTENDS RequestAttempt, FiniteSetTheorems, TLAPS

-----------------------------------------------------------------------------
(* Typing, in the parts the actions disturb.                                *)

AttemptsOK == /\ attempt \in [AttemptId -> Attempt]
              /\ Used = 1 .. Cardinality(Used)
              /\ \A a \in Used : attempt[a].terms \in Terms
RequestOK  == request \in [status : {"none", "pending", "accepted", "declined", "cancelled", "completed"},
                           linked : BOOLEAN, revision : Nat]
TasksOK    == /\ patched \subseteq AttemptId
              /\ task \in [Task -> [status : {"absent", "open", "completed", "cancelled"}, revision : Nat \ {0},
                                    assignee : Party, due : WorkDue \cup {None}]]
\* What a party has sent, it has sent about an attempt it saw.
CommandsOK == /\ cmd \in [Party -> Command]
              /\ \A p \in Party : cmd[p].action # "none" =>
                   cmd[p].attempt \in Used /\ cmd[p].seen \in Terms /\ cmd[p].terms \in Terms
RecordsOK  == /\ confirmed \subseteq AttemptId \X Nat \X Party
              /\ receipt \in [Party -> Open \cup Closed \cup {"none"}]
              /\ agreed \in [AttemptId -> [Party -> Terms \cup {NoTerms}]]
ClockOK    == now \in 0 .. Horizon /\ sends \in Conversations
\* A request has no status exactly until it has an attempt.
Begun      == request.status = "none" <=> Used = {}

Typing == /\ AttemptsOK /\ RequestOK /\ TasksOK /\ CommandsOK /\ RecordsOK /\ ClockOK /\ Begun

LEMMA NoTermsApart == NoTerms \notin Terms
<1>1. \A t \in Terms : t.due \in WorkDue \cup {None}
  BY DEF Terms
<1>2. NoTerms.due = -1
  BY DEF NoTerms
<1>3. -1 \notin WorkDue \cup {None}
  BY BoundAssumption DEF None
<1> QED BY <1>1, <1>2, <1>3

LEMMA TypingTypes == ASSUME Typing PROVE TypeOK
BY NoTermsApart DEF Typing, AttemptsOK, RequestOK, TasksOK, CommandsOK, RecordsOK, ClockOK, TypeOK

LEMMA AttemptFields ==
  ASSUME AttemptsOK, NEW a \in AttemptId
  PROVE  /\ attempt[a].kind \in Main \cup FollowUp
         /\ attempt[a].state \in Open \cup Closed \cup {"none"}
         /\ attempt[a].revision \in Nat /\ attempt[a].terms_revision \in Nat
         /\ attempt[a].terms \in Terms \cup {NoTerms}
         /\ attempt[a].reply_due \in ReplyDue \cup {Never}
         /\ attempt[a].creator \in Party
BY DEF AttemptsOK, Attempt

LEMMA OpenIsUsed == Used = {a \in AttemptId : attempt[a].state # "none"} /\ OpenOnes \subseteq Used
BY DEF Used, OpenOnes, Open

LEMMA RowTyped ==
  ASSUME NEW x \in Attempt, NEW s \in Open \cup Closed
  PROVE  LET row == [x EXCEPT !.state = s, !.revision = @ + 1]
         IN  row \in Attempt /\ row.terms = x.terms /\ row.state = s
<1>1. x.revision \in Nat /\ x.revision + 1 \in Nat
  BY DEF Attempt
<1> QED BY <1>1 DEF Attempt

\* An operation moves an attempt on.
LEMMA MovedTyped ==
  ASSUME AttemptsOK, NEW a \in Used, NEW s \in Open \cup Closed, attempt' = Moved(a, s)
  PROVE  AttemptsOK' /\ Used' = Used
<1>1. a \in AttemptId /\ s # "none"
  BY DEF Used, Open, Closed
<1> DEFINE row == [attempt[a] EXCEPT !.state = s, !.revision = @ + 1]
<1>r. attempt[a] \in Attempt /\ row \in Attempt
  BY <1>1, RowTyped DEF AttemptsOK
<1>m. attempt' = [attempt EXCEPT ![a] = row]
  BY <1>1, <1>r DEF Moved, AttemptsOK, Attempt
<1> HIDE DEF row
<1>2. attempt' \in [AttemptId -> Attempt]
  BY <1>1, <1>r, <1>m DEF AttemptsOK
<1>3. \A b \in AttemptId : /\ attempt'[b].terms = attempt[b].terms
                           /\ attempt'[b].state = IF b = a THEN s ELSE attempt[b].state
  BY <1>1 DEF Moved, AttemptsOK, Attempt
<1>4. Used' = Used
  BY <1>1, <1>3 DEF Used
<1> QED BY <1>2, <1>3, <1>4 DEF AttemptsOK, Used

\* Its terms are edited.
LEMMA EditedTyped ==
  ASSUME AttemptsOK, NEW a \in Used, NEW terms \in Terms,
         attempt' = Edited(a, terms)
  PROVE  AttemptsOK' /\ Used' = Used
<1>1. a \in AttemptId
  BY DEF Used
<1> DEFINE m == Moved(a, "consulting")
<1>m. /\ m \in [AttemptId -> Attempt]
      /\ \A b \in AttemptId : /\ m[b].terms = attempt[b].terms
                              /\ m[b].state = IF b = a THEN "consulting" ELSE attempt[b].state
  <2> DEFINE row == [attempt[a] EXCEPT !.state = "consulting", !.revision = @ + 1]
  <2>1. attempt[a] \in Attempt /\ row \in Attempt /\ row.terms = attempt[a].terms /\ row.state = "consulting"
    BY <1>1, RowTyped DEF AttemptsOK, Open
  <2>2. m = [attempt EXCEPT ![a] = row]
    BY <1>1, <2>1 DEF Moved, AttemptsOK, Attempt
  <2> HIDE DEF row, m
  <2> QED BY <1>1, <2>1, <2>2 DEF AttemptsOK
<1>n. attempt' = [m EXCEPT ![a] = [m[a] EXCEPT !.terms = terms, !.terms_revision = @ + 1]]
  BY DEF Edited
<1> HIDE DEF m
<1> DEFINE row == [m[a] EXCEPT !.terms = terms, !.terms_revision = @ + 1]
<1>r. row \in Attempt
  <2>1. m[a] \in Attempt /\ m[a].terms_revision + 1 \in Nat
    BY <1>1, <1>m DEF Attempt
  <2> QED BY <2>1 DEF Attempt
<1>2. attempt' \in [AttemptId -> Attempt]
  <2>1. attempt' = [m EXCEPT ![a] = row]
    BY <1>n
  <2> HIDE DEF row
  <2> QED BY <1>1, <1>m, <1>r, <2>1
<1>3. \A b \in AttemptId : /\ attempt'[b].terms = IF b = a THEN terms ELSE attempt[b].terms
                           /\ attempt'[b].state = IF b = a THEN "consulting" ELSE attempt[b].state
  BY <1>1, <1>m, <1>n DEF Attempt
<1>4. Used' = Used
  BY <1>1, <1>3 DEF Used
<1> QED BY <1>2, <1>3, <1>4 DEF AttemptsOK, Used

LEMMA UsedCounts == ASSUME AttemptsOK PROVE Newest \in Nat /\ Free \in Nat \ {0} /\ Free \notin Used /\ Newest \in 0 .. MaxAttempts
<1>1. IsFiniteSet(AttemptId) /\ Cardinality(AttemptId) = MaxAttempts
  BY FS_Interval, BoundAssumption DEF AttemptId
<1>2. Used \subseteq AttemptId
  BY DEF Used
<1>3. IsFiniteSet(Used) /\ Cardinality(Used) <= MaxAttempts /\ Cardinality(Used) \in Nat
  BY <1>1, <1>2, FS_Subset, FS_CardinalityType
<1> QED BY <1>3, BoundAssumption DEF AttemptsOK, Newest, Free

\* An attempt is added.
LEMMA NewTyped ==
  ASSUME AttemptsOK, Newest < MaxAttempts, NEW kind \in Main \cup FollowUp, NEW s \in Open,
         NEW terms \in Terms, NEW due \in ReplyDue \cup {Never}, NEW by \in Party,
         attempt' = New(kind, s, terms, due, by)
  PROVE  AttemptsOK' /\ Used' = Used \cup {Free} /\ Free \in AttemptId
<1>1. Free \in AttemptId /\ Free = Newest + 1 /\ Newest \in Nat /\ Free \notin Used
  BY UsedCounts, BoundAssumption DEF Free, AttemptId
<1> DEFINE row == [kind |-> kind, state |-> s, revision |-> 1, terms_revision |-> 1,
                   terms |-> terms, reply_due |-> due, creator |-> by]
<1>2. attempt' = [attempt EXCEPT ![Free] = row]
  BY DEF New
<1>3. row \in Attempt /\ row.state # "none" /\ row.terms \in Terms
  BY DEF Attempt, Open
<1> HIDE DEF row
<1>4. attempt' \in [AttemptId -> Attempt] /\ \A b \in AttemptId : attempt'[b] = IF b = Free THEN row ELSE attempt[b]
  BY <1>1, <1>2, <1>3 DEF AttemptsOK
<1>5. Used' = Used \cup {Free}
  BY <1>1, <1>3, <1>4 DEF Used
<1>6. Used' = 1 .. Free
  BY <1>1, <1>5 DEF AttemptsOK, Newest
<1>7. Cardinality(Used') = Free
  BY <1>1, <1>6, FS_Interval
<1>8. \A b \in Used' : attempt'[b].terms \in Terms
  BY <1>1, <1>3, <1>4, <1>5 DEF AttemptsOK, Used
<1> QED BY <1>1, <1>4, <1>5, <1>6, <1>7, <1>8 DEF AttemptsOK, Used

-----------------------------------------------------------------------------
(* The projection, and what an acceptance does.                             *)

Requests == [status : {"none", "pending", "accepted", "declined", "cancelled", "completed"},
             linked : BOOLEAN, revision : Nat]

LEMMA StandingTyped ==
  ASSUME NEW att
  PROVE  Standing(att) \in {"pending", "accepted", "declined", "cancelled"}
BY DEF Standing

LEMMA ProjectedTyped ==
  ASSUME RequestOK, NEW att, NEW tsk
  PROVE  /\ Projected(att, tsk) \in Requests
         /\ Projected(att, tsk).status # "none"
         /\ Projected(att, tsk).linked = request.linked
         /\ Projected(att, tsk).revision \in {request.revision, request.revision + 1}
<1>1. request \in Requests /\ request.revision + 1 \in Nat
  BY DEF RequestOK, Requests
<1>2. CASE request.status = "completed"
  BY <1>1, <1>2 DEF Projected
<1>3. CASE request.status # "completed"
  <2> DEFINE st == IF TaskDone(tsk) THEN "completed" ELSE Standing(att)
  <2>1. st \in {"pending", "accepted", "declined", "cancelled", "completed"}
    BY StandingTyped
  <2>2. Projected(att, tsk) = [request EXCEPT !.status = st, !.revision = @ + 1]
    BY <1>3 DEF Projected
  <2> HIDE DEF st
  <2> QED BY <1>1, <2>1, <2>2 DEF Requests
<1> QED BY <1>2, <1>3

LEMMA BecomesTyped ==
  ASSUME RequestOK, TasksOK, NEW att, Becomes(att)
  PROVE  RequestOK' /\ TasksOK' /\ request'.status # "none"
BY ProjectedTyped DEF Becomes, RequestOK, Requests, TasksOK

LEMMA DueTyped ==
  ASSUME AttemptsOK, TasksOK, NEW a \in Used, NEW t \in Task, NEW patch
  PROVE  /\ PatchedDue(a, t, patch) \in WorkDue \cup {None}
         /\ attempt[a].terms.due \in WorkDue \cup {None}
         /\ Bump(a, patch) \in {0, 1}
<1>1. attempt[a].terms \in Terms
  BY DEF AttemptsOK
<1>2. attempt[a].terms.due \in WorkDue \cup {None}
  BY <1>1 DEF Terms
<1>3. task[t].due \in WorkDue \cup {None}
  BY DEF TasksOK
<1> QED BY <1>2, <1>3 DEF PatchedDue, Bump

LEMMA LinkedTyped ==
  ASSUME RequestOK, AttemptsOK, TasksOK, NEW a \in Used, NEW patch, NEW extra \in {0, 1}
  PROVE  /\ Linked(a, patch, extra) \in Requests
         /\ Linked(a, patch, extra).status # "none"
<1>1. Bump(a, patch) \in {0, 1}
  BY DEF Bump
<1> DEFINE r == Projected(Moved(a, "accepted"), task)
<1>2. r \in Requests /\ r.status # "none"
  BY ProjectedTyped
<1>3. Linked(a, patch, extra) = [r EXCEPT !.linked = TRUE, !.revision = @ + extra + Bump(a, patch)]
  BY DEF Linked
<1> HIDE DEF r
<1>4. r.revision + extra + Bump(a, patch) \in Nat
  BY <1>1, <1>2 DEF Requests
<1> QED BY <1>1, <1>2, <1>3, <1>4 DEF Requests

Tasks == [status : {"absent", "open", "completed", "cancelled"}, revision : Nat \ {0},
          assignee : Party, due : WorkDue \cup {None}]

LEMMA FollowedUpTyped ==
  ASSUME NEW x \in Tasks, NEW kind, NEW due \in WorkDue \cup {None}
  PROVE  [x EXCEPT !.revision = @ + 1,
                   !.status = IF kind = "cancel" THEN "cancelled" ELSE @,
                   !.due = IF kind = "change" THEN due ELSE @] \in Tasks
<1>1. x.revision + 1 \in Nat \ {0}
  BY DEF Tasks
<1>2. CASE kind = "cancel"
  BY <1>1, <1>2 DEF Tasks
<1>3. CASE kind = "change"
  BY <1>1, <1>3 DEF Tasks
<1>4. CASE kind \notin {"cancel", "change"}
  BY <1>1, <1>4 DEF Tasks
<1> QED BY <1>2, <1>3, <1>4

LEMMA ConcludesTyped ==
  ASSUME RequestOK, AttemptsOK, TasksOK, NEW a \in Used, NEW patch \in BOOLEAN, Concludes(a, patch)
  PROVE  /\ AttemptsOK' /\ RequestOK' /\ TasksOK' /\ Used' = Used
         /\ request'.status # "none" /\ attempt' = Moved(a, "accepted")
<1> a \in AttemptId
  BY DEF Used
<1>1. AttemptsOK' /\ Used' = Used /\ attempt' = Moved(a, "accepted")
  BY MovedTyped DEF Concludes, Closed
<1>2. task \in [Task -> Tasks] /\ patched' \subseteq AttemptId
  BY DEF TasksOK, Tasks, Concludes
<1>3. CASE MakeTask(a, patch)
  <2>1. [status |-> "open", revision |-> 1 + Bump(a, patch), assignee |-> "recipient",
         due |-> PatchedDue(a, Anchor, patch)] \in Tasks
    BY DueTyped, TaskAssumption DEF Tasks, Party
  <2>2. task' \in [Task -> Tasks]
    BY <1>2, <1>3, <2>1, TaskAssumption DEF MakeTask
  <2>3. request' \in Requests /\ request'.status # "none"
    BY <1>3, LinkedTyped DEF MakeTask
  <2> QED BY <1>1, <1>2, <2>2, <2>3 DEF TasksOK, Tasks, RequestOK, Requests
<1>4. CASE HandOver(a, patch)
  <2>1. ASSUME NEW t \in Task PROVE task'[t] \in Tasks
    <3>1. [status |-> "open", revision |-> task[t].revision + 1 + Bump(a, patch),
           assignee |-> "recipient", due |-> PatchedDue(a, t, patch)] \in Tasks
      <4>1. task[t].revision \in Nat \ {0}
        BY <1>2 DEF Tasks
      <4> QED BY <4>1, DueTyped DEF Tasks, Party
    <3> QED BY <1>2, <1>4, <3>1 DEF HandOver
  <2>2. task' \in [Task -> Tasks]
    BY <1>4, <2>1 DEF HandOver
  <2>3. request' \in Requests /\ request'.status # "none"
    BY <1>4, LinkedTyped DEF HandOver
  <2> QED BY <1>1, <1>2, <2>2, <2>3 DEF TasksOK, Tasks, RequestOK, Requests
<1>5. CASE ApplyFollowUp(a)
  <2> DEFINE tk == [task[Anchor] EXCEPT !.revision = @ + 1,
                      !.status = IF attempt[a].kind = "cancel" THEN "cancelled" ELSE @,
                      !.due = IF attempt[a].kind = "change" THEN attempt[a].terms.due ELSE @]
  <2>1. tk \in Tasks
    <3>1. task[Anchor] \in Tasks
      BY <1>2, TaskAssumption
    <3> QED BY <3>1, DueTyped, FollowedUpTyped, TaskAssumption
  <2>2. task' = [task EXCEPT ![Anchor] = tk]
    BY <1>2, <1>5, TaskAssumption DEF ApplyFollowUp, Tasks
  <2> HIDE DEF tk
  <2>3. task' \in [Task -> Tasks]
    BY <1>2, <2>1, <2>2, TaskAssumption
  <2>4. request' \in Requests /\ request'.status # "none"
    BY <1>5, ProjectedTyped DEF ApplyFollowUp
  <2> QED BY <1>1, <1>2, <2>3, <2>4 DEF TasksOK, Tasks, RequestOK, Requests
<1> QED BY <1>3, <1>4, <1>5 DEF Concludes

-----------------------------------------------------------------------------
(* Every action keeps the types.                                            *)

LEMMA NextCases ==
  ASSUME Next
  PROVE  \/ \E due \in ReplyDue : Create(due)
         \/ \E p \in Party, op \in Operations : Compose(p, op)
         \/ \E p \in Party : Checking(p) \/ Consult(p) \/ Decline(p) \/ Cancel(p)
         \/ \E p \in Party : EditTerms(p)
         \/ \E p \in Party : ConfirmTerms(p)
         \/ \E p \in Party : Accept(p)
         \/ \E p \in Party : AnswerLate(p)
         \/ \E p \in Party : Repropose(p)
         \/ \E p \in Party : DeclineRequestFollowup(p)
         \/ \E p \in Party, op \in {"followup_change", "followup_cancel"} : StartRequestFollowup(p, op)
         \/ \E p \in Party : Replay(p)
         \/ \E a \in AttemptId : AcceptRequest(a)
         \/ \E a \in AttemptId : DeclineRequest(a)
         \/ ExpireRequestAttempts
         \/ \E t \in Task : CompleteTask(t) \/ ReopenTask(t) \/ CheckItem(t)
         \/ \E t \in Task, due \in WorkDue \cup {None}, who \in Party : EditTask(t, due, who)
         \/ Tick
BY DEF Next

LEMMA RecordsTyped ==
  ASSUME Typing, NEW p \in Party, NEW result \in Open \cup Closed \cup {"none"}, Records(p, result)
  PROVE  receipt' \in [Party -> Open \cup Closed \cup {"none"}] /\ cmd' = cmd /\ ClockOK'
BY DEF Records, Typing, RecordsOK, ClockOK

LEMMA AgreesTyped ==
  ASSUME Typing, NEW a \in AttemptId, NEW p \in Party, NEW terms \in Terms, Agrees(a, p, terms)
  PROVE  agreed' \in [AttemptId -> [Party -> Terms \cup {NoTerms}]]
<1>1. agreed[a] \in [Party -> Terms \cup {NoTerms}]
  BY DEF Typing, RecordsOK
<1>2. [agreed[a] EXCEPT ![p] = terms] \in [Party -> Terms \cup {NoTerms}]
  BY <1>1
<1>3. agreed' = [agreed EXCEPT ![a] = [agreed[a] EXCEPT ![p] = terms]]
  BY DEF Agrees, Typing, RecordsOK
<1> QED BY <1>2, <1>3 DEF Typing, RecordsOK

\* The attempt an operation at the server is about.
LEMMA SentTyped ==
  ASSUME Typing, NEW p \in Party, cmd[p].action # "none"
  PROVE  /\ cmd[p].attempt \in Used /\ cmd[p].attempt \in AttemptId
         /\ cmd[p].seen \in Terms /\ cmd[p].terms \in Terms
         /\ cmd[p].reply_due \in ReplyDue \cup {Never}
         /\ cmd[p].revision \in Nat
<1>1. cmd[p] \in Command
  BY DEF Typing, CommandsOK
<1> QED BY <1>1 DEF Typing, CommandsOK, Command, Used

LEMMA MoveTyped ==
  ASSUME Typing, NEW a \in Used, NEW s \in Open \cup Closed, Becomes(Moved(a, s))
  PROVE  AttemptsOK' /\ RequestOK' /\ TasksOK' /\ Begun' /\ Used' = Used
<1>1. AttemptsOK' /\ Used' = Used
  BY MovedTyped DEF Becomes, Typing
<1>2. RequestOK' /\ TasksOK' /\ request'.status # "none"
  BY BecomesTyped DEF Typing
<1> QED BY <1>1, <1>2 DEF Begun

LEMMA CommandsKept ==
  ASSUME Typing, UNCHANGED cmd, Used \subseteq Used'
  PROVE  CommandsOK'
BY DEF Typing, CommandsOK

LEMMA AnswersTyped ==
  ASSUME Typing, NEW p \in Party,
         Checking(p) \/ Consult(p) \/ Decline(p) \/ Cancel(p) \/ DeclineRequestFollowup(p)
  PROVE  Typing'
<1> DEFINE a == cmd[p].attempt
<1>1. cmd[p].action # "none"
  BY DEF Checking, Consult, Decline, Cancel, DeclineRequestFollowup, Arrives
<1>2. a \in Used
  BY <1>1, SentTyped
<1>3. \E s \in {"checking", "consulting", "declined", "cancelled"} :
        Becomes(Moved(a, s)) /\ Records(p, s) /\ UNCHANGED <<confirmed, agreed>>
  BY DEF Checking, Consult, Decline, Cancel, DeclineRequestFollowup, RefusesFollowup
<1>4. PICK s \in {"checking", "consulting", "declined", "cancelled"} :
        Becomes(Moved(a, s)) /\ Records(p, s) /\ UNCHANGED <<confirmed, agreed>>
  BY <1>3
<1>5. s \in Open \cup Closed
  BY DEF Open, Closed
<1>6. AttemptsOK' /\ RequestOK' /\ TasksOK' /\ Begun' /\ Used' = Used
  BY <1>2, <1>4, <1>5, MoveTyped
<1>7. receipt' \in [Party -> Open \cup Closed \cup {"none"}] /\ cmd' = cmd /\ ClockOK'
  BY <1>4, <1>5, RecordsTyped
<1>8. CommandsOK'
  BY <1>6, <1>7, CommandsKept
<1> QED BY <1>4, <1>6, <1>7, <1>8 DEF Typing, RecordsOK

LEMMA ExpiryTyped ==
  ASSUME Typing, NEW a \in AttemptId, TooLate(a)
  PROVE  AttemptsOK' /\ RequestOK' /\ TasksOK' /\ Begun' /\ Used' = Used
<1>1. a \in Used
  BY DEF TooLate, Overdue, Open, Used
<1> QED BY <1>1, MoveTyped DEF TooLate, Closed

LEMMA LateTyped ==
  ASSUME Typing, NEW p \in Party, AnswerLate(p)
  PROVE  Typing'
<1> DEFINE a == cmd[p].attempt
<1>1. cmd[p].action # "none"
  BY DEF AnswerLate, Transitions
<1>2. a \in Used /\ a \in AttemptId
  BY <1>1, SentTyped
<1>3. receipt' \in [Party -> Open \cup Closed \cup {"none"}] /\ cmd' = cmd /\ ClockOK'
  BY RecordsTyped DEF AnswerLate, Closed
<1>4. AttemptsOK' /\ RequestOK' /\ TasksOK' /\ Begun' /\ Used' = Used
  <2>1. CASE TooLate(a)
    BY <1>2, <2>1, ExpiryTyped
  <2>2. CASE UNCHANGED <<request, attempt, task, patched>>
    BY <2>2 DEF Typing, AttemptsOK, RequestOK, TasksOK, Begun, Used
  <2> QED BY <2>1, <2>2 DEF AnswerLate
<1>5. CommandsOK'
  BY <1>3, <1>4, CommandsKept
<1> QED BY <1>3, <1>4, <1>5 DEF Typing, RecordsOK, AnswerLate

LEMMA WorkerTyped ==
  ASSUME Typing, ExpireRequestAttempts
  PROVE  Typing'
<1>1. PICK a \in AttemptId : TooLate(a)
  BY DEF ExpireRequestAttempts
<1>2. AttemptsOK' /\ RequestOK' /\ TasksOK' /\ Begun' /\ Used' = Used
  BY <1>1, ExpiryTyped
<1>3. CommandsOK'
  BY <1>2, CommandsKept DEF ExpireRequestAttempts
<1> QED BY <1>2, <1>3 DEF ExpireRequestAttempts, Typing, RecordsOK, ClockOK

LEMMA EditTermsTyped ==
  ASSUME Typing, NEW p \in Party, EditTerms(p)
  PROVE  Typing'
<1> DEFINE a == cmd[p].attempt
           att == Edited(a, cmd[p].terms)
<1>1. cmd[p].action # "none"
  BY DEF EditTerms, Arrives
<1>2. a \in Used /\ cmd[p].terms \in Terms
  BY <1>1, SentTyped
<1>3. Becomes(att)
  BY DEF EditTerms
<1>4. AttemptsOK' /\ Used' = Used
  BY <1>2, <1>3, EditedTyped DEF Becomes, Typing
<1>5. RequestOK' /\ TasksOK' /\ request'.status # "none"
  BY <1>3, BecomesTyped DEF Typing
<1>6. receipt' \in [Party -> Open \cup Closed \cup {"none"}] /\ cmd' = cmd /\ ClockOK'
  BY RecordsTyped DEF EditTerms, Open
<1>7. CommandsOK'
  BY <1>4, <1>6, CommandsKept
<1> QED BY <1>2, <1>4, <1>5, <1>6, <1>7 DEF Typing, RecordsOK, Begun, EditTerms

LEMMA ConclusionTyped ==
  ASSUME Typing, NEW a \in Used, NEW patch \in BOOLEAN, Concludes(a, patch)
  PROVE  AttemptsOK' /\ RequestOK' /\ TasksOK' /\ Begun' /\ Used' = Used
         /\ attempt'[a].state = "accepted"
<1>1. AttemptsOK' /\ RequestOK' /\ TasksOK' /\ Used' = Used
      /\ request'.status # "none" /\ attempt' = Moved(a, "accepted")
  BY ConcludesTyped DEF Typing
<1>2. a \in AttemptId /\ attempt \in [AttemptId -> Attempt]
  BY DEF Used, Typing, AttemptsOK
<1>3. attempt'[a].state = "accepted"
  BY <1>1, <1>2 DEF Moved, Attempt
<1> QED BY <1>1, <1>3 DEF Begun

LEMMA ConfirmTyped ==
  ASSUME Typing, NEW a \in Used, NEW p \in Party, NEW patch \in BOOLEAN, Confirm(a, p, patch)
  PROVE  /\ AttemptsOK' /\ RequestOK' /\ TasksOK' /\ Begun' /\ Used' = Used
         /\ confirmed' \subseteq AttemptId \X Nat \X Party
<1>1. <<a, attempt[a].terms_revision, p>> \in AttemptId \X Nat \X Party
  BY AttemptFields DEF Used, Typing
<1>2. confirmed' \subseteq AttemptId \X Nat \X Party
  BY <1>1 DEF Confirm, Confirms, Typing, RecordsOK
<1>3. CASE Concludes(a, patch)
  BY <1>2, <1>3, ConclusionTyped
<1>4. CASE Becomes(Moved(a, "awaiting_confirmation"))
  BY <1>2, <1>4, MoveTyped DEF Open
<1> QED BY <1>3, <1>4 DEF Confirm

LEMMA ConfirmTermsTyped ==
  ASSUME Typing, NEW p \in Party, ConfirmTerms(p)
  PROVE  Typing'
<1> DEFINE a == cmd[p].attempt
<1>1. a \in Used /\ a \in AttemptId /\ cmd[p].seen \in Terms
  BY SentTyped DEF ConfirmTerms, Arrives
<1>2. /\ AttemptsOK' /\ RequestOK' /\ TasksOK' /\ Begun' /\ Used' = Used
      /\ confirmed' \subseteq AttemptId \X Nat \X Party
  BY <1>1, ConfirmTyped DEF ConfirmTerms
<1>3. attempt'[a].state \in Open \cup Closed \cup {"none"}
  BY <1>1, <1>2 DEF AttemptsOK, Attempt
<1>4. receipt' \in [Party -> Open \cup Closed \cup {"none"}] /\ cmd' = cmd /\ ClockOK'
  BY <1>3, RecordsTyped DEF ConfirmTerms
<1>5. agreed' \in [AttemptId -> [Party -> Terms \cup {NoTerms}]]
  BY <1>1, AgreesTyped DEF ConfirmTerms
<1>6. CommandsOK'
  BY <1>2, <1>4, CommandsKept
<1> QED BY <1>2, <1>4, <1>5, <1>6 DEF Typing, RecordsOK

LEMMA AcceptTyped ==
  ASSUME Typing, NEW p \in Party, Accept(p)
  PROVE  Typing'
<1> DEFINE a == cmd[p].attempt
<1>1. a \in Used /\ a \in AttemptId /\ cmd[p].seen \in Terms
  BY SentTyped DEF Accept, Arrives
<1>2. AttemptsOK' /\ RequestOK' /\ TasksOK' /\ Begun' /\ Used' = Used
  BY <1>1, ConclusionTyped DEF Accept
<1>3. receipt' \in [Party -> Open \cup Closed \cup {"none"}] /\ cmd' = cmd /\ ClockOK'
  BY RecordsTyped DEF Accept, Closed
<1>4. agreed' \in [AttemptId -> [Party -> Terms \cup {NoTerms}]]
  BY <1>1, AgreesTyped DEF Accept
<1>5. CommandsOK'
  BY <1>2, <1>3, CommandsKept
<1> QED BY <1>2, <1>3, <1>4, <1>5 DEF Typing, RecordsOK, Accept

LEMMA SnapTyped ==
  ASSUME Typing, NEW S \in SUBSET Task, NEW due \in WorkDue \cup {None}
  PROVE  [due |-> due, base |-> Snap(S)] \in Terms
<1>1. ASSUME NEW t \in Task
      PROVE  [revision |-> task[t].revision, assignee |-> task[t].assignee, due |-> task[t].due] \in Snapshot
  BY DEF Typing, TasksOK, Snapshot
<1>2. Snap(S) \in [Task -> Snapshot \cup {NotATarget}]
  BY <1>1 DEF Snap
<1> QED BY <1>2 DEF Terms

LEMMA CreateTyped ==
  ASSUME Typing, NEW due \in ReplyDue, Create(due)
  PROVE  Typing'
<1> DEFINE targets == IF Kind = "light" THEN {}
                      ELSE {t \in Task : task[t].status = "open" /\ task[t].assignee = "requester"}
           terms == [due |-> None, base |-> Snap(targets)]
<1>1. terms \in Terms
  BY SnapTyped
<1>2. Used = {}
  BY DEF Create, Typing, Begun
<1>3. Newest = 0 /\ Newest < MaxAttempts
  BY <1>2, FS_EmptySet, BoundAssumption DEF Newest
<1>4. attempt' = New("initial", "pending", terms, due, "requester")
  BY DEF Create
<1> HIDE DEF terms
<1>5. AttemptsOK' /\ Used' = Used \cup {Free} /\ Free \in AttemptId
  BY <1>1, <1>3, <1>4, NewTyped DEF Typing, Main, Open, Party
<1>6. RequestOK' /\ request'.status # "none"
  BY DEF Create, RequestOK
<1>7. agreed' \in [AttemptId -> [Party -> Terms \cup {NoTerms}]]
  <2>1. Agrees(Free, "requester", terms)
    BY DEF Create, Agrees, terms
  <2> QED BY <1>1, <1>5, <2>1, AgreesTyped DEF Party
<1>8. CommandsOK'
  BY <1>5, CommandsKept DEF Create
<1> QED BY <1>5, <1>6, <1>7, <1>8 DEF Create, Typing, Begun, TasksOK, RecordsOK, ClockOK

LEMMA ProposalsTyped ==
  ASSUME Typing, NEW op, NEW seen \in Terms, NEW terms \in Proposals(op, seen)
  PROVE  terms \in Terms
<1>1. CASE op = "edit_terms"
  <2>1. PICK d \in WorkDue \cup {None} : terms = [seen EXCEPT !.due = d]
    BY <1>1 DEF Proposals
  <2> QED BY <2>1 DEF Terms
<1>2. CASE op \in {"followup_change", "followup_cancel"}
  <2>1. \E d \in WorkDue \cup {None} : terms = [due |-> d, base |-> Snap({Anchor})]
    BY <1>2 DEF Proposals
  <2> QED BY <2>1, SnapTyped, TaskAssumption
<1>3. CASE op \notin {"edit_terms", "followup_change", "followup_cancel"}
  BY <1>3 DEF Proposals
<1> QED BY <1>1, <1>2, <1>3

LEMMA ComposeTyped ==
  ASSUME Typing, NEW p \in Party, NEW op \in Operations, Compose(p, op)
  PROVE  Typing'
<1> DEFINE a == Newest
<1>1. a \in Used /\ a \in AttemptId
  <2>1. Used # {} /\ Used = 1 .. a /\ a \in Nat
    BY UsedCounts DEF Compose, Typing, AttemptsOK, Newest
  <2> QED BY <2>1 DEF Used
<1>2. attempt[a].terms \in Terms
  BY <1>1 DEF Typing, AttemptsOK
<1>3. PICK terms \in Proposals(op, attempt[a].terms), due \in Deadlines(op) :
        cmd' = [cmd EXCEPT ![p] =
             [action |-> op, attempt |-> a,
              revision |-> IF op \in {"repropose", "followup_change", "followup_cancel"}
                           THEN request.revision ELSE attempt[a].revision,
              terms_revision |-> attempt[a].terms_revision,
              seen |-> attempt[a].terms, terms |-> terms, reply_due |-> due]]
  BY DEF Compose
<1>4. terms \in Terms
  BY <1>2, ProposalsTyped
<1>5. due \in ReplyDue \cup {Never}
  BY DEF Deadlines
<1> DEFINE rev == IF op \in {"repropose", "followup_change", "followup_cancel"}
                  THEN request.revision ELSE attempt[a].revision
           c == [action |-> op, attempt |-> a, revision |-> rev,
                 terms_revision |-> attempt[a].terms_revision,
                 seen |-> attempt[a].terms, terms |-> terms, reply_due |-> due]
<1>6. rev \in Nat /\ attempt[a].terms_revision \in Nat
  BY <1>1, AttemptFields DEF Typing, RequestOK
<1>7. c \in Command /\ c.attempt \in Used /\ c.seen \in Terms /\ c.terms \in Terms
  BY <1>1, <1>2, <1>4, <1>5, <1>6 DEF Command
<1>8. cmd' = [cmd EXCEPT ![p] = c]
  BY <1>3
<1> HIDE DEF c
<1>9. UNCHANGED <<now, sends, request, attempt, confirmed, task, patched, agreed>>
      /\ receipt' = [receipt EXCEPT ![p] = "none"]
  BY DEF Compose
<1>10. AttemptsOK' /\ RequestOK' /\ TasksOK' /\ Begun' /\ ClockOK' /\ Used' = Used
  BY <1>9 DEF Typing, AttemptsOK, RequestOK, TasksOK, Begun, ClockOK, Used
<1>11. CommandsOK'
  BY <1>7, <1>8, <1>10 DEF Typing, CommandsOK
<1> QED BY <1>9, <1>10, <1>11 DEF Typing, RecordsOK

LEMMA ReproposeTyped ==
  ASSUME Typing, NEW p \in Party, Repropose(p)
  PROVE  Typing'
<1>1. cmd[p].seen \in Terms /\ cmd[p].reply_due \in ReplyDue \cup {Never}
  BY SentTyped DEF Repropose, Arrives
<1>2. PICK old \in AttemptId :
        /\ LastProposed(attempt, old)
        /\ attempt' = New("reproposal", "pending", attempt[old].terms, cmd[p].reply_due, p)
  BY DEF Repropose
<1>3. attempt[old].terms \in Terms
  BY <1>2 DEF LastProposed, Proposed, Typing, AttemptsOK, Used
<1>4. AttemptsOK' /\ Used' = Used \cup {Free} /\ Free \in AttemptId
  BY <1>1, <1>2, <1>3, NewTyped DEF Repropose, Newest, Typing, Main, Open
<1>5. RequestOK' /\ request'.status # "none"
  <2>1. request' = [request EXCEPT !.status = "pending", !.revision = @ + 1] /\ request.revision + 1 \in Nat
    BY DEF Repropose, Reopened, Typing, RequestOK
  <2> QED BY <2>1 DEF Typing, RequestOK
<1>6. receipt' \in [Party -> Open \cup Closed \cup {"none"}] /\ cmd' = cmd /\ ClockOK'
  BY RecordsTyped DEF Repropose, Open
<1>7. agreed' \in [AttemptId -> [Party -> Terms \cup {NoTerms}]]
  BY <1>1, <1>4, AgreesTyped DEF Repropose
<1>8. CommandsOK'
  BY <1>4, <1>6, CommandsKept
<1> QED BY <1>4, <1>5, <1>6, <1>7, <1>8 DEF Repropose, Typing, Begun, TasksOK, RecordsOK

LEMMA FollowupTyped ==
  ASSUME Typing, NEW p \in Party, NEW op \in {"followup_change", "followup_cancel"}, StartRequestFollowup(p, op)
  PROVE  Typing'
<1>1. cmd[p].terms \in Terms /\ cmd[p].reply_due \in ReplyDue \cup {Never}
  BY SentTyped DEF StartRequestFollowup, Arrives
<1> DEFINE att == New(FollowUpKind[op], "awaiting_confirmation", cmd[p].terms, cmd[p].reply_due, p)
<1>2. FollowUpKind[op] \in FollowUp
  BY DEF FollowUpKind, FollowUp
<1>3. attempt' = att /\ Newest < MaxAttempts
  BY DEF StartRequestFollowup, Becomes, Newest
<1>4. AttemptsOK' /\ Used' = Used \cup {Free} /\ Free \in AttemptId
  BY <1>1, <1>2, <1>3, NewTyped DEF Typing, Open
<1>5. Becomes(att)
  BY DEF StartRequestFollowup
<1>6. RequestOK' /\ TasksOK' /\ request'.status # "none"
  BY <1>5, BecomesTyped DEF Typing
<1>7. receipt' \in [Party -> Open \cup Closed \cup {"none"}] /\ cmd' = cmd /\ ClockOK'
  BY RecordsTyped DEF StartRequestFollowup, Open
<1>8. agreed' \in [AttemptId -> [Party -> Terms \cup {NoTerms}]]
  BY <1>1, <1>4, AgreesTyped DEF StartRequestFollowup
<1>9. confirmed' \subseteq AttemptId \X Nat \X Party
  <2>1. <<Free, 1, p>> \in AttemptId \X Nat \X Party
    BY <1>4
  <2>2. confirmed' = confirmed \cup {<<Free, 1, p>>}
    BY DEF StartRequestFollowup
  <2> QED BY <2>1, <2>2 DEF Typing, RecordsOK
<1>10. CommandsOK'
  BY <1>4, <1>7, CommandsKept
<1> QED BY <1>4, <1>6, <1>7, <1>8, <1>9, <1>10 DEF Typing, Begun, RecordsOK

LEMMA CardTermsTyped == CardTerms \in Terms
BY DEF CardTerms, Terms, NoBase, None

LEMMA AcceptRequestTyped ==
  ASSUME Typing, NEW a \in AttemptId, AcceptRequest(a)
  PROVE  Typing'
<1>1. a \in Used
  BY DEF AcceptRequest, ById, Used, Open
<1>2. UNCHANGED <<now, sends, cmd, receipt>>
  BY DEF AcceptRequest
<1>3. /\ AttemptsOK' /\ RequestOK' /\ TasksOK' /\ Begun' /\ Used' = Used
      /\ confirmed' \subseteq AttemptId \X Nat \X Party
      /\ agreed' \in [AttemptId -> [Party -> Terms \cup {NoTerms}]]
  <2>1. CASE TooLate(a) /\ UNCHANGED <<confirmed, agreed>>
    BY <2>1, ExpiryTyped DEF Typing, RecordsOK
  <2>2. CASE Agrees(a, "recipient", CardTerms) /\ Concludes(a, FALSE) /\ UNCHANGED confirmed
    BY <1>1, <2>2, ConclusionTyped, AgreesTyped, CardTermsTyped DEF Typing, RecordsOK, Party
  <2>3. CASE Agrees(a, "recipient", CardTerms) /\ Confirm(a, "recipient", FALSE)
    BY <1>1, <2>3, ConfirmTyped, AgreesTyped, CardTermsTyped DEF Party
  <2> QED BY <2>1, <2>2, <2>3 DEF AcceptRequest
<1>4. CommandsOK'
  BY <1>2, <1>3, CommandsKept
<1> QED BY <1>2, <1>3, <1>4 DEF Typing, RecordsOK, ClockOK

LEMMA DeclineRequestTyped ==
  ASSUME Typing, NEW a \in AttemptId, DeclineRequest(a)
  PROVE  Typing'
<1>1. a \in Used
  BY DEF DeclineRequest, ById, Used, Open
<1>2. UNCHANGED <<now, sends, cmd, receipt, confirmed, agreed>>
  BY DEF DeclineRequest
<1>3. Becomes(Moved(a, "declined")) \/ TooLate(a)
  BY DEF DeclineRequest, RefusesFollowup
<1>4. AttemptsOK' /\ RequestOK' /\ TasksOK' /\ Begun' /\ Used' = Used
  BY <1>1, <1>3, MoveTyped, ExpiryTyped DEF Closed
<1>5. CommandsOK'
  BY <1>2, <1>4, CommandsKept
<1> QED BY <1>2, <1>4, <1>5 DEF Typing, RecordsOK, ClockOK

LEMMA ReplayTyped ==
  ASSUME Typing, NEW p \in Party, Replay(p)
  PROVE  Typing'
<1> DEFINE a == cmd[p].attempt
<1>1. UNCHANGED <<now, sends, attempt, confirmed, cmd, receipt, agreed>>
  BY DEF Replay
<1>2. AttemptsOK' /\ CommandsOK' /\ RecordsOK' /\ ClockOK' /\ Used' = Used
  BY <1>1 DEF Typing, AttemptsOK, CommandsOK, RecordsOK, ClockOK, Used
<1>3. CASE UNCHANGED <<task, request, patched>>
  BY <1>2, <1>3 DEF Typing, RequestOK, TasksOK, Begun
<1>4. CASE ~UNCHANGED <<task, request, patched>>
  <2>1. /\ attempt[a].state = "accepted"
        /\ task' = [task EXCEPT ![Anchor] = [task[Anchor] EXCEPT !.due = attempt[a].terms.due, !.revision = @ + 1]]
        /\ request' = [request EXCEPT !.revision = @ + 1]
        /\ patched' = patched \cup {a}
    BY <1>4 DEF Replay
  <2>2. a \in AttemptId
    BY DEF Typing, CommandsOK, Command
  <2>3. a \in Used /\ attempt[a].terms.due \in WorkDue \cup {None}
    BY <2>1, <2>2 DEF Used, Typing, AttemptsOK, Terms
  <2> DEFINE tk == [task[Anchor] EXCEPT !.due = attempt[a].terms.due, !.revision = @ + 1]
  <2>4. task \in [Task -> Tasks] /\ task[Anchor].revision + 1 \in Nat \ {0}
    BY TaskAssumption DEF Typing, TasksOK, Tasks
  <2>5. task' = [task EXCEPT ![Anchor] = tk]
    BY <2>1, <2>4, TaskAssumption DEF Tasks
  <2>6. tk \in Tasks
    BY <2>3, <2>4, TaskAssumption DEF Tasks
  <2> HIDE DEF tk
  <2>7. task' \in [Task -> Tasks]
    BY <2>4, <2>5, <2>6, TaskAssumption
  <2>8. request.revision + 1 \in Nat
    BY DEF Typing, RequestOK
  <2>9. RequestOK' /\ request'.status = request.status
    BY <2>1, <2>8 DEF Typing, RequestOK
  <2> QED BY <1>2, <2>1, <2>2, <2>7, <2>9 DEF Typing, TasksOK, Tasks, Begun
<1> QED BY <1>3, <1>4

LEMMA TouchTyped ==
  ASSUME Typing, NEW t \in Task, NEW s \in {"open", "completed"}, Touch(t, s)
  PROVE  TasksOK'
<1> DEFINE tk == [task[t] EXCEPT !.status = s, !.revision = @ + 1]
<1>1. task \in [Task -> Tasks] /\ task[t].revision + 1 \in Nat \ {0}
  BY DEF Typing, TasksOK, Tasks
<1>2. task' = [task EXCEPT ![t] = tk]
  BY <1>1 DEF Touch, Tasks
<1>3. tk \in Tasks
  BY <1>1 DEF Tasks
<1> HIDE DEF tk
<1> QED BY <1>1, <1>2, <1>3 DEF Touch, Typing, TasksOK, Tasks

LEMMA WorkTyped ==
  ASSUME Typing, NEW t \in Task, CompleteTask(t) \/ ReopenTask(t) \/ CheckItem(t)
  PROVE  Typing'
<1>1. PICK s \in {"open", "completed"} : Touch(t, s)
  BY DEF CompleteTask, ReopenTask, CheckItem
<1>2. UNCHANGED <<now, sends, attempt, confirmed, patched, cmd, receipt, agreed>>
  BY <1>1 DEF Touch
<1>3. AttemptsOK' /\ CommandsOK' /\ RecordsOK' /\ ClockOK' /\ Used' = Used
  BY <1>2 DEF Typing, AttemptsOK, CommandsOK, RecordsOK, ClockOK, Used
<1>4. request.revision + 1 \in Nat
  BY DEF Typing, RequestOK
<1>5. RequestOK' /\ (request'.status = "none" <=> request.status = "none")
  <2>1. CASE CompleteTask(t)
    BY <1>4, <2>1 DEF CompleteTask, OfRequest, Typing, RequestOK
  <2>2. CASE ReopenTask(t)
    BY <2>2 DEF ReopenTask, OfRequest, Typing, RequestOK
  <2>3. CASE CheckItem(t)
    BY <2>3 DEF CheckItem, Typing, RequestOK
  <2> QED BY <2>1, <2>2, <2>3
<1> QED BY <1>1, <1>3, <1>5, TouchTyped DEF Typing, Begun

LEMMA EditTaskTyped ==
  ASSUME Typing, NEW t \in Task, NEW due \in WorkDue \cup {None}, NEW who \in Party, EditTask(t, due, who)
  PROVE  Typing'
<1> DEFINE tk == [task[t] EXCEPT !.due = due, !.assignee = who]
<1>1. task \in [Task -> Tasks]
  BY DEF Typing, TasksOK, Tasks
<1>2. task' = [task EXCEPT ![t] = tk]
  BY <1>1 DEF EditTask, Tasks
<1>3. tk \in Tasks
  BY <1>1 DEF Tasks
<1> HIDE DEF tk
<1>p. task' \in [Task -> Tasks]
  BY <1>1, <1>2, <1>3
<1>4. TasksOK'
  BY <1>p DEF EditTask, Typing, TasksOK, Tasks
<1> QED BY <1>4 DEF EditTask, Typing, AttemptsOK, RequestOK, CommandsOK, RecordsOK, ClockOK, Begun, Used

LEMMA InitTyped == Init => Typing
<1> SUFFICES ASSUME Init PROVE Typing
  OBVIOUS
<1>1. Used = {}
  BY DEF Init, Used, NoAttempt
<1>2. AttemptsOK
  <2>1. NoAttempt \in Attempt
    BY DEF NoAttempt, Attempt, Main, Party
  <2>2. Used = 1 .. Cardinality(Used)
    BY <1>1, FS_EmptySet
  <2> QED BY <1>1, <2>1, <2>2 DEF AttemptsOK, Init
<1>3. CommandsOK
  BY BoundAssumption DEF Init, CommandsOK, NoCommand, Command, AttemptId
<1>4. TasksOK
  BY DEF Init, TasksOK, Party
<1> QED BY <1>1, <1>2, <1>3, <1>4, BoundAssumption DEF Init, Typing, RequestOK, RecordsOK, ClockOK, Begun

LEMMA StepTyped == Typing /\ [Next]_vars => Typing'
<1> SUFFICES ASSUME Typing, [Next]_vars PROVE Typing'
  OBVIOUS
<1>1. CASE UNCHANGED vars
  BY <1>1 DEF vars, Typing, AttemptsOK, RequestOK, TasksOK, CommandsOK, RecordsOK, ClockOK, Begun, Used
<1>2. CASE Tick
  BY <1>2, BoundAssumption DEF Tick, Typing, AttemptsOK, RequestOK, TasksOK, CommandsOK, RecordsOK, ClockOK, Begun, Used
<1> QED
  BY <1>1, <1>2, NextCases, CreateTyped, ComposeTyped, AnswersTyped, EditTermsTyped, ConfirmTermsTyped,
     AcceptTyped, LateTyped, ReproposeTyped, FollowupTyped, ReplayTyped, AcceptRequestTyped,
     DeclineRequestTyped, WorkerTyped, WorkTyped, EditTaskTyped

LEMMA TypingHolds == Spec => []Typing
BY InitTyped, StepTyped, PTL DEF Spec

\* In every state the rows of the request have their types, its attempts fill
\* the first numbers, and only terms somebody wrote are ever agreed to.
THEOREM RequestTyping == Spec => []TypeOK
BY TypingHolds, TypingTypes, PTL

-----------------------------------------------------------------------------
(* What a step does to the attempts, whichever operation it is.             *)

\* An open attempt moves on; it is never pending again.
Moves(a, s) == /\ a \in OpenOnes /\ s \in (Open \cup Closed) \ {"pending"}
               /\ s = "checking" => attempt[a].state = "pending"
               /\ attempt' = Moved(a, s)
Edits(a, terms) == a \in OpenOnes /\ terms \in Terms /\ attempt' = Edited(a, terms)
\* A proposal is made, the first or after an expired one, or a follow-up.
Proposes(kind, terms, due) ==
  /\ Newest < MaxAttempts /\ terms \in Terms /\ due \in ReplyDue \cup {Never}
  /\ kind \in Main
  /\ \/ kind = "initial" /\ Used = {}
     \/ /\ kind = "reproposal"
        /\ \E old \in AttemptId : LastProposed(attempt, old) /\ attempt[old].state = "expired"
  /\ attempt' = New(kind, "pending", terms, due, "requester")
Follows(kind, terms, due, p) ==
  /\ Newest < MaxAttempts /\ terms \in Terms /\ due \in ReplyDue \cup {Never} /\ p \in Party
  /\ kind \in FollowUp /\ (\E a \in Used : Agreement(a))
  /\ attempt' = New(kind, "awaiting_confirmation", terms, due, p)

AttemptStep ==
  \/ attempt' = attempt
  \/ \E a \in AttemptId, s \in Open \cup Closed : Moves(a, s)
  \/ \E a \in AttemptId, terms \in Terms : Edits(a, terms)
  \/ \E kind \in Main, terms \in Terms, due \in ReplyDue \cup {Never} : Proposes(kind, terms, due)
  \/ \E kind \in FollowUp, terms \in Terms, due \in ReplyDue \cup {Never}, p \in Party :
       Follows(kind, terms, due, p)

LEMMA OpenOnesIn == OpenOnes = {a \in AttemptId : attempt[a].state \in Open} /\ OpenOnes \subseteq Used
BY DEF OpenOnes, Used, Open

LEMMA MovedRows ==
  ASSUME Typing, NEW a \in AttemptId, NEW s
  PROVE  \A b \in AttemptId :
           /\ Moved(a, s)[b].kind = attempt[b].kind /\ Moved(a, s)[b].terms = attempt[b].terms
           /\ Moved(a, s)[b].terms_revision = attempt[b].terms_revision
           /\ Moved(a, s)[b].state = IF b = a THEN s ELSE attempt[b].state
           /\ b # a => Moved(a, s)[b] = attempt[b]
BY DEF Moved, Typing, AttemptsOK, Attempt

LEMMA EditedRows ==
  ASSUME Typing, NEW a \in AttemptId, NEW terms
  PROVE  \A b \in AttemptId :
           /\ Edited(a, terms)[b].kind = attempt[b].kind
           /\ Edited(a, terms)[b].terms = IF b = a THEN terms ELSE attempt[b].terms
           /\ Edited(a, terms)[b].terms_revision =
                IF b = a THEN attempt[b].terms_revision + 1 ELSE attempt[b].terms_revision
           /\ Edited(a, terms)[b].state = IF b = a THEN "consulting" ELSE attempt[b].state
           /\ b # a => Edited(a, terms)[b] = attempt[b]
<1> DEFINE m == Moved(a, "consulting")
           row == [attempt[a] EXCEPT !.state = "consulting", !.revision = @ + 1]
<1>1. attempt[a] \in Attempt /\ row \in Attempt /\ row.terms = attempt[a].terms /\ row.state = "consulting"
      /\ row.kind = attempt[a].kind /\ row.terms_revision = attempt[a].terms_revision
  BY RowTyped DEF Typing, AttemptsOK, Open, Attempt
<1>2. m = [attempt EXCEPT ![a] = row]
  BY DEF Moved, Typing, AttemptsOK, Attempt
<1>3. Edited(a, terms) = [m EXCEPT ![a] = [m[a] EXCEPT !.terms = terms, !.terms_revision = @ + 1]]
  BY DEF Edited
<1> HIDE DEF m, row
<1>4. m \in [AttemptId -> Attempt] /\ m[a] = row /\ \A b \in AttemptId : b # a => m[b] = attempt[b]
  BY <1>1, <1>2 DEF Typing, AttemptsOK
<1>5. Edited(a, terms) = [m EXCEPT ![a] = [row EXCEPT !.terms = terms, !.terms_revision = @ + 1]]
  BY <1>3, <1>4 DEF Attempt
<1> QED BY <1>1, <1>4, <1>5 DEF Attempt

LEMMA NewRows ==
  ASSUME Typing, Newest < MaxAttempts, NEW kind, NEW s, NEW terms, NEW due, NEW by
  PROVE  LET att == New(kind, s, terms, due, by)
         IN  /\ Free \in AttemptId /\ Free \notin Used /\ \A a \in Used : a < Free
             /\ \A b \in AttemptId : b # Free => att[b] = attempt[b]
             /\ att[Free].kind = kind /\ att[Free].terms = terms /\ att[Free].terms_revision = 1
             /\ att[Free].state = s
<1>1. Free \in AttemptId /\ Free = Newest + 1 /\ Newest \in Nat /\ Free \notin Used
  BY UsedCounts, BoundAssumption DEF Free, AttemptId, Typing
<1>2. \A a \in Used : a < Free
  BY <1>1 DEF Typing, AttemptsOK, Newest
<1> QED BY <1>1, <1>2 DEF New, Typing, AttemptsOK

LEMMA ConfirmMoves ==
  ASSUME Typing, NEW a \in OpenOnes, NEW p \in Party, NEW patch \in BOOLEAN, Confirm(a, p, patch)
  PROVE  Moves(a, "accepted") \/ Moves(a, "awaiting_confirmation")
BY DEF Confirm, Concludes, Becomes, Moves, Open, Closed

LEMMA LateMoves ==
  ASSUME NEW a \in AttemptId, TooLate(a)
  PROVE  Moves(a, "expired")
BY DEF TooLate, Overdue, Becomes, Moves, OpenOnes, Closed

LEMMA AttemptSteps ==
  ASSUME Typing, [Next]_vars
  PROVE  AttemptStep
<1> USE OpenOnesIn
<1>0. \A p \in Party : cmd[p].attempt \in AttemptId
  BY DEF Typing, CommandsOK, Command
<1>1. CASE attempt' = attempt
  BY <1>1 DEF AttemptStep
<1>2. ASSUME NEW due \in ReplyDue, Create(due) PROVE AttemptStep
  <2> DEFINE targets == IF Kind = "light" THEN {}
                        ELSE {t \in Task : task[t].status = "open" /\ task[t].assignee = "requester"}
             terms == [due |-> None, base |-> Snap(targets)]
  <2>1. attempt' = New("initial", "pending", terms, due, "requester")
    BY <1>2 DEF Create
  <2>2. terms \in Terms
    BY SnapTyped
  <2> HIDE DEF terms
  <2>3. Used = {}
    BY <1>2 DEF Create, Typing, Begun
  <2>4. Newest < MaxAttempts
    BY <2>3, FS_EmptySet, BoundAssumption DEF Newest
  <2> QED BY <2>1, <2>2, <2>3, <2>4 DEF Proposes, AttemptStep, Main
<1>3. ASSUME NEW p \in Party, Checking(p) \/ Consult(p) \/ Decline(p) \/ Cancel(p) \/ DeclineRequestFollowup(p)
      PROVE  AttemptStep
  <2>1. CASE Checking(p)
    BY <1>0, <2>1 DEF Checking, AsSeen, Becomes, Moves, AttemptStep, Open
  <2>2. CASE Consult(p)
    BY <1>0, <2>2 DEF Consult, AsSeen, Becomes, Moves, AttemptStep, Open
  <2>3. CASE Decline(p) \/ Cancel(p)
    BY <1>0, <2>3 DEF Decline, Cancel, AsSeen, Becomes, Moves, AttemptStep, Closed
  <2>4. CASE DeclineRequestFollowup(p)
    BY <1>0, <2>4 DEF DeclineRequestFollowup, RefusesFollowup, Becomes, Moves, AttemptStep, Closed, Open
  <2> QED BY <1>3, <2>1, <2>2, <2>3, <2>4
<1>4. ASSUME NEW p \in Party, EditTerms(p) PROVE AttemptStep
  <2>1. cmd[p].terms \in Terms
    BY <1>4, SentTyped DEF EditTerms, Arrives
  <2> QED BY <1>0, <1>4, <2>1 DEF EditTerms, AsSeen, Becomes, Edits, Edited, AttemptStep
<1>5. ASSUME NEW p \in Party, ConfirmTerms(p) PROVE AttemptStep
  <2>1. cmd[p].attempt \in OpenOnes
    BY <1>0, <1>5 DEF ConfirmTerms, AsSeen
  <2> QED BY <1>5, <2>1, ConfirmMoves DEF ConfirmTerms, AttemptStep, Open, Closed
<1>6. ASSUME NEW p \in Party, Accept(p) PROVE AttemptStep
  BY <1>0, <1>6 DEF Accept, AsSeen, Concludes, Moves, AttemptStep, Closed
<1>7. ASSUME NEW p \in Party, AnswerLate(p) PROVE AttemptStep
  BY <1>0, <1>7, LateMoves DEF AnswerLate, AttemptStep, Closed
<1>8. ASSUME NEW p \in Party, Repropose(p) PROVE AttemptStep
  <2>1. cmd[p].reply_due \in ReplyDue \cup {Never}
    BY <1>8, SentTyped DEF Repropose, Arrives
  <2>2. PICK old \in AttemptId :
          /\ LastProposed(attempt, old) /\ attempt[old].state = "expired"
          /\ attempt' = New("reproposal", "pending", attempt[old].terms, cmd[p].reply_due, "requester")
    BY <1>8 DEF Repropose, Reproposable
  <2>3. attempt[old].terms \in Terms
    BY <2>2 DEF LastProposed, Proposed, Typing, AttemptsOK, Used
  <2>4. Newest < MaxAttempts
    BY <1>8 DEF Repropose, Newest
  <2> QED BY <2>1, <2>2, <2>3, <2>4 DEF Proposes, AttemptStep, Main
<1>9. ASSUME NEW p \in Party, NEW op \in {"followup_change", "followup_cancel"}, StartRequestFollowup(p, op)
      PROVE  AttemptStep
  <2>1. cmd[p].terms \in Terms /\ cmd[p].reply_due \in ReplyDue \cup {Never}
    BY <1>9, SentTyped DEF StartRequestFollowup, Arrives
  <2>2. FollowUpKind[op] \in FollowUp
    BY DEF FollowUpKind, FollowUp
  <2>3. /\ Newest < MaxAttempts /\ \E a \in Used : Agreement(a)
        /\ attempt' = New(FollowUpKind[op], "awaiting_confirmation", cmd[p].terms, cmd[p].reply_due, p)
    BY <1>9 DEF StartRequestFollowup, Becomes, Newest
  <2> QED BY <2>1, <2>2, <2>3 DEF Follows, AttemptStep
<1>10. ASSUME NEW a \in AttemptId, AcceptRequest(a) PROVE AttemptStep
  <2>1. a \in OpenOnes
    BY <1>10 DEF AcceptRequest, ById
  <2>2. CASE TooLate(a)
    BY <2>2, LateMoves DEF AttemptStep, Closed
  <2>3. CASE Concludes(a, FALSE)
    BY <2>1, <2>3 DEF Concludes, Moves, AttemptStep, Closed
  <2>4. CASE Confirm(a, "recipient", FALSE)
    BY <2>1, <2>4, ConfirmMoves DEF AttemptStep, Open, Closed, Party
  <2> QED BY <1>10, <2>2, <2>3, <2>4 DEF AcceptRequest
<1>11. ASSUME NEW a \in AttemptId, DeclineRequest(a) PROVE AttemptStep
  <2>1. a \in OpenOnes
    BY <1>11 DEF DeclineRequest, ById
  <2>2. CASE TooLate(a)
    BY <2>2, LateMoves DEF AttemptStep, Closed
  <2>3. CASE Becomes(Moved(a, "declined"))
    BY <2>1, <2>3 DEF Becomes, Moves, AttemptStep, Closed
  <2> QED BY <1>11, <2>2, <2>3 DEF DeclineRequest, RefusesFollowup
<1>12. CASE ExpireRequestAttempts
  BY <1>12, LateMoves DEF ExpireRequestAttempts, AttemptStep, Closed
<1>13. CASE UNCHANGED vars \/ Tick \/ (\E p \in Party : Replay(p)) \/ (\E p \in Party, op \in Operations : Compose(p, op))
  BY <1>1, <1>13 DEF vars, Tick, Replay, Compose
<1>14. CASE \E t \in Task : \/ CompleteTask(t) \/ ReopenTask(t) \/ CheckItem(t)
                            \/ \E due \in WorkDue \cup {None}, who \in Party : EditTask(t, due, who)
  BY <1>1, <1>14 DEF CompleteTask, ReopenTask, CheckItem, EditTask, Touch
<1> QED
  BY <1>2, <1>3, <1>4, <1>5, <1>6, <1>7, <1>8, <1>9, <1>10, <1>11, <1>12, <1>13, <1>14, NextCases

LEMMA ClosedUnmoved ==
  ASSUME Typing, [Next]_vars, NEW a \in AttemptId, attempt[a].state \in Closed
  PROVE  attempt'[a] = attempt[a]
<1>1. a \notin OpenOnes /\ a \in Used
  BY DEF OpenOnes, Used, Open, Closed
<1>2. CASE attempt' = attempt
  BY <1>2
<1>3. ASSUME NEW b \in AttemptId, NEW s \in Open \cup Closed, Moves(b, s) PROVE attempt'[a] = attempt[a]
  BY <1>1, <1>3, MovedRows DEF Moves
<1>4. ASSUME NEW b \in AttemptId, NEW terms \in Terms, Edits(b, terms) PROVE attempt'[a] = attempt[a]
  BY <1>1, <1>4, EditedRows DEF Edits
<1>5. ASSUME NEW kind \in Main, NEW terms \in Terms, NEW due \in ReplyDue \cup {Never}, Proposes(kind, terms, due)
      PROVE  attempt'[a] = attempt[a]
  BY <1>1, <1>5, NewRows DEF Proposes
<1>6. ASSUME NEW kind \in FollowUp, NEW terms \in Terms, NEW due \in ReplyDue \cup {Never}, NEW p \in Party,
             Follows(kind, terms, due, p)
      PROVE  attempt'[a] = attempt[a]
  BY <1>1, <1>6, NewRows DEF Follows
<1> QED BY <1>2, <1>3, <1>4, <1>5, <1>6, AttemptSteps DEF AttemptStep

\* A closed attempt never changes again: no late or repeated operation, no
\* expiry worker and no old card reaches it (fn_command_transition_request_attempt_v1).
THEOREM ClosedForGood == Spec => ClosedStaysClosed
<1>1. Typing /\ [Next]_vars =>
        [\A a \in AttemptId : attempt[a].state \in Closed => attempt'[a] = attempt[a]]_vars
  BY ClosedUnmoved
<1> QED BY <1>1, TypingHolds, PTL DEF Spec, ClosedStaysClosed

-----------------------------------------------------------------------------
(* One agreement: a proposal is only made when all before it have expired.  *)

IsMain(a) == a \in Used /\ attempt[a].kind \in Main

Chain ==
  /\ \A a, b \in AttemptId : IsMain(a) /\ IsMain(b) /\ a < b => attempt[a].state = "expired"
  /\ \A a \in Used : attempt[a].kind \in FollowUp => \E b \in Used : Agreement(b)

LEMMA MainApart == Main \cap FollowUp = {} /\ "accepted" \notin Open /\ "expired" \notin Open /\ "none" \notin Open
BY DEF Main, FollowUp, Open

LEMMA ChainKept ==
  ASSUME Typing, Chain, [Next]_vars
  PROVE  Chain'
<1> USE MainApart, OpenOnesIn
<1>1. CASE attempt' = attempt
  BY <1>1 DEF Chain, IsMain, Used, Agreement
<1>2. ASSUME NEW c \in OpenOnes, \A b \in AttemptId : attempt'[b].kind = attempt[b].kind
                                      /\ (b # c => attempt'[b].state = attempt[b].state),
             attempt'[c].state # "none"
      PROVE  Chain'
  <2>1. Used' = Used
    BY <1>2 DEF Used
  <2>2. \A b \in Used : Agreement(b) => Agreement(b)'
    BY <1>2 DEF Agreement, Used
  <2>3. \A a \in AttemptId : IsMain(a)' <=> IsMain(a)
    BY <1>2, <2>1 DEF IsMain
  <2>4. \A a \in AttemptId : attempt[a].state = "expired" => attempt'[a].state = "expired"
    BY <1>2
  <2>5. \A a \in Used : attempt'[a].kind = attempt[a].kind
    BY <1>2 DEF Used
  <2> QED BY <2>1, <2>2, <2>3, <2>4, <2>5 DEF Chain
<1>3. ASSUME NEW a \in AttemptId, NEW s \in Open \cup Closed, Moves(a, s) PROVE Chain'
  BY <1>2, <1>3, MovedRows DEF Moves, Closed
<1>4. ASSUME NEW a \in AttemptId, NEW terms \in Terms, Edits(a, terms) PROVE Chain'
  BY <1>2, <1>4, EditedRows DEF Edits
<1>5. ASSUME NEW kind, NEW s \in Open, NEW terms, NEW due, NEW by,
             Newest < MaxAttempts, attempt' = New(kind, s, terms, due, by)
      PROVE  /\ Used' = Used \cup {Free} /\ attempt'[Free].kind = kind /\ attempt'[Free].state = s
             /\ Free \in AttemptId /\ Free \notin Used /\ \A a \in Used : a < Free /\ attempt'[a] = attempt[a]
  <2>1. /\ Free \in AttemptId /\ Free \notin Used /\ \A a \in Used : a < Free
        /\ \A b \in AttemptId : b # Free => attempt'[b] = attempt[b]
        /\ attempt'[Free].kind = kind /\ attempt'[Free].state = s
    BY <1>5, NewRows
  <2> QED BY <2>1 DEF Used
<1>6. ASSUME NEW kind \in Main, NEW terms \in Terms, NEW due \in ReplyDue \cup {Never}, Proposes(kind, terms, due)
      PROVE  Chain'
  <2>1. /\ Used' = Used \cup {Free} /\ attempt'[Free].kind = kind /\ attempt'[Free].state = "pending"
        /\ Free \in AttemptId /\ Free \notin Used /\ \A a \in Used : a < Free /\ attempt'[a] = attempt[a]
    BY <1>5, <1>6 DEF Proposes, Open
  <2>2. \A a \in AttemptId : IsMain(a) => attempt[a].state = "expired"
    <3>1. CASE Used = {}
      BY <3>1 DEF IsMain
    <3>2. ASSUME NEW old \in AttemptId, LastProposed(attempt, old), attempt[old].state = "expired"
          PROVE  \A a \in AttemptId : IsMain(a) => attempt[a].state = "expired"
      <4>1. \A a \in AttemptId : IsMain(a) <=> a \in Proposed(attempt)
        BY DEF IsMain, Proposed, Used
      <4>2. IsMain(old) /\ \A a \in AttemptId : IsMain(a) => a <= old
        BY <3>2, <4>1 DEF LastProposed
      <4>3. \A a \in AttemptId : a \in Nat
        BY DEF AttemptId
      <4> QED BY <3>2, <4>2, <4>3 DEF Chain
    <3> QED BY <1>6, <3>1, <3>2 DEF Proposes
  <2>3. \A a \in AttemptId : IsMain(a)' => a = Free \/ IsMain(a)
    BY <2>1 DEF IsMain
  <2>4. \A a \in AttemptId : a \in Nat
    BY DEF AttemptId
  <2>5. \A a, b \in AttemptId : IsMain(a)' /\ IsMain(b)' /\ a < b => attempt'[a].state = "expired"
    <3> SUFFICES ASSUME NEW a \in AttemptId, NEW b \in AttemptId, IsMain(a)', IsMain(b)', a < b
                 PROVE  attempt'[a].state = "expired"
      OBVIOUS
    <3>1. a # Free
      <4>1. b \in Used \cup {Free}
        BY <2>1 DEF IsMain
      <4> QED BY <2>1, <2>4, <4>1
    <3> QED BY <2>1, <2>2, <2>3, <3>1 DEF IsMain
  <2>6. ASSUME NEW a \in Used', attempt'[a].kind \in FollowUp PROVE \E b \in Used' : Agreement(b)'
    <3>1. a \in Used /\ attempt[a].kind \in FollowUp
      BY <2>1, <2>6
    <3> QED BY <2>1, <3>1 DEF Chain, Agreement
  <2> QED BY <2>5, <2>6 DEF Chain
<1>7. ASSUME NEW kind \in FollowUp, NEW terms \in Terms, NEW due \in ReplyDue \cup {Never}, NEW p \in Party,
             Follows(kind, terms, due, p)
      PROVE  Chain'
  <2>1. /\ Used' = Used \cup {Free} /\ attempt'[Free].kind = kind
        /\ Free \in AttemptId /\ Free \notin Used /\ \A a \in Used : a < Free /\ attempt'[a] = attempt[a]
    BY <1>5, <1>7 DEF Follows, Open
  <2>2. \A a \in AttemptId : IsMain(a)' => IsMain(a) /\ attempt'[a] = attempt[a]
    BY <2>1 DEF IsMain
  <2>3. \E b \in Used' : Agreement(b)'
    BY <1>7, <2>1 DEF Follows, Agreement
  <2> QED BY <2>2, <2>3 DEF Chain
<1> QED BY <1>1, <1>3, <1>4, <1>6, <1>7, AttemptSteps DEF AttemptStep

LEMMA ChainHolds == Spec => [](Typing /\ Chain)
<1>1. Init => Chain
  BY DEF Init, Chain, IsMain, Used, NoAttempt
<1>2. Typing /\ Chain /\ [Next]_vars => Chain'
  BY ChainKept
<1> QED BY <1>1, <1>2, TypingHolds, PTL DEF Spec

LEMMA ChainAgreesOnce ==
  ASSUME Typing, Chain
  PROVE  OneAgreement
<1> DEFINE S == {a \in AttemptId : Agreement(a)}
<1>1. \A a, b \in S : a = b
  <2>1. \A a \in S : IsMain(a) /\ attempt[a].state = "accepted" /\ a \in AttemptId /\ a \in Nat
    BY DEF Agreement, IsMain, Used, AttemptId
  <2> QED BY <2>1 DEF Chain
<1>2. CASE S = {}
  BY <1>2, FS_EmptySet DEF OneAgreement
<1>3. CASE S # {}
  <2>1. PICK a \in S : TRUE
    BY <1>3
  <2>2. S = {a}
    BY <1>1, <2>1
  <2>3. Cardinality(S) = 1
    BY <2>2, FS_Singleton
  <2> QED BY <2>3 DEF OneAgreement
<1> QED BY <1>2, <1>3

\* However answers, expiry and second proposals race, at most one proposal of
\* a request is ever accepted.
THEOREM AgreedOnce == Spec => []OneAgreement
BY ChainHolds, ChainAgreesOnce, PTL

-----------------------------------------------------------------------------
(* The status of the request: every path that writes it writes what its     *)
(* attempts say.                                                            *)

\* The request is projected anew, by a transition or by an acceptance.
Transits == Becomes(attempt') /\ Used # {}
Settles  == \E a \in OpenOnes, patch \in BOOLEAN : Concludes(a, patch)
\* The task moves, and the request with it.
Works(t) == /\ attempt' = attempt
            /\ \/ request' = request
               \/ OfRequest(t, "accepted") /\ request' = [request EXCEPT !.status = "completed", !.revision = @ + 1]
               \/ OfRequest(t, "completed") /\ request' = [request EXCEPT !.status = "accepted"]
Restates == attempt' = attempt /\ (request' = request \/ request' = [request EXCEPT !.revision = @ + 1])

RequestStep == \/ \E due \in ReplyDue : Create(due)
               \/ \E p \in Party : Repropose(p)
               \/ Transits \/ Settles
               \/ \E t \in Task : Works(t)
               \/ Restates

LEMMA RequestSteps ==
  ASSUME Typing, [Next]_vars
  PROVE  RequestStep
<1> USE OpenOnesIn
<1>0. \A p \in Party : cmd[p].attempt \in AttemptId
  BY DEF Typing, CommandsOK, Command
<1>a. ASSUME NEW att, Becomes(att), Used # {} PROVE RequestStep
  BY <1>a DEF Becomes, Transits, RequestStep
<1>b. ASSUME NEW a \in AttemptId, TooLate(a) PROVE RequestStep
  <2>1. a \in Used
    BY <1>b DEF TooLate, Overdue, Open, Used
  <2> QED BY <1>a, <1>b, <2>1 DEF TooLate
<1>1. CASE UNCHANGED vars \/ Tick \/ (\E p \in Party, op \in Operations : Compose(p, op))
  BY <1>1 DEF vars, Tick, Compose, Restates, RequestStep
<1>2. CASE \E due \in ReplyDue : Create(due)
  BY <1>2 DEF RequestStep
<1>3. ASSUME NEW p \in Party,
             Checking(p) \/ Consult(p) \/ Decline(p) \/ Cancel(p) \/ DeclineRequestFollowup(p) \/ EditTerms(p)
      PROVE  RequestStep
  <2>1. cmd[p].attempt \in Used
    BY <1>3, SentTyped DEF Checking, Consult, Decline, Cancel, DeclineRequestFollowup, EditTerms, Arrives
  <2>2. \E att : Becomes(att)
    BY <1>3 DEF Checking, Consult, Decline, Cancel, DeclineRequestFollowup, RefusesFollowup, EditTerms
  <2> QED BY <1>a, <2>1, <2>2
<1>4. ASSUME NEW a \in OpenOnes, NEW p \in Party, NEW patch \in BOOLEAN, Confirm(a, p, patch)
      PROVE  RequestStep
  BY <1>a, <1>4 DEF Confirm, Settles, RequestStep
<1>5. ASSUME NEW p \in Party, ConfirmTerms(p) PROVE RequestStep
  BY <1>0, <1>4, <1>5 DEF ConfirmTerms, AsSeen
<1>6. ASSUME NEW p \in Party, Accept(p) PROVE RequestStep
  BY <1>0, <1>6 DEF Accept, AsSeen, Settles, RequestStep
<1>7. ASSUME NEW p \in Party, AnswerLate(p) PROVE RequestStep
  <2>1. CASE TooLate(cmd[p].attempt)
    BY <1>0, <1>b, <2>1
  <2>2. CASE UNCHANGED <<request, attempt, task, patched>>
    BY <2>2 DEF Restates, RequestStep
  <2> QED BY <1>7, <2>1, <2>2 DEF AnswerLate
<1>8. CASE \E p \in Party : Repropose(p)
  BY <1>8 DEF RequestStep
<1>9. ASSUME NEW p \in Party, NEW op \in {"followup_change", "followup_cancel"}, StartRequestFollowup(p, op)
      PROVE  RequestStep
  <2>1. Used # {} /\ \E att : Becomes(att)
    BY <1>9 DEF StartRequestFollowup
  <2> QED BY <1>a, <2>1
<1>10. ASSUME NEW a \in AttemptId, AcceptRequest(a) PROVE RequestStep
  <2>1. a \in OpenOnes
    BY <1>10 DEF AcceptRequest, ById
  <2>2. CASE TooLate(a)
    BY <1>b, <2>2
  <2>3. CASE Concludes(a, FALSE)
    BY <2>1, <2>3 DEF Settles, RequestStep
  <2>4. CASE Confirm(a, "recipient", FALSE)
    BY <1>4, <2>1, <2>4 DEF Party
  <2> QED BY <1>10, <2>2, <2>3, <2>4 DEF AcceptRequest
<1>11. ASSUME NEW a \in AttemptId, DeclineRequest(a) PROVE RequestStep
  <2>1. a \in Used
    BY <1>11 DEF DeclineRequest, ById
  <2> QED BY <1>11, <1>a, <1>b, <2>1 DEF DeclineRequest, RefusesFollowup
<1>12. CASE ExpireRequestAttempts
  BY <1>b, <1>12 DEF ExpireRequestAttempts
<1>13. CASE \E p \in Party : Replay(p)
  BY <1>13 DEF Replay, Restates, RequestStep
<1>14. ASSUME NEW t \in Task, CompleteTask(t) \/ ReopenTask(t) \/ CheckItem(t) PROVE RequestStep
  <2>1. Works(t)
    BY <1>14 DEF CompleteTask, ReopenTask, CheckItem, Touch, Works
  <2> QED BY <2>1 DEF RequestStep
<1>15. CASE \E t \in Task, due \in WorkDue \cup {None}, who \in Party : EditTask(t, due, who)
  BY <1>15 DEF EditTask, Restates, RequestStep
<1> QED BY <1>1, <1>2, <1>3, <1>5, <1>6, <1>7, <1>8, <1>9, <1>10, <1>11, <1>12, <1>13, <1>14, <1>15, NextCases

LEMMA StandingAgreed ==
  ASSUME NEW att
  PROVE  /\ Standing(att) = "accepted" <=> \E a \in Proposed(att) : att[a].state = "accepted"
         /\ (\A a \in Proposed(att) : att[a].state # "accepted") /\ (\E a \in Proposed(att) : att[a].state \in Open)
              => Standing(att) = "pending"
BY DEF Standing

Reflects(status, att) == /\ status \in {"pending", "accepted", "declined", "cancelled"} => status = Standing(att)
                         /\ status = "completed" => Standing(att) = "accepted"

LEMMA ProjectionReflects ==
  ASSUME StatusReflectsAttempts, request.status # "none", RequestOK, NEW att, NEW tsk,
         Projectable(tsk),
         Standing(attempt) = "accepted" => Standing(att) = "accepted"
  PROVE  Reflects(Projected(att, tsk).status, att)
<1>1. CASE request.status = "completed"
  BY <1>1 DEF Projected, StatusReflectsAttempts, Reflects
<1>2. CASE request.status # "completed"
  <2>1. Projected(att, tsk).status = IF TaskDone(tsk) THEN "completed" ELSE Standing(att)
    BY <1>2 DEF Projected, RequestOK
  <2>2. CASE TaskDone(tsk)
    BY <1>2, <2>1, <2>2 DEF Projectable, StatusReflectsAttempts, Reflects
  <2>3. CASE ~TaskDone(tsk)
    BY <2>1, <2>3, StandingTyped DEF Reflects
  <2> QED BY <2>2, <2>3
<1> QED BY <1>1, <1>2

LEMMA AgreementStays ==
  ASSUME Typing, [Next]_vars
  PROVE  Standing(attempt) = "accepted" => Standing(attempt') = "accepted"
<1> SUFFICES ASSUME NEW a \in Proposed(attempt), attempt[a].state = "accepted"
             PROVE  a \in Proposed(attempt') /\ attempt'[a].state = "accepted"
  BY StandingAgreed
<1>1. attempt'[a] = attempt[a] /\ a \in AttemptId
  BY ClosedUnmoved DEF Proposed, Closed
<1> QED BY <1>1 DEF Proposed

LEMMA StatusKept ==
  ASSUME Typing, Chain, StatusReflectsAttempts, [Next]_vars
  PROVE  StatusReflectsAttempts'
<1> SUFFICES Reflects(request'.status, attempt')
  BY DEF StatusReflectsAttempts, Reflects
<1>1. ASSUME NEW due \in ReplyDue, Create(due) PROVE Reflects(request'.status, attempt')
  <2>1. request'.status = "pending" /\ Used = {}
    BY <1>1 DEF Create, Typing, Begun
  <2>2. PICK terms : attempt' = New("initial", "pending", terms, due, "requester")
    BY <1>1 DEF Create
  <2>3. Newest < MaxAttempts
    BY <2>1, FS_EmptySet, BoundAssumption DEF Newest
  <2>4. Proposed(attempt') = {Free} /\ attempt'[Free].state = "pending"
    BY <2>1, <2>2, <2>3, NewRows DEF Proposed, Main, Used
  <2> QED BY <2>1, <2>4, StandingAgreed DEF Reflects, Open
<1>2. ASSUME NEW p \in Party, Repropose(p) PROVE Reflects(request'.status, attempt')
  <2>1. request'.status = "pending"
    BY <1>2 DEF Repropose, Reopened, Typing, RequestOK
  <2>2. PICK old \in AttemptId :
          /\ LastProposed(attempt, old) /\ attempt[old].state = "expired"
          /\ attempt' = New("reproposal", "pending", attempt[old].terms, cmd[p].reply_due, p)
    BY <1>2 DEF Repropose, Reproposable
  <2>3. Newest < MaxAttempts
    BY <1>2 DEF Repropose, Newest
  <2>4. /\ Free \in AttemptId /\ attempt'[Free].kind = "reproposal" /\ attempt'[Free].state = "pending"
        /\ \A b \in AttemptId : b # Free => attempt'[b] = attempt[b]
    BY <2>2, <2>3, NewRows
  <2>5. \A a \in Proposed(attempt) : attempt[a].state = "expired"
    <3>1. \A a \in AttemptId : IsMain(a) <=> a \in Proposed(attempt)
      BY DEF IsMain, Proposed, Used
    <3>2. IsMain(old) /\ \A a \in AttemptId : IsMain(a) => a <= old
      BY <2>2, <3>1 DEF LastProposed
    <3>3. \A a \in AttemptId : a \in Nat
      BY DEF AttemptId
    <3> QED BY <2>2, <3>1, <3>2, <3>3 DEF Chain, Proposed
  <2>6. \A a \in Proposed(attempt') : attempt'[a].state \in {"expired", "pending"}
    BY <2>4, <2>5 DEF Proposed
  <2>7. Free \in Proposed(attempt') /\ attempt'[Free].state \in Open
    BY <2>4 DEF Proposed, Main, Open
  <2> QED BY <2>1, <2>6, <2>7, StandingAgreed DEF Reflects
<1>3. CASE Transits
  <2>1. request' = Projected(attempt', task) /\ Projectable(task) /\ request.status # "none"
    BY <1>3 DEF Transits, Becomes, Typing, Begun
  <2> QED BY <2>1, AgreementStays, ProjectionReflects DEF Typing
<1>4. ASSUME NEW a \in OpenOnes, NEW patch \in BOOLEAN, Concludes(a, patch)
      PROVE  Reflects(request'.status, attempt')
  <2>1. Projectable(task) /\ attempt' = Moved(a, "accepted") /\ request.status # "none"
    BY <1>4, OpenOnesIn DEF Concludes, Typing, Begun
  <2>2. Reflects(Projected(attempt', task).status, attempt')
    BY <2>1, AgreementStays, ProjectionReflects DEF Typing
  <2>3. CASE \E extra \in {0, 1} : request' = Linked(a, patch, extra)
    <3>1. request'.status = Projected(attempt', task).status
      BY <2>1, <2>3, ProjectedTyped DEF Linked, Requests, Typing
    <3> QED BY <2>2, <3>1
  <2>4. CASE ApplyFollowUp(a)
    <3>1. request' = Projected(attempt', task')
      BY <2>1, <2>4 DEF ApplyFollowUp
    <3>2. task'[Anchor].status \in {"open", "cancelled"}
      BY <2>4, TaskAssumption DEF ApplyFollowUp, Typing, TasksOK
    <3>3. Projectable(task')
      BY <3>2 DEF Projectable, TaskDone
    <3> QED BY <2>1, <3>1, <3>3, AgreementStays, ProjectionReflects DEF Typing
  <2> QED BY <1>4, <2>3, <2>4 DEF Concludes, MakeTask, HandOver
<1>5. ASSUME NEW t \in Task, Works(t) PROVE Reflects(request'.status, attempt')
  <2>1. attempt' = attempt /\ Reflects(request.status, attempt)
    BY <1>5 DEF Works, StatusReflectsAttempts, Reflects
  <2>2. CASE request' = request
    BY <2>1, <2>2
  <2>3. CASE OfRequest(t, "accepted") /\ request'.status = "completed"
    BY <2>1, <2>3 DEF OfRequest, Reflects
  <2>4. CASE OfRequest(t, "completed") /\ request'.status = "accepted"
    BY <2>1, <2>4 DEF OfRequest, Reflects
  <2> QED BY <1>5, <2>2, <2>3, <2>4 DEF Works, Typing, RequestOK
<1>6. CASE Restates
  <2>1. attempt' = attempt /\ request'.status = request.status
    BY <1>6 DEF Restates, Typing, RequestOK
  <2> QED BY <2>1 DEF StatusReflectsAttempts, Reflects
<1>7. RequestStep
  BY RequestSteps
<1>8. CASE Settles
  BY <1>4, <1>8 DEF Settles
<1> QED BY <1>1, <1>2, <1>3, <1>5, <1>6, <1>7, <1>8 DEF RequestStep

LEMMA StatusHolds == Spec => [](Typing /\ Chain /\ StatusReflectsAttempts)
<1>1. Init => StatusReflectsAttempts
  BY DEF Init, StatusReflectsAttempts
<1>2. Typing /\ Chain /\ StatusReflectsAttempts /\ [Next]_vars => StatusReflectsAttempts'
  BY StatusKept
<1> QED BY <1>1, <1>2, ChainHolds, PTL DEF Spec

\* The stored status of the request is always what its attempts say, though
\* the projection, the reproposal and the task functions each write it.
THEOREM StatusTellsAttempts == Spec => []StatusReflectsAttempts
BY StatusHolds, PTL

-----------------------------------------------------------------------------
(* Consent.  What a party saw when it composed its operation is what the    *)
(* revisions that travel with the operation stand for.                      *)

\* The terms revision is of the terms; the request revision, while nothing is
\* agreed, is of the newest attempt.
Sight(p) ==
  LET a == cmd[p].attempt
  IN  /\ cmd[p].action # "none" =>
           /\ cmd[p].terms_revision <= attempt[a].terms_revision
           /\ cmd[p].terms_revision = attempt[a].terms_revision => cmd[p].seen = attempt[a].terms
      /\ cmd[p].action = "repropose" =>
           /\ cmd[p].revision <= request.revision
           /\ (\A b \in Used : ~Agreement(b)) /\ cmd[p].revision = request.revision
                => cmd[p].seen = attempt[Newest].terms
Sights == \A p \in Party : Sight(p)

LEMMA CommandSteps ==
  ASSUME [Next]_vars
  PROVE  cmd' = cmd \/ \E p \in Party, op \in Operations : Compose(p, op)
BY NextCases DEF vars, Create, Checking, Consult, Decline, Cancel, EditTerms, ConfirmTerms, Accept, AnswerLate,
   Repropose, DeclineRequestFollowup, StartRequestFollowup, Replay, AcceptRequest, DeclineRequest,
   ExpireRequestAttempts, CompleteTask, ReopenTask, CheckItem, Touch, EditTask, Tick, Records

LEMMA RevisionGrows ==
  ASSUME Typing, StatusReflectsAttempts, [Next]_vars, Used # {}
  PROVE  /\ request'.revision \in Nat /\ request.revision \in Nat /\ request'.revision >= request.revision
         /\ attempt' # attempt /\ (\A b \in Used : ~Agreement(b)) => request'.revision > request.revision
<1>0. request \in Requests /\ request.revision \in Nat
  BY DEF Typing, RequestOK, Requests
<1>1. ASSUME NEW due \in ReplyDue, Create(due) PROVE FALSE
  BY <1>1 DEF Create, Typing, Begun
<1>2. ASSUME NEW p \in Party, Repropose(p) PROVE request'.revision = request.revision + 1
  BY <1>0, <1>2 DEF Repropose, Reopened, Requests
<1>3. ASSUME NEW att, NEW tsk
      PROVE  /\ Projected(att, tsk).revision \in {request.revision, request.revision + 1}
             /\ (\A b \in Used : ~Agreement(b)) => Projected(att, tsk).revision = request.revision + 1
  <2>1. Projected(att, tsk).revision \in {request.revision, request.revision + 1}
    BY ProjectedTyped DEF Typing
  <2>2. CASE request.status = "completed"
    <3>1. PICK a \in Proposed(attempt) : attempt[a].state = "accepted"
      BY <2>2, StandingAgreed DEF StatusReflectsAttempts
    <3>2. a \in Used /\ Agreement(a)
      BY <3>1 DEF Proposed, Used, Agreement
    <3> QED BY <2>1, <3>2
  <2>3. CASE request.status # "completed"
    BY <1>0, <2>1, <2>3 DEF Projected, Requests
  <2> QED BY <2>2, <2>3
<1>4. CASE Transits
  BY <1>0, <1>3, <1>4 DEF Transits, Becomes
<1>5. ASSUME NEW a \in OpenOnes, NEW patch \in BOOLEAN, Concludes(a, patch)
      PROVE  /\ request'.revision \in Nat /\ request'.revision >= request.revision
             /\ (\A b \in Used : ~Agreement(b)) => request'.revision > request.revision
  <2>1. CASE ApplyFollowUp(a)
    <3>1. PICK tsk : request' = Projected(Moved(a, "accepted"), tsk)
      BY <2>1 DEF ApplyFollowUp
    <3> QED BY <1>0, <1>3, <3>1
  <2>2. ASSUME NEW extra \in {0, 1}, request' = Linked(a, patch, extra)
        PROVE  /\ request'.revision \in Nat /\ request'.revision >= request.revision
               /\ (\A b \in Used : ~Agreement(b)) => request'.revision > request.revision
    <3> DEFINE r == Projected(Moved(a, "accepted"), task)
    <3>1. r \in Requests
      BY ProjectedTyped DEF Typing
    <3>2. r.revision \in {request.revision, request.revision + 1}
          /\ ((\A b \in Used : ~Agreement(b)) => r.revision = request.revision + 1)
      BY <1>3
    <3>3. Linked(a, patch, extra) = [r EXCEPT !.linked = TRUE, !.revision = @ + extra + Bump(a, patch)]
      BY DEF Linked
    <3>4. Bump(a, patch) \in {0, 1}
      BY DEF Bump
    <3> HIDE DEF r
    <3>5. request'.revision = r.revision + extra + Bump(a, patch)
      BY <2>2, <3>1, <3>3 DEF Requests
    <3> QED BY <1>0, <3>2, <3>4, <3>5
  <2> QED BY <1>5, <2>1, <2>2 DEF Concludes, MakeTask, HandOver
<1>6. ASSUME NEW t \in Task, Works(t)
      PROVE  attempt' = attempt /\ request'.revision \in {request.revision, request.revision + 1}
  BY <1>0, <1>6 DEF Works, Requests
<1>7. CASE Restates
  BY <1>0, <1>7 DEF Restates, Requests
<1>8. CASE Settles
  BY <1>0, <1>5, <1>8 DEF Settles
<1> QED
  BY <1>0, <1>1, <1>2, <1>4, <1>6, <1>7, <1>8, RequestSteps DEF RequestStep

\* An attempt that is used keeps its terms as long as its terms revision.
LEMMA TermsKept ==
  ASSUME Typing, [Next]_vars, NEW a \in Used
  PROVE  /\ attempt[a].terms_revision \in Nat /\ attempt'[a].terms_revision \in Nat
         /\ attempt'[a].terms_revision >= attempt[a].terms_revision
         /\ attempt'[a].terms_revision = attempt[a].terms_revision => attempt'[a].terms = attempt[a].terms
         /\ a \in Used'
<1>0. a \in AttemptId /\ attempt[a].terms_revision \in Nat /\ attempt[a].state # "none"
  BY AttemptFields DEF Used, Typing
<1>1. CASE attempt' = attempt
  BY <1>0, <1>1 DEF Used
<1>2. ASSUME NEW b \in AttemptId, NEW s \in Open \cup Closed, Moves(b, s) PROVE
         /\ attempt'[a].terms_revision = attempt[a].terms_revision
         /\ attempt'[a].terms = attempt[a].terms /\ attempt'[a].state # "none"
  BY <1>0, <1>2, MovedRows DEF Moves, Open, Closed
<1>3. ASSUME NEW b \in AttemptId, NEW terms \in Terms, Edits(b, terms) PROVE
         /\ attempt'[a].terms_revision \in {attempt[a].terms_revision, attempt[a].terms_revision + 1}
         /\ attempt'[a].terms_revision = attempt[a].terms_revision => attempt'[a].terms = attempt[a].terms
         /\ attempt'[a].state # "none"
  BY <1>0, <1>3, EditedRows DEF Edits
<1>4. ASSUME NEW kind, NEW s, NEW terms, NEW due, NEW p, Newest < MaxAttempts,
             attempt' = New(kind, s, terms, due, p)
      PROVE  attempt'[a] = attempt[a]
  <2>1. a # Free
    BY <1>4, NewRows
  <2> QED BY <1>0, <1>4, <2>1, NewRows
<1>5. CASE \E kind \in Main, terms \in Terms, due \in ReplyDue \cup {Never} : Proposes(kind, terms, due)
  BY <1>0, <1>4, <1>5 DEF Proposes, Used
<1>6. CASE \E kind \in FollowUp, terms \in Terms, due \in ReplyDue \cup {Never}, p \in Party : Follows(kind, terms, due, p)
  BY <1>0, <1>4, <1>6 DEF Follows, Used
<1> QED BY <1>0, <1>1, <1>2, <1>3, <1>5, <1>6, AttemptSteps DEF AttemptStep, Used

LEMMA SightsKept ==
  ASSUME Typing, Chain, StatusReflectsAttempts, Sights, [Next]_vars
  PROVE  Sights'
<1> SUFFICES ASSUME NEW p \in Party PROVE Sight(p)'
  BY DEF Sights
<1>1. ASSUME cmd'[p] = cmd[p], cmd[p].action # "none" PROVE Sight(p)'
  <2> DEFINE a == cmd[p].attempt
  <2>1. a \in Used /\ cmd[p].revision \in Nat /\ cmd[p].terms_revision \in Nat
    BY <1>1, SentTyped DEF Typing, CommandsOK, Command
  <2>2. Sight(p)
    BY DEF Sights
  <2>3. /\ cmd[p].terms_revision <= attempt'[a].terms_revision
        /\ cmd[p].terms_revision = attempt'[a].terms_revision => cmd[p].seen = attempt'[a].terms
    BY <1>1, <2>1, <2>2, TermsKept DEF Sight
  <2>4. ASSUME cmd[p].action = "repropose"
        PROVE  /\ cmd[p].revision <= request'.revision
               /\ (\A b \in Used' : ~Agreement(b)') /\ cmd[p].revision = request'.revision
                    => cmd[p].seen = attempt'[Newest'].terms
    <3>1. request'.revision \in Nat /\ request.revision \in Nat /\ request'.revision >= request.revision
          /\ (attempt' # attempt /\ (\A b \in Used : ~Agreement(b)) => request'.revision > request.revision)
      BY <2>1, RevisionGrows
    <3>2. (\A b \in Used' : ~Agreement(b)') => \A b \in Used : ~Agreement(b)
      <4> SUFFICES ASSUME NEW b \in Used, Agreement(b) PROVE b \in Used' /\ Agreement(b)'
        OBVIOUS
      <4>1. attempt'[b] = attempt[b]
        BY ClosedUnmoved DEF Agreement, Used, Closed
      <4> QED BY <4>1 DEF Agreement, Used
    <3>3. attempt' = attempt => Newest' = Newest
      BY DEF Newest, Used
    <3> QED BY <2>1, <2>2, <2>4, <3>1, <3>2, <3>3 DEF Sight
  <2> QED BY <1>1, <2>3, <2>4 DEF Sight
<1>2. ASSUME cmd'[p] = cmd[p], cmd[p].action = "none" PROVE Sight(p)'
  BY <1>2 DEF Sight
<1>3. ASSUME NEW q \in Party, NEW op \in Operations, Compose(q, op), q = p PROVE Sight(p)'
  <2>1. Newest \in Used /\ Newest \in AttemptId
    <3>1. Used # {} /\ Used = 1 .. Newest /\ Newest \in Nat
      BY <1>3, UsedCounts DEF Compose, Typing, AttemptsOK, Newest
    <3> QED BY <3>1 DEF Used
  <2>2. /\ cmd'[p].action = op /\ cmd'[p].attempt = Newest
        /\ cmd'[p].terms_revision = attempt[Newest].terms_revision
        /\ cmd'[p].seen = attempt[Newest].terms
        /\ op = "repropose" => cmd'[p].revision = request.revision
        /\ UNCHANGED <<request, attempt>>
    BY <1>3 DEF Compose, Typing, CommandsOK
  <2>3. attempt[Newest].terms_revision \in Nat /\ request.revision \in Nat /\ Newest' = Newest
    BY <2>1, <2>2, AttemptFields DEF Typing, RequestOK, Newest, Used
  <2> QED BY <2>2, <2>3 DEF Sight
<1>4. ASSUME NEW q \in Party, NEW op \in Operations, Compose(q, op), q # p PROVE cmd'[p] = cmd[p]
  BY <1>4 DEF Compose, Typing, CommandsOK
<1> QED BY <1>1, <1>2, <1>3, <1>4, CommandSteps

\* How the record of what the parties agreed to moves.  Nobody says anything,
Silent == /\ UNCHANGED <<confirmed, agreed>>
          /\ \/ attempt' = attempt
             \/ \E a \in AttemptId, s \in Open \cup Closed : Moves(a, s) /\ s # "accepted"
             \/ \E a \in AttemptId, terms \in Terms : Edits(a, terms)
\* or a party confirms or accepts an attempt with the terms it has,
Says(a, p) ==
  /\ a \in OpenOnes /\ Agrees(a, p, attempt[a].terms)
  /\ confirmed \subseteq confirmed'
  /\ confirmed' \subseteq confirmed \cup {<<a, attempt[a].terms_revision, p>>}
  /\ \E s \in {"accepted", "awaiting_confirmation"} :
       /\ attempt' = Moved(a, s)
       /\ s = "accepted" =>
            \/ p = "recipient" /\ attempt[a].state \in {"pending", "checking"}
            \/ \A q \in Party : <<a, attempt[a].terms_revision, q>> \in confirmed'
\* or it opens an attempt.
Opens(p) ==
  /\ Newest < MaxAttempts
  /\ \E kind \in Main \cup FollowUp, s \in {"pending", "awaiting_confirmation"},
        terms \in Terms, due \in ReplyDue \cup {Never} :
       /\ attempt' = New(kind, s, terms, due, p) /\ Agrees(Free, p, terms)
       /\ s = "pending" => p = "requester"
  /\ confirmed \subseteq confirmed' /\ confirmed' \subseteq confirmed \cup {<<Free, 1, p>>}

LEMMA SeenIsMeant ==
  ASSUME Typing, Sights, NEW p \in Party, cmd[p].action # "none", AsSeen(p)
  PROVE  cmd[p].seen = attempt[cmd[p].attempt].terms /\ cmd[p].attempt \in OpenOnes /\ cmd[p].attempt \in AttemptId
<1>1. cmd[p].attempt \in AttemptId
  BY DEF Typing, CommandsOK, Command
<1> QED BY <1>1 DEF AsSeen, Sights, Sight, OpenOnes

\* The last proposal, if it has expired, is the newest attempt, and nothing is agreed.
LEMMA ExpiredIsNewest ==
  ASSUME Typing, Chain, NEW old \in AttemptId, LastProposed(attempt, old), attempt[old].state = "expired"
  PROVE  old = Newest /\ \A b \in Used : ~Agreement(b)
<1>1. \A a \in AttemptId : IsMain(a) <=> a \in Proposed(attempt)
  BY DEF IsMain, Proposed, Used
<1>2. IsMain(old) /\ \A a \in AttemptId : IsMain(a) => a <= old
  BY <1>1 DEF LastProposed
<1>3. \A a \in AttemptId : a \in Nat
  BY DEF AttemptId
<1>4. ASSUME NEW b \in Used, Agreement(b) PROVE FALSE
  <2>1. b \in AttemptId /\ IsMain(b) /\ attempt[b].state = "accepted"
    BY <1>4 DEF Agreement, IsMain, Used
  <2>2. b = old \/ b < old
    BY <1>2, <1>3, <2>1
  <2> QED BY <1>2, <2>1, <2>2 DEF Chain
<1>5. Newest \in Used /\ old <= Newest
  <2>1. Used = 1 .. Newest /\ Newest \in Nat /\ old \in Used
    BY <1>2, UsedCounts DEF Typing, AttemptsOK, Newest, IsMain
  <2> QED BY <2>1
<1>6. Newest \in AttemptId /\ attempt[Newest].kind \in Main \cup FollowUp
  BY <1>5, AttemptFields DEF Used, Typing
<1>7. Newest <= old
  BY <1>2, <1>4, <1>5, <1>6 DEF Chain, IsMain
<1> QED BY <1>3, <1>4, <1>5, <1>6, <1>7

LEMMA ConfirmSays ==
  ASSUME Typing, NEW a \in OpenOnes, NEW p \in Party, NEW patch \in BOOLEAN, Confirm(a, p, patch),
         Agrees(a, p, attempt[a].terms)
  PROVE  Says(a, p)
<1>1. confirmed' = confirmed \cup {<<a, attempt[a].terms_revision, p>>}
  BY DEF Confirm, Confirms
<1>2. CASE AllConfirm(a, p) /\ Concludes(a, patch)
  BY <1>1, <1>2 DEF Says, Concludes, AllConfirm, Confirms
<1>3. CASE Becomes(Moved(a, "awaiting_confirmation"))
  BY <1>1, <1>3 DEF Says, Becomes
<1> QED BY <1>2, <1>3 DEF Confirm

LEMMA ConsentSteps ==
  ASSUME Typing, Chain, Sights, [Next]_vars, OldCard \notin sends["recipient"]
  PROVE  Silent \/ (\E a \in AttemptId, p \in Party : Says(a, p)) \/ (\E p \in Party : Opens(p))
<1> DEFINE Goal == Silent \/ (\E a \in AttemptId, p \in Party : Says(a, p)) \/ (\E p \in Party : Opens(p))
<1> USE OpenOnesIn
<1>0. \A p \in Party : cmd[p].attempt \in AttemptId
  BY DEF Typing, CommandsOK, Command
<1>1. CASE attempt' = attempt /\ UNCHANGED <<confirmed, agreed>>
  BY <1>1 DEF Silent
<1>2. ASSUME NEW due \in ReplyDue, Create(due) PROVE Goal
  <2> DEFINE targets == IF Kind = "light" THEN {}
                        ELSE {t \in Task : task[t].status = "open" /\ task[t].assignee = "requester"}
             terms == [due |-> None, base |-> Snap(targets)]
  <2>1. attempt' = New("initial", "pending", terms, due, "requester") /\ Agrees(Free, "requester", terms)
        /\ confirmed' = confirmed
    BY <1>2 DEF Create, Agrees
  <2>2. terms \in Terms
    BY SnapTyped
  <2> HIDE DEF terms
  <2>3. Used = {}
    BY <1>2 DEF Create, Typing, Begun
  <2>4. Newest < MaxAttempts
    BY <2>3, FS_EmptySet, BoundAssumption DEF Newest
  <2>5. Opens("requester")
    BY <2>1, <2>2, <2>4 DEF Opens, Main
  <2> QED BY <2>5 DEF Party
<1>3. ASSUME NEW p \in Party, Checking(p) \/ Consult(p) \/ Decline(p) \/ Cancel(p) \/ DeclineRequestFollowup(p)
      PROVE  Silent
  <2>0. UNCHANGED <<confirmed, agreed>>
    BY <1>3 DEF Checking, Consult, Decline, Cancel, DeclineRequestFollowup
  <2>1. CASE Checking(p)
    BY <1>0, <2>0, <2>1 DEF Checking, AsSeen, Becomes, Moves, Silent, Open
  <2>2. CASE Consult(p)
    BY <1>0, <2>0, <2>2 DEF Consult, AsSeen, Becomes, Moves, Silent, Open
  <2>3. CASE Decline(p) \/ Cancel(p)
    BY <1>0, <2>0, <2>3 DEF Decline, Cancel, AsSeen, Becomes, Moves, Silent, Closed
  <2>4. CASE DeclineRequestFollowup(p)
    BY <1>0, <2>0, <2>4 DEF DeclineRequestFollowup, RefusesFollowup, Becomes, Moves, Silent, Closed, Open
  <2> QED BY <1>3, <2>1, <2>2, <2>3, <2>4
<1>4. ASSUME NEW p \in Party, EditTerms(p) PROVE Silent
  <2>1. cmd[p].terms \in Terms
    BY <1>4, SentTyped DEF EditTerms, Arrives
  <2> QED BY <1>0, <1>4, <2>1 DEF EditTerms, AsSeen, Becomes, Edits, Edited, Silent
<1>5. ASSUME NEW p \in Party, ConfirmTerms(p) PROVE Goal
  <2>1. cmd[p].seen = attempt[cmd[p].attempt].terms /\ cmd[p].attempt \in OpenOnes /\ cmd[p].attempt \in AttemptId
    BY <1>5, SeenIsMeant DEF ConfirmTerms, Arrives
  <2> QED BY <1>5, <2>1, ConfirmSays DEF ConfirmTerms
<1>6. ASSUME NEW p \in Party, Accept(p) PROVE Goal
  <2>1. cmd[p].seen = attempt[cmd[p].attempt].terms /\ cmd[p].attempt \in OpenOnes /\ cmd[p].attempt \in AttemptId
    BY <1>6, SeenIsMeant DEF Accept, Arrives
  <2>2. Says(cmd[p].attempt, p)
    BY <1>6, <2>1 DEF Accept, Concludes, Says
  <2> QED BY <2>1, <2>2
<1>7. ASSUME NEW a \in AttemptId, TooLate(a), UNCHANGED <<confirmed, agreed>> PROVE Silent
  BY <1>7, LateMoves DEF Silent, Closed
<1>8. ASSUME NEW p \in Party, AnswerLate(p) PROVE Goal
  BY <1>0, <1>1, <1>7, <1>8 DEF AnswerLate
<1>9. ASSUME NEW p \in Party, Repropose(p) PROVE Goal
  <2>1. p = "requester" /\ cmd[p].action = "repropose" /\ cmd[p].reply_due \in ReplyDue \cup {Never}
    BY <1>9, SentTyped DEF Repropose, Arrives
  <2>2. PICK old \in AttemptId :
          /\ LastProposed(attempt, old) /\ attempt[old].state = "expired"
          /\ attempt' = New("reproposal", "pending", attempt[old].terms, cmd[p].reply_due, p)
    BY <1>9 DEF Repropose, Reproposable
  <2>3. old = Newest /\ \A b \in Used : ~Agreement(b)
    BY <2>2, ExpiredIsNewest
  <2>4. cmd[p].seen = attempt[old].terms
    BY <1>9, <2>1, <2>3 DEF Repropose, Sights, Sight
  <2>5. attempt[old].terms \in Terms
    BY <2>2 DEF LastProposed, Proposed, Typing, AttemptsOK, Used
  <2>6. Opens(p)
    BY <1>9, <2>1, <2>2, <2>4, <2>5 DEF Repropose, Newest, Opens, Main
  <2> QED BY <2>6
<1>10. ASSUME NEW p \in Party, NEW op \in {"followup_change", "followup_cancel"}, StartRequestFollowup(p, op)
      PROVE  Goal
  <2>1. cmd[p].terms \in Terms /\ cmd[p].reply_due \in ReplyDue \cup {Never}
    BY <1>10, SentTyped DEF StartRequestFollowup, Arrives
  <2>2. FollowUpKind[op] \in FollowUp
    BY DEF FollowUpKind, FollowUp
  <2>3. /\ attempt' = New(FollowUpKind[op], "awaiting_confirmation", cmd[p].terms, cmd[p].reply_due, p)
        /\ Newest < MaxAttempts /\ Agrees(Free, p, cmd[p].terms) /\ confirmed' = confirmed \cup {<<Free, 1, p>>}
    BY <1>10 DEF StartRequestFollowup, Becomes, Newest
  <2>4. Opens(p)
    BY <2>1, <2>2, <2>3 DEF Opens
  <2> QED BY <2>4
<1>11. ASSUME NEW a \in AttemptId, AcceptRequest(a) \/ DeclineRequest(a) PROVE FALSE
  BY <1>11 DEF AcceptRequest, DeclineRequest, ById
<1>12. CASE ExpireRequestAttempts
  BY <1>7, <1>12 DEF ExpireRequestAttempts
<1>13. CASE UNCHANGED vars \/ Tick \/ (\E p \in Party : Replay(p)) \/ (\E p \in Party, op \in Operations : Compose(p, op))
  BY <1>1, <1>13 DEF vars, Tick, Replay, Compose
<1>14. CASE \E t \in Task : \/ CompleteTask(t) \/ ReopenTask(t) \/ CheckItem(t)
                            \/ \E due \in WorkDue \cup {None}, who \in Party : EditTask(t, due, who)
  BY <1>1, <1>14 DEF CompleteTask, ReopenTask, CheckItem, EditTask, Touch
<1> QED
  BY <1>2, <1>3, <1>4, <1>5, <1>6, <1>8, <1>9, <1>10, <1>11, <1>12, <1>13, <1>14, NextCases

\* A confirmation of the terms revision an attempt has is of its terms; what
\* is still as it was opened has the consent of the requester.
Confirmations ==
  \A c \in confirmed :
    /\ c[1] \in Used /\ c[2] <= attempt[c[1]].terms_revision
    /\ c[2] = attempt[c[1]].terms_revision => agreed[c[1]][c[3]] = attempt[c[1]].terms
Offers == \A a \in AttemptId :
            attempt[a].state \in {"pending", "checking"} => agreed[a]["requester"] = attempt[a].terms
Consent == OldCard \notin sends["recipient"] => Confirmations /\ Offers /\ ConsentOnEveryPath

LEMMA AgreedRows ==
  ASSUME Typing, NEW a \in AttemptId, NEW p \in Party, NEW terms, Agrees(a, p, terms)
  PROVE  \A b \in AttemptId, q \in Party : agreed'[b][q] = IF b = a /\ q = p THEN terms ELSE agreed[b][q]
<1>1. \A b \in AttemptId : agreed[b] \in [Party -> Terms \cup {NoTerms}]
  BY DEF Typing, RecordsOK
<1>2. agreed' = [agreed EXCEPT ![a] = [agreed[a] EXCEPT ![p] = terms]]
  BY DEF Agrees, Typing, RecordsOK
<1> QED BY <1>1, <1>2 DEF Typing, RecordsOK

LEMMA ConfirmationFields ==
  ASSUME Typing, NEW c \in confirmed
  PROVE  c[1] \in AttemptId /\ c[2] \in Nat /\ c[3] \in Party /\ c = <<c[1], c[2], c[3]>>
BY DEF Typing, RecordsOK

LEMMA ConsentKept ==
  ASSUME Typing, Chain, StatusReflectsAttempts, Sights, Consent, [Next]_vars
  PROVE  Consent'
<1>0. sends' = sends
  BY NextCases DEF vars, Create, Compose, Checking, Consult, Decline, Cancel, EditTerms, ConfirmTerms, Accept,
     AnswerLate, Repropose, DeclineRequestFollowup, StartRequestFollowup, Replay, AcceptRequest, DeclineRequest,
     ExpireRequestAttempts, CompleteTask, ReopenTask, CheckItem, Touch, EditTask, Tick, Records
<1> SUFFICES ASSUME OldCard \notin sends["recipient"]
             PROVE  (Confirmations /\ Offers /\ ConsentOnEveryPath)'
  BY <1>0 DEF Consent
<1>1. Confirmations /\ Offers /\ ConsentOnEveryPath
  BY DEF Consent
<1>2. \A a \in AttemptId : attempt[a].terms_revision \in Nat
  BY AttemptFields DEF Typing
<1>3. CASE Silent
  <2>1. confirmed' = confirmed /\ agreed' = agreed
    BY <1>3 DEF Silent
  <2>2. Confirmations'
    <3> SUFFICES ASSUME NEW c \in confirmed
                 PROVE  /\ c[1] \in Used' /\ c[2] <= attempt'[c[1]].terms_revision
                        /\ c[2] = attempt'[c[1]].terms_revision => agreed[c[1]][c[3]] = attempt'[c[1]].terms
      BY <2>1 DEF Confirmations
    <3>1. /\ c[1] \in Used /\ c[2] <= attempt[c[1]].terms_revision /\ c[2] \in Nat
          /\ c[2] = attempt[c[1]].terms_revision => agreed[c[1]][c[3]] = attempt[c[1]].terms
      BY <1>1, ConfirmationFields DEF Confirmations
    <3> QED BY <3>1, TermsKept
  <2>3. \A a \in AttemptId :
          /\ attempt'[a].state \in {"pending", "checking"} =>
               attempt[a].state \in {"pending", "checking"} /\ attempt'[a].terms = attempt[a].terms
          /\ attempt'[a].state = "accepted" =>
               attempt[a].state = "accepted" /\ attempt'[a].terms = attempt[a].terms
    <3>1. CASE attempt' = attempt
      BY <3>1
    <3>2. ASSUME NEW b \in AttemptId, NEW s \in Open \cup Closed, Moves(b, s), s # "accepted"
          PROVE  \A a \in AttemptId :
                   /\ attempt'[a].state \in {"pending", "checking"} =>
                        attempt[a].state \in {"pending", "checking"} /\ attempt'[a].terms = attempt[a].terms
                   /\ attempt'[a].state = "accepted" =>
                        attempt[a].state = "accepted" /\ attempt'[a].terms = attempt[a].terms
      BY <3>2, MovedRows DEF Moves
    <3>3. ASSUME NEW b \in AttemptId, NEW terms \in Terms, Edits(b, terms)
          PROVE  \A a \in AttemptId :
                   /\ attempt'[a].state \in {"pending", "checking"} =>
                        attempt[a].state \in {"pending", "checking"} /\ attempt'[a].terms = attempt[a].terms
                   /\ attempt'[a].state = "accepted" =>
                        attempt[a].state = "accepted" /\ attempt'[a].terms = attempt[a].terms
      BY <3>3, EditedRows DEF Edits
    <3> QED BY <1>3, <3>1, <3>2, <3>3 DEF Silent
  <2>4. Offers' /\ ConsentOnEveryPath'
    BY <1>1, <2>1, <2>3 DEF Offers, ConsentOnEveryPath
  <2> QED BY <2>2, <2>4
<1>4. ASSUME NEW a \in AttemptId, NEW p \in Party, Says(a, p)
      PROVE  (Confirmations /\ Offers /\ ConsentOnEveryPath)'
  <2>1. PICK s \in {"accepted", "awaiting_confirmation"} :
          /\ attempt' = Moved(a, s)
          /\ s = "accepted" =>
               \/ p = "recipient" /\ attempt[a].state \in {"pending", "checking"}
               \/ \A q \in Party : <<a, attempt[a].terms_revision, q>> \in confirmed'
    BY <1>4 DEF Says
  <2>2. \A b \in AttemptId : /\ attempt'[b].terms = attempt[b].terms
                             /\ attempt'[b].terms_revision = attempt[b].terms_revision
                             /\ attempt'[b].state = IF b = a THEN s ELSE attempt[b].state
    BY <2>1, MovedRows
  <2>3. \A b \in AttemptId, q \in Party :
          agreed'[b][q] = IF b = a /\ q = p THEN attempt[a].terms ELSE agreed[b][q]
    BY <1>4, AgreedRows DEF Says
  <2>4. a \in Used /\ Used' = Used
    BY <1>4, <2>2, OpenOnesIn DEF Says, Used
  <2>5. Confirmations'
    <3> SUFFICES ASSUME NEW c \in confirmed'
                 PROVE  /\ c[1] \in Used' /\ c[2] <= attempt'[c[1]].terms_revision
                        /\ c[2] = attempt'[c[1]].terms_revision => agreed'[c[1]][c[3]] = attempt'[c[1]].terms
      BY DEF Confirmations
    <3>1. CASE c \in confirmed
      <4>1. c[1] \in AttemptId /\ c[3] \in Party
        BY <3>1, ConfirmationFields
      <4>2. /\ c[1] \in Used /\ c[2] <= attempt[c[1]].terms_revision
            /\ c[2] = attempt[c[1]].terms_revision => agreed[c[1]][c[3]] = attempt[c[1]].terms
        BY <1>1, <3>1 DEF Confirmations
      <4> QED BY <2>2, <2>3, <2>4, <4>1, <4>2
    <3>2. CASE c = <<a, attempt[a].terms_revision, p>>
      BY <1>2, <2>2, <2>3, <2>4, <3>2
    <3> QED BY <1>4, <3>1, <3>2 DEF Says
  <2>6. Offers'
    BY <1>1, <2>2, <2>3 DEF Offers, Party
  <2>7. s = "accepted" => \A q \in Party : agreed'[a][q] = attempt[a].terms
    <3> SUFFICES ASSUME s = "accepted", NEW q \in Party PROVE agreed'[a][q] = attempt[a].terms
      OBVIOUS
    <3>1. CASE p = "recipient" /\ attempt[a].state \in {"pending", "checking"}
      BY <1>1, <2>3, <3>1 DEF Offers, Party
    <3>2. CASE <<a, attempt[a].terms_revision, q>> \in confirmed'
      <4> DEFINE c == <<a, attempt[a].terms_revision, q>>
      <4>1. c \in confirmed' /\ c[1] = a /\ c[2] = attempt[a].terms_revision /\ c[3] = q
        BY <3>2
      <4> HIDE DEF c
      <4> QED BY <2>2, <2>5, <4>1 DEF Confirmations
    <3> QED BY <2>1, <3>1, <3>2
  <2>8. ConsentOnEveryPath'
    <3> SUFFICES ASSUME NEW b \in AttemptId, attempt'[b].state = "accepted", NEW q \in Party
                 PROVE  agreed'[b][q] = attempt'[b].terms
      BY DEF ConsentOnEveryPath
    <3> QED BY <1>1, <2>2, <2>3, <2>7 DEF ConsentOnEveryPath
  <2> QED BY <2>5, <2>6, <2>8
<1>5. ASSUME NEW p \in Party, Opens(p)
      PROVE  (Confirmations /\ Offers /\ ConsentOnEveryPath)'
  <2>1. PICK kind \in Main \cup FollowUp, s \in {"pending", "awaiting_confirmation"},
             terms \in Terms, due \in ReplyDue \cup {Never} :
          /\ attempt' = New(kind, s, terms, due, p) /\ Agrees(Free, p, terms)
          /\ s = "pending" => p = "requester"
    BY <1>5 DEF Opens
  <2>2. /\ Free \in AttemptId /\ Free \notin Used
        /\ \A b \in AttemptId : b # Free => attempt'[b] = attempt[b]
        /\ attempt'[Free].terms = terms /\ attempt'[Free].terms_revision = 1 /\ attempt'[Free].state = s
    BY <1>5, <2>1, NewRows DEF Opens
  <2>3. \A b \in AttemptId, q \in Party : agreed'[b][q] = IF b = Free /\ q = p THEN terms ELSE agreed[b][q]
    BY <2>1, <2>2, AgreedRows
  <2>4. Used' = Used \cup {Free}
    BY <2>2 DEF Used
  <2>5. Confirmations'
    <3> SUFFICES ASSUME NEW c \in confirmed'
                 PROVE  /\ c[1] \in Used' /\ c[2] <= attempt'[c[1]].terms_revision
                        /\ c[2] = attempt'[c[1]].terms_revision => agreed'[c[1]][c[3]] = attempt'[c[1]].terms
      BY DEF Confirmations
    <3>1. CASE c \in confirmed
      <4>1. c[1] \in AttemptId /\ c[3] \in Party
        BY <3>1, ConfirmationFields
      <4>2. /\ c[1] \in Used /\ c[2] <= attempt[c[1]].terms_revision
            /\ c[2] = attempt[c[1]].terms_revision => agreed[c[1]][c[3]] = attempt[c[1]].terms
        BY <1>1, <3>1 DEF Confirmations
      <4> QED BY <2>2, <2>3, <2>4, <4>1, <4>2
    <3>2. CASE c = <<Free, 1, p>>
      BY <2>2, <2>3, <2>4, <3>2
    <3> QED BY <1>5, <3>1, <3>2 DEF Opens
  <2>6. Offers'
    BY <1>1, <2>1, <2>2, <2>3 DEF Offers, Party
  <2>7. ConsentOnEveryPath'
    BY <1>1, <2>2, <2>3 DEF ConsentOnEveryPath
  <2> QED BY <2>5, <2>6, <2>7
<1> QED BY <1>3, <1>4, <1>5, ConsentSteps

LEMMA ConsentHolds == Spec => [](Sights /\ Consent)
<1>1. Init => Sights /\ Consent
  BY DEF Init, Sights, Sight, NoCommand, Consent, Confirmations, Offers, ConsentOnEveryPath, NoAttempt
<1>2. Typing /\ Chain /\ StatusReflectsAttempts /\ Sights /\ Consent /\ [Next]_vars => Sights' /\ Consent'
  BY SightsKept, ConsentKept
<1> QED BY <1>1, <1>2, StatusHolds, PTL DEF Spec

\* Whoever sends operations that name the revisions it saw is never bound to
\* terms it did not see: what is accepted is what both parties had in front of
\* them, in whatever order edits, confirmations and answers reach the server.
THEOREM ConsentIsInformed == Spec => []ConsentIsToTheTerms
<1>1. Consent => ConsentIsToTheTerms
  BY DEF Consent, ConsentIsToTheTerms
<1> QED BY <1>1, ConsentHolds, PTL

-----------------------------------------------------------------------------
(***************************************************************************)
(* The agreement and the tasks it is about: the request follows its task,  *)
(* an assignment change moves all of its tasks or none, and terms are only *)
(* accepted while the tasks are as the terms have them.                    *)
(*                                                                         *)
(* The argument: the request is linked exactly while a proposal stands     *)
(* accepted, and there is one at most, so a hand-over meets an unlinked    *)
(* request and happens once.  What terms are about never changes while     *)
(* they travel, are edited or are proposed again; and every change of a    *)
(* task but an edit by hand raises its revision, so an equal revision      *)
(* means that nothing has happened to it.                                  *)
(***************************************************************************)

-----------------------------------------------------------------------------
(* The inductive invariants.                                                *)

\* The request has its link from the moment a proposal is accepted, and is
\* never completed without it; the task of a light request is made with it.
Linking ==
  /\ request.linked <=> \E a \in Used : Agreement(a)
  /\ request.status = "completed" => request.linked
  /\ Kind = "light" /\ ~request.linked => task[Anchor].status = "absent"
  /\ \A t \in Task : task[t].status = "absent" => task[t].revision = 1

\* What terms are about: a follow-up the linked task, a light request no task,
\* an assignment change its tasks, with the one the request names among them.
Scope(kind, terms) ==
  /\ kind \in FollowUp => Targets(terms) \subseteq {Anchor}
  /\ kind \in Main => IF Kind = "light" THEN Targets(terms) = {} ELSE Anchor \in Targets(terms)

Scopes ==
  /\ \A a \in Used : Scope(attempt[a].kind, attempt[a].terms)
  /\ \A a, b \in AttemptId : IsMain(a) /\ IsMain(b) => attempt[a].terms.base = attempt[b].terms.base
  /\ \A p \in Party :
       /\ cmd[p].action \in {"followup_change", "followup_cancel"} => Targets(cmd[p].terms) \subseteq {Anchor}
       /\ cmd[p].action = "edit_terms" => cmd[p].terms.base = attempt[cmd[p].attempt].terms.base

\* A task as terms have it is the task as it is or as it was.
Known(base, t) == /\ base[t].revision <= task[t].revision
                  /\ base[t].revision = task[t].revision /\ t \notin Manual => base[t].due = task[t].due
KnownTargets(terms) == \A t \in Targets(terms) : Known(terms.base, t)
Snapshots ==
  /\ \A a \in Used : KnownTargets(attempt[a].terms)
  /\ \A p \in Party : cmd[p].action # "none" => KnownTargets(cmd[p].terms)

-----------------------------------------------------------------------------
(* What a step does to the tasks and to the request that links them.        *)

\* A proposal stands accepted.
HasAgreement == \E a \in Used : Agreement(a)

\* The step is not about the request,
Pauses == UNCHANGED <<request, attempt, task, patched>>
\* an attempt moves on, but is not accepted,
Turns  == \E a \in Used, s \in (Open \cup Closed) \ {"accepted"} : Becomes(Moved(a, s))
\* its terms are edited,
EditsTerms == \E p \in Party : EditTerms(p)
\* a follow-up is asked for,
Asks   == \E p \in Party, op \in {"followup_change", "followup_cancel"} : StartRequestFollowup(p, op)
\* somebody works on a task,
Labours == \E t \in Task : CompleteTask(t) \/ ReopenTask(t) \/ CheckItem(t)
\* or edits it by hand.
EditsTask == \E t \in Task, due \in WorkDue \cup {None}, who \in Party : EditTask(t, due, who)

TaskStep == \/ Pauses \/ Turns \/ EditsTerms \/ Asks \/ Settles
            \/ \E due \in ReplyDue : Create(due)
            \/ \E p \in Party : Repropose(p)
            \/ \E p \in Party : Replay(p)
            \/ Labours \/ EditsTask

\* Every operation is one of these ten to the tasks and their request.
LEMMA TaskSteps ==
  ASSUME Typing, [Next]_vars
  PROVE  TaskStep
<1> USE OpenOnesIn
<1>0. \A p \in Party : cmd[p].attempt \in AttemptId
  BY DEF Typing, CommandsOK, Command
<1>b. ASSUME NEW a \in AttemptId, TooLate(a) PROVE TaskStep
  <2>1. a \in Used
    BY <1>b DEF TooLate, Overdue, Open, Used
  <2> QED BY <1>b, <2>1 DEF TooLate, Turns, TaskStep, Closed
<1>c. ASSUME NEW a \in OpenOnes, NEW p \in Party, NEW patch \in BOOLEAN, Confirm(a, p, patch)
      PROVE  TaskStep
  BY <1>c DEF Confirm, Turns, Settles, TaskStep, Open
<1>1. CASE UNCHANGED vars \/ Tick \/ (\E p \in Party, op \in Operations : Compose(p, op))
  BY <1>1 DEF vars, Tick, Compose, Pauses, TaskStep
<1>2. CASE \/ \E due \in ReplyDue : Create(due)
           \/ \E p \in Party : EditTerms(p) \/ Repropose(p) \/ Replay(p)
           \/ \E p \in Party, op \in {"followup_change", "followup_cancel"} : StartRequestFollowup(p, op)
           \/ \E t \in Task : CompleteTask(t) \/ ReopenTask(t) \/ CheckItem(t)
           \/ \E t \in Task, due \in WorkDue \cup {None}, who \in Party : EditTask(t, due, who)
  BY <1>2 DEF TaskStep, EditsTerms, Asks, Labours, EditsTask
<1>3. ASSUME NEW p \in Party, Checking(p) \/ Consult(p) \/ Decline(p) \/ Cancel(p) \/ DeclineRequestFollowup(p)
      PROVE  TaskStep
  <2>1. cmd[p].attempt \in Used
    BY <1>3, SentTyped DEF Checking, Consult, Decline, Cancel, DeclineRequestFollowup, Arrives
  <2>2. \E s \in (Open \cup Closed) \ {"accepted"} : Becomes(Moved(cmd[p].attempt, s))
    BY <1>3 DEF Checking, Consult, Decline, Cancel, DeclineRequestFollowup, RefusesFollowup, Open, Closed
  <2> QED BY <2>1, <2>2 DEF Turns, TaskStep
<1>5. ASSUME NEW p \in Party, ConfirmTerms(p) PROVE TaskStep
  BY <1>0, <1>c, <1>5 DEF ConfirmTerms, AsSeen
<1>6. ASSUME NEW p \in Party, Accept(p) PROVE TaskStep
  BY <1>0, <1>6 DEF Accept, AsSeen, Settles, TaskStep
<1>7. ASSUME NEW p \in Party, AnswerLate(p) PROVE TaskStep
  <2>1. CASE TooLate(cmd[p].attempt)
    BY <1>0, <1>b, <2>1
  <2>2. CASE UNCHANGED <<request, attempt, task, patched>>
    BY <2>2 DEF Pauses, TaskStep
  <2> QED BY <1>7, <2>1, <2>2 DEF AnswerLate
<1>10. ASSUME NEW a \in AttemptId, AcceptRequest(a) PROVE TaskStep
  <2>1. a \in OpenOnes
    BY <1>10 DEF AcceptRequest, ById
  <2>2. CASE TooLate(a)
    BY <1>b, <2>2
  <2>3. CASE Concludes(a, FALSE)
    BY <2>1, <2>3 DEF Settles, TaskStep
  <2>4. CASE Confirm(a, "recipient", FALSE)
    BY <1>c, <2>1, <2>4 DEF Party
  <2> QED BY <1>10, <2>2, <2>3, <2>4 DEF AcceptRequest
<1>11. ASSUME NEW a \in AttemptId, DeclineRequest(a) PROVE TaskStep
  <2>1. a \in Used
    BY <1>11 DEF DeclineRequest, ById
  <2>2. CASE TooLate(a)
    BY <1>b, <2>2
  <2>3. CASE Becomes(Moved(a, "declined"))
    BY <2>1, <2>3 DEF Turns, TaskStep, Closed
  <2> QED BY <1>11, <2>2, <2>3 DEF DeclineRequest, RefusesFollowup
<1>12. CASE ExpireRequestAttempts
  BY <1>b, <1>12 DEF ExpireRequestAttempts
<1> QED BY <1>1, <1>2, <1>3, <1>5, <1>6, <1>7, <1>10, <1>11, <1>12, NextCases

\* What is agreed stays agreed.
LEMMA AgreementsStay ==
  ASSUME Typing, [Next]_vars
  PROVE  \A a \in Used : Agreement(a) => a \in Used' /\ Agreement(a)'
<1> SUFFICES ASSUME NEW a \in Used, Agreement(a) PROVE a \in Used' /\ Agreement(a)'
  OBVIOUS
<1>1. attempt'[a] = attempt[a] /\ a \in AttemptId
  BY ClosedUnmoved DEF Agreement, Used, Closed
<1> QED BY <1>1 DEF Agreement, Used

\* No attempt is newly accepted.
NoneAccepted == \A a \in AttemptId : attempt'[a].state = "accepted" => attempt[a].state = "accepted"

\* Where no attempt is newly accepted, there is an agreement exactly if there was.
LEMMA AgreementsSame ==
  ASSUME Typing, [Next]_vars, NoneAccepted
  PROVE  HasAgreement' <=> HasAgreement
<1>1. HasAgreement => HasAgreement'
  BY AgreementsStay DEF HasAgreement
<1>2. ASSUME NEW a \in Used', Agreement(a)' PROVE a \in Used /\ Agreement(a)
  <2>1. a \in AttemptId /\ attempt[a].state = "accepted"
    BY <1>2 DEF Used, Agreement, NoneAccepted
  <2>2. attempt'[a] = attempt[a]
    BY <2>1, ClosedUnmoved DEF Closed
  <2> QED BY <1>2, <2>1, <2>2 DEF Agreement, Used
<1> QED BY <1>1, <1>2 DEF HasAgreement

\* The request is projected while the agreements and the tasks stay.
Rests == Becomes(attempt') /\ Used # {} /\ NoneAccepted

\* A transition short of acceptance, an edit and a follow-up question are such steps.
LEMMA RestsWhen ==
  ASSUME Typing, [Next]_vars, Turns \/ EditsTerms \/ Asks
  PROVE  Rests
<1>1. ASSUME NEW a \in Used, NEW s \in (Open \cup Closed) \ {"accepted"}, Becomes(Moved(a, s)) PROVE Rests
  <2>1. attempt' = Moved(a, s) /\ a \in AttemptId
    BY <1>1 DEF Becomes, Used
  <2> QED BY <1>1, <2>1, MovedRows DEF Rests, NoneAccepted
<1>2. ASSUME NEW p \in Party, EditTerms(p) PROVE Rests
  <2> DEFINE a == cmd[p].attempt
  <2>1. a \in Used /\ a \in AttemptId
    BY <1>2, SentTyped DEF EditTerms, Arrives
  <2>2. attempt' = Edited(a, cmd[p].terms) /\ Becomes(attempt')
    BY <1>2 DEF EditTerms, Becomes, Edited
  <2> QED BY <2>1, <2>2, EditedRows DEF Rests, NoneAccepted
<1>3. ASSUME NEW p \in Party, NEW op \in {"followup_change", "followup_cancel"}, StartRequestFollowup(p, op)
      PROVE  Rests
  <2>1. Newest < MaxAttempts /\ Used # {} /\ Becomes(attempt')
        /\ attempt' = New(FollowUpKind[op], "awaiting_confirmation", cmd[p].terms, cmd[p].reply_due, p)
    BY <1>3 DEF StartRequestFollowup, Becomes, Newest
  <2> QED BY <2>1, NewRows DEF Rests, NoneAccepted
<1> QED BY <1>1, <1>2, <1>3 DEF Turns, EditsTerms, Asks

\* The request is created once, with its first attempt.
LEMMA CreateFirst ==
  ASSUME Typing, NEW due \in ReplyDue, Create(due)
  PROVE  /\ Used = {} /\ NoneAccepted /\ UNCHANGED task
         /\ Newest < MaxAttempts /\ Used' = {Free}
<1>1. Used = {}
  BY DEF Create, Typing, Begun
<1>2. PICK terms : attempt' = New("initial", "pending", terms, due, "requester")
  BY DEF Create
<1>3. Newest < MaxAttempts
  BY <1>1, FS_EmptySet, BoundAssumption DEF Newest
<1>4. /\ Free \in AttemptId /\ attempt'[Free].state = "pending"
      /\ \A b \in AttemptId : b # Free => attempt'[b] = attempt[b]
  BY <1>2, <1>3, NewRows
<1>5. UNCHANGED task
  BY DEF Create
<1>6. NoneAccepted
  BY <1>4 DEF NoneAccepted
<1>7. Used' = {Free}
  BY <1>1, <1>4 DEF Used
<1> QED BY <1>1, <1>3, <1>5, <1>6, <1>7

\* A second proposal takes the terms of the expired one and leaves the tasks alone.
LEMMA ReproposeNew ==
  ASSUME Typing, NEW p \in Party, Repropose(p)
  PROVE  /\ Newest < MaxAttempts /\ NoneAccepted /\ UNCHANGED <<task, patched, cmd>>
         /\ request'.linked = request.linked /\ request'.status = "pending"
         /\ \E old \in AttemptId :
              /\ LastProposed(attempt, old) /\ attempt[old].state = "expired"
              /\ attempt' = New("reproposal", "pending", attempt[old].terms, cmd[p].reply_due, p)
<1>1. PICK old \in AttemptId :
        /\ LastProposed(attempt, old) /\ attempt[old].state = "expired"
        /\ attempt' = New("reproposal", "pending", attempt[old].terms, cmd[p].reply_due, p)
  BY DEF Repropose, Reproposable
<1>2. Newest < MaxAttempts
  BY DEF Repropose, Newest
<1>3. NoneAccepted
  <2>1. Free \in AttemptId /\ attempt'[Free].state = "pending"
        /\ \A b \in AttemptId : b # Free => attempt'[b] = attempt[b]
    BY <1>1, <1>2, NewRows
  <2> QED BY <2>1 DEF NoneAccepted
<1>4. UNCHANGED <<task, patched, cmd>> /\ request' = Reopened
  BY DEF Repropose, Records
<1>5. request'.linked = request.linked /\ request'.status = "pending"
  BY <1>4 DEF Reopened, Typing, RequestOK
<1> QED BY <1>1, <1>2, <1>3, <1>4, <1>5

-----------------------------------------------------------------------------
(* The link of the request and its agreement.                               *)

\* While a proposal is open, nothing is linked yet.
LEMMA OpenIsUnlinked ==
  ASSUME Typing, Chain, Linking, NEW a \in OpenOnes, attempt[a].kind \in Main
  PROVE  ~request.linked
<1> SUFFICES ASSUME NEW b \in Used, Agreement(b) PROVE FALSE
  BY DEF Linking
<1>1. IsMain(a) /\ IsMain(b) /\ a \in AttemptId /\ b \in AttemptId /\ a \in Nat /\ b \in Nat
  BY OpenOnesIn DEF IsMain, Agreement, Used, AttemptId
<1>2. attempt[a].state \in Open /\ attempt[b].state = "accepted"
  BY OpenOnesIn DEF Agreement
<1>3. a # b /\ attempt[a].state # "expired" /\ attempt[b].state # "expired"
  BY <1>2 DEF Open
<1>4. a < b \/ b < a
  BY <1>1, <1>3
<1> QED BY <1>1, <1>3, <1>4 DEF Chain

\* The acceptance of a proposal links a request that was not, and does not complete it.
LEMMA ConclusionLinks ==
  ASSUME Typing, Chain, Linking, NEW a \in OpenOnes, NEW patch \in BOOLEAN, Concludes(a, patch),
         MakeTask(a, patch) \/ HandOver(a, patch)
  PROVE  /\ ~request.linked /\ request'.linked = TRUE /\ attempt[a].kind \in Main
         /\ request'.status \in {"pending", "accepted", "declined", "cancelled"}
         /\ a \in Used' /\ Agreement(a)'
<1>0. attempt[a].kind \in Main /\ a \in AttemptId /\ a \in Used
  BY OpenOnesIn DEF MakeTask, HandOver
<1>1. ~request.linked
  BY <1>0, OpenIsUnlinked
<1> DEFINE r == Projected(Moved(a, "accepted"), task)
<1>2. r \in Requests /\ r.status \in {"pending", "accepted", "declined", "cancelled"}
  <2>1. request.status # "completed" /\ ~TaskDone(task)
    BY <1>1 DEF Linking, TaskDone
  <2>2. r = [request EXCEPT !.status = Standing(Moved(a, "accepted")), !.revision = @ + 1]
    BY <2>1 DEF Projected
  <2>3. r \in Requests
    BY ProjectedTyped DEF Typing
  <2> QED BY <2>2, <2>3, StandingTyped DEF Typing, RequestOK
<1>3. \E extra \in {0, 1} : request' = [r EXCEPT !.linked = TRUE, !.revision = @ + extra + Bump(a, patch)]
  BY DEF MakeTask, HandOver, Linked
<1> HIDE DEF r
<1>4. request'.linked = TRUE /\ request'.status = r.status
  BY <1>2, <1>3 DEF Requests
<1>5. attempt' = Moved(a, "accepted")
  BY DEF Concludes
<1>6. attempt'[a].kind = attempt[a].kind /\ attempt'[a].state = "accepted"
  BY <1>0, <1>5, MovedRows
<1> QED BY <1>0, <1>1, <1>2, <1>4, <1>6 DEF Agreement, Used

\* A follow-up meets the linked task open, as its terms have it, and no other task.
LEMMA FollowUpRows ==
  ASSUME Typing, NEW a \in Used, ApplyFollowUp(a)
  PROVE  /\ request.linked /\ attempt[a].kind \in FollowUp
         /\ task[Anchor].status = "open" /\ task[Anchor].revision = attempt[a].terms.base[Anchor].revision
         /\ task'[Anchor].revision = task[Anchor].revision + 1
         /\ task'[Anchor].assignee = task[Anchor].assignee
         /\ task'[Anchor].status \in {"open", "cancelled"}
         /\ \A t \in Task : t # Anchor => task'[t] = task[t]
         /\ request' = Projected(Moved(a, "accepted"), task')
<1> DEFINE row == [task[Anchor] EXCEPT !.revision = @ + 1,
                     !.status = IF attempt[a].kind = "cancel" THEN "cancelled" ELSE @,
                     !.due = IF attempt[a].kind = "change" THEN attempt[a].terms.due ELSE @]
<1>1. /\ task \in [Task -> Tasks] /\ Anchor \in Task /\ task[Anchor] \in Tasks
  BY TaskAssumption DEF Typing, TasksOK, Tasks
<1>2. task' = [task EXCEPT ![Anchor] = row]
  BY <1>1 DEF ApplyFollowUp, Tasks
<1>3. /\ row.revision = task[Anchor].revision + 1 /\ row.assignee = task[Anchor].assignee
      /\ task[Anchor].status = "open" => row.status \in {"open", "cancelled"}
  BY <1>1 DEF Tasks
<1> HIDE DEF row
<1>4. task'[Anchor] = row /\ \A t \in Task : t # Anchor => task'[t] = task[t]
  BY <1>1, <1>2
<1> QED BY <1>3, <1>4 DEF ApplyFollowUp

\* The task of a light request is made open, for the recipient.
LEMMA MadeRows ==
  ASSUME Typing, NEW a \in Used, NEW patch \in BOOLEAN, MakeTask(a, patch)
  PROVE  /\ Kind = "light" /\ Task = {Anchor}
         /\ task'[Anchor].status = "open" /\ task'[Anchor].assignee = "recipient"
         /\ task'[Anchor].revision = 1 + Bump(a, patch)
         /\ task'[Anchor].due = PatchedDue(a, Anchor, patch)
BY TaskAssumption DEF MakeTask, Typing, TasksOK

\* A hand-over meets its tasks open and as its terms have them, and no other task.
LEMMA HandedRows ==
  ASSUME Typing, NEW a \in Used, NEW patch \in BOOLEAN, HandOver(a, patch)
  PROVE  /\ Kind = "assignment_change"
         /\ \A t \in Task :
              IF Target(a, t)
              THEN /\ task[t].status = "open" /\ task[t].revision = attempt[a].terms.base[t].revision
                   /\ task'[t].status = "open" /\ task'[t].assignee = "recipient"
                   /\ task'[t].revision = task[t].revision + 1 + Bump(a, patch)
              ELSE task'[t] = task[t]
BY DEF HandOver, Unchanged, Target, Targets

\* The deadline patch of a replay meets an open task of an agreed request.
LEMMA ReplayRows ==
  ASSUME Typing, NEW p \in Party, Replay(p)
  PROVE  /\ attempt' = attempt /\ cmd' = cmd
         /\ request'.linked = request.linked /\ request'.status = request.status
         /\ \/ task' = task
            \/ /\ HasAgreement /\ task[Anchor].status = "open"
               /\ \A t \in Task : /\ task'[t].status = task[t].status /\ task'[t].assignee = task[t].assignee
                                  /\ t # Anchor => task'[t] = task[t]
               /\ task'[Anchor].revision = task[Anchor].revision + 1
<1> DEFINE a == cmd[p].attempt
<1>1. request' \in {request, [request EXCEPT !.revision = @ + 1]} /\ attempt' = attempt /\ cmd' = cmd
  BY DEF Replay
<1>2. request'.linked = request.linked /\ request'.status = request.status
  BY <1>1 DEF Typing, RequestOK
<1>3. CASE task' = task
  BY <1>1, <1>2, <1>3
<1>4. CASE task' # task
  <2>1. /\ attempt[a].kind \in Main /\ attempt[a].state = "accepted" /\ task[Anchor].status = "open"
        /\ task' = [task EXCEPT ![Anchor] = [task[Anchor] EXCEPT !.due = attempt[a].terms.due, !.revision = @ + 1]]
    BY <1>4 DEF Replay
  <2>2. a \in Used
    BY <2>1 DEF Used, Typing, CommandsOK, Command
  <2>3. HasAgreement
    BY <2>1, <2>2 DEF HasAgreement, Agreement
  <2>4. /\ \A t \in Task : /\ task'[t].status = task[t].status /\ task'[t].assignee = task[t].assignee
                           /\ t # Anchor => task'[t] = task[t]
        /\ task'[Anchor].revision = task[Anchor].revision + 1
    BY <2>1, TaskAssumption DEF Typing, TasksOK
  <2> QED BY <1>1, <1>2, <2>1, <2>3, <2>4
<1> QED BY <1>3, <1>4

\* What happens to the tasks otherwise.
LEMMA LabourRows ==
  ASSUME Typing, NEW t \in Task, CompleteTask(t) \/ ReopenTask(t) \/ CheckItem(t)
  PROVE  /\ attempt' = attempt /\ cmd' = cmd
         /\ task[t].status \in {"open", "completed"}
         /\ task'[t].status \in {"open", "completed"}
         /\ task'[t].revision = task[t].revision + 1
         /\ task'[t].assignee = task[t].assignee /\ task'[t].due = task[t].due
         /\ \A u \in Task : u # t => task'[u] = task[u]
         /\ request'.linked = request.linked
         /\ request'.status = "completed" => request.status = "completed" \/ request.linked
<1>1. PICK s \in {"open", "completed"} : Touch(t, s)
  BY DEF CompleteTask, ReopenTask, CheckItem
<1>2. /\ attempt' = attempt /\ cmd' = cmd
      /\ task' = [task EXCEPT ![t] = [task[t] EXCEPT !.status = s, !.revision = @ + 1]]
  BY <1>1 DEF Touch
<1>3. /\ task'[t].status = s /\ task'[t].revision = task[t].revision + 1
      /\ task'[t].assignee = task[t].assignee /\ task'[t].due = task[t].due
      /\ \A u \in Task : u # t => task'[u] = task[u]
  BY <1>2 DEF Typing, TasksOK
<1>4. task[t].status \in {"open", "completed"}
  BY DEF CompleteTask, ReopenTask, CheckItem
<1>5. \/ request' = request
      \/ request.linked /\ request' = [request EXCEPT !.status = "completed", !.revision = @ + 1]
      \/ request.linked /\ request' = [request EXCEPT !.status = "accepted"]
  BY DEF CompleteTask, ReopenTask, CheckItem, OfRequest
<1>6. /\ request'.linked = request.linked
      /\ request'.status = "completed" => request.status = "completed" \/ request.linked
  BY <1>5 DEF Typing, RequestOK
<1> QED BY <1>2, <1>3, <1>4, <1>6

\* An edit by hand is of the deadline and the assignee of one task that nobody agreed on.
LEMMA EditRows ==
  ASSUME Typing, NEW t \in Task, NEW due \in WorkDue \cup {None}, NEW who \in Party, EditTask(t, due, who)
  PROVE  /\ UNCHANGED <<request, attempt, cmd>> /\ t \in Manual /\ task[t].status = "open"
         /\ task'[t].status = task[t].status /\ task'[t].revision = task[t].revision /\ task'[t].assignee = who
         /\ who # task[t].assignee => ~HandedOver(t)
         /\ \A u \in Task : u # t => task'[u] = task[u]
<1>1. task' = [task EXCEPT ![t] = [task[t] EXCEPT !.due = due, !.assignee = who]]
  BY DEF EditTask
<1>2. /\ task'[t].status = task[t].status /\ task'[t].revision = task[t].revision /\ task'[t].assignee = who
      /\ \A u \in Task : u # t => task'[u] = task[u]
  BY <1>1 DEF Typing, TasksOK
<1> QED BY <1>2 DEF EditTask

\* Every step keeps the link with the agreement.
LEMMA LinkingKept ==
  ASSUME Typing, Chain, Linking, [Next]_vars
  PROVE  Linking'
<1> USE DEF HasAgreement
<1>0. Anchor \in Task /\ RequestOK /\ TasksOK
  BY TaskAssumption DEF Typing
<1>1. CASE Pauses
  BY <1>1 DEF Pauses, Linking, Used, Agreement
<1>2. CASE Rests
  <2>1. request' = Projected(attempt', task) /\ task' = task /\ (HasAgreement' <=> HasAgreement)
    BY <1>2, AgreementsSame DEF Rests, Becomes
  <2>2. request'.linked = request.linked
    BY <1>0, <2>1, ProjectedTyped
  <2>3. request'.status = "completed" => request.status = "completed" \/ request.linked
    <3>1. CASE request.status = "completed"
      BY <3>1
    <3>2. CASE request.status # "completed"
      <4>1. request'.status = IF TaskDone(task) THEN "completed" ELSE Standing(attempt')
        BY <1>0, <2>1, <3>2 DEF Projected, RequestOK
      <4> QED BY <4>1, StandingTyped DEF TaskDone
    <3> QED BY <3>1, <3>2
  <2> QED BY <2>1, <2>2, <2>3 DEF Linking
<1>3. ASSUME NEW due \in ReplyDue, Create(due) PROVE Linking'
  <2>1. Used = {} /\ task' = task /\ (HasAgreement' <=> HasAgreement)
    BY <1>3, CreateFirst, AgreementsSame
  <2>2. request'.linked = FALSE /\ request'.status = "pending"
    BY <1>3 DEF Create
  <2>3. ~request.linked
    BY <2>1 DEF Linking
  <2> QED BY <2>1, <2>2, <2>3 DEF Linking
<1>4. ASSUME NEW p \in Party, Repropose(p) PROVE Linking'
  <2>1. /\ task' = task /\ (HasAgreement' <=> HasAgreement)
        /\ request'.linked = request.linked /\ request'.status = "pending"
    BY <1>4, ReproposeNew, AgreementsSame
  <2> QED BY <2>1 DEF Linking
<1>5. ASSUME NEW a \in OpenOnes, NEW patch \in BOOLEAN, Concludes(a, patch) PROVE Linking'
  <2>0. a \in Used
    BY OpenOnesIn
  <2>1. CASE MakeTask(a, patch)
    <3>1. request'.linked = TRUE /\ request'.status # "completed" /\ a \in Used' /\ Agreement(a)'
      BY <1>5, <2>1, ConclusionLinks
    <3>2. \A t \in Task : task'[t].status # "absent"
      BY <2>0, <2>1, MadeRows
    <3> QED BY <3>1, <3>2 DEF Linking
  <2>2. CASE HandOver(a, patch)
    <3>1. request'.linked = TRUE /\ request'.status # "completed" /\ a \in Used' /\ Agreement(a)'
      BY <1>5, <2>2, ConclusionLinks
    <3>2. \A t \in Task : task'[t].status = "absent" => task'[t] = task[t]
      BY <2>0, <2>2, HandedRows
    <3> QED BY <3>1, <3>2 DEF Linking
  <2>3. CASE ApplyFollowUp(a)
    <3>1. /\ request.linked /\ task'[Anchor].status # "absent"
          /\ \A t \in Task : t # Anchor => task'[t] = task[t]
          /\ request' = Projected(Moved(a, "accepted"), task')
      BY <2>0, <2>3, FollowUpRows
    <3>2. request'.linked = request.linked
      BY <1>0, <3>1, ProjectedTyped
    <3>3. HasAgreement'
      BY <3>1, AgreementsStay DEF Linking
    <3> QED BY <3>1, <3>2, <3>3 DEF Linking
  <2> QED BY <1>5, <2>1, <2>2, <2>3 DEF Concludes
<1>6. ASSUME NEW p \in Party, Replay(p) PROVE Linking'
  <2>1. /\ attempt' = attempt
        /\ request'.linked = request.linked /\ request'.status = request.status
    BY <1>6, ReplayRows
  <2>2. HasAgreement' <=> HasAgreement
    BY <2>1 DEF Used, Agreement
  <2>3. CASE task' = task
    BY <2>1, <2>2, <2>3 DEF Linking
  <2>4. CASE task' # task
    <3>1. /\ HasAgreement /\ task[Anchor].status = "open"
          /\ \A t \in Task : /\ task'[t].status = task[t].status
                             /\ t # Anchor => task'[t] = task[t]
      BY <1>6, <2>4, ReplayRows
    <3> QED BY <2>1, <2>2, <3>1 DEF Linking
  <2> QED BY <2>3, <2>4
<1>7. ASSUME NEW t \in Task, CompleteTask(t) \/ ReopenTask(t) \/ CheckItem(t) PROVE Linking'
  <2>1. /\ attempt' = attempt
        /\ task[t].status \in {"open", "completed"}
        /\ task'[t].status \in {"open", "completed"}
        /\ \A u \in Task : u # t => task'[u] = task[u]
        /\ request'.linked = request.linked
        /\ request'.status = "completed" => request.status = "completed" \/ request.linked
    BY <1>7, LabourRows
  <2>2. HasAgreement' <=> HasAgreement
    BY <2>1 DEF Used, Agreement
  <2>3. Kind = "light" => request.linked
    BY <2>1, TaskAssumption DEF Linking
  <2>4. \A u \in Task : task'[u].status = "absent" => task'[u] = task[u]
    BY <2>1
  <2> QED BY <1>0, <2>1, <2>2, <2>3, <2>4 DEF Linking
<1>8. ASSUME NEW t \in Task, NEW due \in WorkDue \cup {None}, NEW who \in Party, EditTask(t, due, who) PROVE Linking'
  <2>1. /\ UNCHANGED <<request, attempt>>
        /\ \A u \in Task : task'[u].status = task[u].status /\ task'[u].revision = task[u].revision
    BY <1>8, EditRows
  <2>2. HasAgreement' <=> HasAgreement
    BY <2>1 DEF Used, Agreement
  <2> QED BY <1>0, <2>1, <2>2 DEF Linking
<1>9. TaskStep
  BY TaskSteps
<1> QED BY <1>1, <1>2, <1>3, <1>4, <1>5, <1>6, <1>7, <1>8, <1>9, RestsWhen
     DEF TaskStep, Settles, Labours, EditsTask

\* There is no link and no agreement at the start.
LEMMA InitLinked == Init => Linking
<1> SUFFICES ASSUME Init PROVE Linking
  OBVIOUS
<1>1. Used = {} /\ request.linked = FALSE /\ request.status = "none"
  BY DEF Init, Used, NoAttempt
<1>2. \A t \in Task : task[t].revision = 1 /\ (Kind = "light" => task[t].status = "absent")
  BY DEF Init
<1> QED BY <1>1, <1>2, TaskAssumption DEF Linking

\* The link and the agreement go together throughout.
LEMMA LinkingHolds == Spec => [](Typing /\ Chain /\ StatusReflectsAttempts /\ Linking)
<1>1. Typing /\ Chain /\ Linking /\ [Next]_vars => Linking'
  BY LinkingKept
<1> QED BY <1>1, InitLinked, StatusHolds, PTL DEF Spec

\* A linked request stands accepted or completed.
LEMMA LinkedIsAgreed ==
  ASSUME Typing, StatusReflectsAttempts, Linking, request.linked
  PROVE  request.status \in {"accepted", "completed"}
<1>1. PICK a \in Used : Agreement(a)
  BY DEF Linking
<1>2. a \in Proposed(attempt) /\ attempt[a].state = "accepted"
  BY <1>1 DEF Agreement, Used, Proposed
<1>3. Standing(attempt) = "accepted"
  BY <1>2, StandingAgreed
<1>4. request.status # "none"
  BY <1>1 DEF Typing, Begun
<1> QED BY <1>3, <1>4 DEF StatusReflectsAttempts, Typing, RequestOK

\* No sequence of answers, follow-ups, completions and checklist changes leads
\* to a request the projection would raise on, and so stop the expiry of all.
THEOREM NeverConflicts == Spec => []AlwaysProjectable
<1>1. Typing /\ Chain /\ StatusReflectsAttempts /\ Linking => AlwaysProjectable
  BY LinkedIsAgreed DEF AlwaysProjectable, Projectable, TaskDone
<1> QED BY <1>1, LinkingHolds, PTL

-----------------------------------------------------------------------------
(* The request is completed exactly while its task is.                      *)

\* The linked task is no checklist.
Plain == Anchor \notin Checklist

\* The request names one of the tasks it hands over.
AnchorMeant == Kind = "assignment_change" =>
                 \A a \in AttemptId : IsMain(a) => Anchor \in Targets(attempt[a].terms)

\* Every step keeps the status of the request with that of its task.
LEMMA FollowsKept ==
  ASSUME Typing, Chain, StatusReflectsAttempts, Linking, AnchorMeant, RequestFollowsTask, Plain, [Next]_vars
  PROVE  RequestFollowsTask'
<1>0. Anchor \in Task /\ RequestOK /\ TasksOK
  BY TaskAssumption DEF Typing
<1>r. RequestFollowsTask' <=> (request'.status = "completed" <=> request'.linked /\ task'[Anchor].status = "completed")
  BY DEF RequestFollowsTask, TaskDone
<1>q. request.status = "completed" <=> request.linked /\ task[Anchor].status = "completed"
  BY DEF RequestFollowsTask, TaskDone
<1>1. CASE Pauses
  BY <1>1, <1>r, <1>q DEF Pauses
<1>2. CASE Rests
  <2>1. request' = Projected(attempt', task) /\ task' = task
    BY <1>2 DEF Rests, Becomes
  <2>2. request'.linked = request.linked
    BY <1>0, <2>1, ProjectedTyped
  <2>3. CASE request.status = "completed"
    BY <2>1, <2>3, <1>r, <1>q DEF Projected
  <2>4. CASE request.status # "completed"
    <3>1. request'.status = IF TaskDone(task) THEN "completed" ELSE Standing(attempt')
      BY <1>0, <2>1, <2>4 DEF Projected, RequestOK
    <3> QED BY <2>1, <2>2, <3>1, <1>r, StandingTyped DEF TaskDone
  <2> QED BY <2>3, <2>4
<1>3. ASSUME NEW due \in ReplyDue, Create(due) PROVE RequestFollowsTask'
  BY <1>3, <1>r DEF Create
<1>4. ASSUME NEW p \in Party, Repropose(p) PROVE RequestFollowsTask'
  <2>1. request'.linked = request.linked /\ request'.status = "pending"
    BY <1>4, ReproposeNew
  <2>2. ~request.linked
    <3>1. PICK old \in AttemptId : LastProposed(attempt, old) /\ attempt[old].state = "expired"
      BY <1>4, ReproposeNew
    <3> QED BY <3>1, ExpiredIsNewest DEF Linking
  <2> QED BY <2>1, <2>2, <1>r
<1>5. ASSUME NEW a \in OpenOnes, NEW patch \in BOOLEAN, Concludes(a, patch) PROVE RequestFollowsTask'
  <2>0. a \in Used /\ a \in AttemptId
    BY OpenOnesIn
  <2>1. CASE MakeTask(a, patch)
    <3>1. request'.status # "completed"
      BY <1>5, <2>1, ConclusionLinks
    <3>2. task'[Anchor].status = "open"
      BY <2>0, <2>1, MadeRows
    <3> QED BY <3>1, <3>2, <1>r
  <2>2. CASE HandOver(a, patch)
    <3>1. request'.status # "completed" /\ attempt[a].kind \in Main
      BY <1>5, <2>2, ConclusionLinks
    <3>2. Target(a, Anchor) /\ Kind = "assignment_change"
      BY <2>0, <2>2, <3>1, HandedRows DEF Target, AnchorMeant, IsMain
    <3>3. task'[Anchor].status = "open"
      BY <1>0, <2>0, <2>2, <3>2, HandedRows
    <3> QED BY <3>1, <3>3, <1>r
  <2>3. CASE ApplyFollowUp(a)
    <3>1. /\ request.linked /\ task[Anchor].status = "open" /\ task'[Anchor].status \in {"open", "cancelled"}
          /\ request' = Projected(Moved(a, "accepted"), task')
      BY <2>0, <2>3, FollowUpRows
    <3>2. request.status # "completed"
      BY <3>1, <1>q
    <3>3. request'.status = Standing(Moved(a, "accepted"))
      BY <1>0, <3>1, <3>2 DEF Projected, RequestOK, TaskDone
    <3>4. request'.status # "completed"
      BY <3>3, StandingTyped
    <3> QED BY <3>1, <3>4, <1>r
  <2> QED BY <1>5, <2>1, <2>2, <2>3 DEF Concludes
<1>6. ASSUME NEW p \in Party, Replay(p) PROVE RequestFollowsTask'
  BY <1>0, <1>6, <1>r, <1>q, ReplayRows
<1>7. ASSUME NEW t \in Task, CompleteTask(t) PROVE RequestFollowsTask'
  <2>1. task' = [task EXCEPT ![t] = [task[t] EXCEPT !.status = "completed", !.revision = @ + 1]] /\ task[t].status = "open"
    BY <1>7 DEF CompleteTask, Touch
  <2>2. /\ task'[t].status = "completed" /\ \A u \in Task : u # t => task'[u] = task[u]
    BY <2>1 DEF Typing, TasksOK
  <2>3. CASE OfRequest(t, "accepted")
    <3>1. request' = [request EXCEPT !.status = "completed", !.revision = @ + 1]
      BY <1>7, <2>3 DEF CompleteTask
    <3>2. request'.status = "completed" /\ request'.linked = request.linked
      BY <1>0, <3>1 DEF RequestOK
    <3> QED BY <2>2, <2>3, <3>2, <1>r DEF OfRequest
  <2>4. CASE ~OfRequest(t, "accepted")
    <3>1. request' = request
      BY <1>7, <2>4 DEF CompleteTask
    <3>2. t = Anchor => ~request.linked
      BY <2>1, <2>4, <1>q, LinkedIsAgreed DEF OfRequest
    <3> QED BY <1>0, <2>2, <3>1, <3>2, <1>r, <1>q
  <2> QED BY <2>3, <2>4
<1>8. ASSUME NEW t \in Task, ReopenTask(t) PROVE RequestFollowsTask'
  <2>1. task' = [task EXCEPT ![t] = [task[t] EXCEPT !.status = "open", !.revision = @ + 1]] /\ task[t].status = "completed"
    BY <1>8 DEF ReopenTask, Touch
  <2>2. /\ task'[t].status = "open" /\ \A u \in Task : u # t => task'[u] = task[u]
    BY <2>1 DEF Typing, TasksOK
  <2>3. CASE OfRequest(t, "completed")
    <3>1. request' = [request EXCEPT !.status = "accepted"]
      BY <1>8, <2>3 DEF ReopenTask
    <3>2. request'.status = "accepted"
      BY <1>0, <3>1 DEF RequestOK
    <3> QED BY <2>2, <2>3, <3>2, <1>r DEF OfRequest
  <2>4. CASE ~OfRequest(t, "completed")
    <3>1. request' = request
      BY <1>8, <2>4 DEF ReopenTask
    <3>2. t = Anchor => ~request.linked
      BY <2>1, <2>4, <1>q DEF OfRequest
    <3> QED BY <1>0, <2>2, <3>1, <3>2, <1>r, <1>q
  <2> QED BY <2>3, <2>4
<1>9. ASSUME NEW t \in Task, CheckItem(t) PROVE RequestFollowsTask'
  <2>1. t # Anchor /\ request' = request
    BY <1>9 DEF CheckItem, Plain
  <2>2. task'[Anchor] = task[Anchor]
    BY <1>0, <1>9, <2>1, LabourRows
  <2> QED BY <2>1, <2>2, <1>r, <1>q
<1>10. ASSUME NEW t \in Task, NEW due \in WorkDue \cup {None}, NEW who \in Party, EditTask(t, due, who)
       PROVE  RequestFollowsTask'
  <2>1. request' = request /\ task'[Anchor].status = task[Anchor].status
    BY <1>0, <1>10, EditRows
  <2> QED BY <2>1, <1>r, <1>q
<1>11. TaskStep
  BY TaskSteps
<1> QED BY <1>1, <1>2, <1>3, <1>4, <1>5, <1>6, <1>7, <1>8, <1>9, <1>10, <1>11, RestsWhen
     DEF TaskStep, Settles, Labours, EditsTask

\* A step adds one attempt at most.
LEMMA OneNew ==
  ASSUME Typing, [Next]_vars, NEW a \in Used', NEW b \in Used', a \notin Used, b \notin Used
  PROVE  a = b
<1>0. a \in AttemptId /\ b \in AttemptId /\ attempt'[a] # attempt[a] /\ attempt'[b] # attempt[b]
  BY DEF Used
<1>1. CASE attempt' = attempt
  BY <1>0, <1>1
<1>2. ASSUME NEW c \in AttemptId, NEW s \in Open \cup Closed, Moves(c, s) PROVE a = b
  BY <1>0, <1>2, MovedRows DEF Moves
<1>3. ASSUME NEW c \in AttemptId, NEW terms \in Terms, Edits(c, terms) PROVE a = b
  BY <1>0, <1>3, EditedRows DEF Edits
<1>4. ASSUME NEW kind, NEW s, NEW terms, NEW due, NEW by, Newest < MaxAttempts,
             attempt' = New(kind, s, terms, due, by)
      PROVE  a = b
  BY <1>0, <1>4, NewRows
<1>5. CASE \E kind \in Main, terms \in Terms, due \in ReplyDue \cup {Never} : Proposes(kind, terms, due)
  BY <1>4, <1>5 DEF Proposes
<1>6. CASE \E kind \in FollowUp, terms \in Terms, due \in ReplyDue \cup {Never}, p \in Party : Follows(kind, terms, due, p)
  BY <1>4, <1>6 DEF Follows
<1> QED BY <1>1, <1>2, <1>3, <1>5, <1>6, AttemptSteps DEF AttemptStep

-----------------------------------------------------------------------------
(* What the terms of an attempt are about stays what it was.                *)

\* The operations that ask for a follow-up.
FollowOps == {"followup_change", "followup_cancel"}

\* A party that composes an operation changes nothing else.
LEMMA CommandMoves ==
  ASSUME Typing, [Next]_vars
  PROVE  \/ cmd' = cmd
         \/ /\ UNCHANGED <<request, attempt, task>>
            /\ \E p \in Party, op \in Operations :
                 /\ \A q \in Party : q # p => cmd'[q] = cmd[q]
                 /\ cmd'[p].action = op /\ cmd'[p].attempt = Newest /\ Newest \in Used
                 /\ cmd'[p].terms \in Proposals(op, attempt[Newest].terms)
<1>1. ASSUME NEW p \in Party, NEW op \in Operations, Compose(p, op)
      PROVE  /\ UNCHANGED <<request, attempt, task>>
             /\ \A q \in Party : q # p => cmd'[q] = cmd[q]
             /\ cmd'[p].action = op /\ cmd'[p].attempt = Newest /\ Newest \in Used
             /\ cmd'[p].terms \in Proposals(op, attempt[Newest].terms)
  <2>1. Newest \in Used
    <3>1. Used # {} /\ Used = 1 .. Newest /\ Newest \in Nat
      BY <1>1, UsedCounts DEF Compose, Typing, AttemptsOK, Newest
    <3> QED BY <3>1
  <2>2. UNCHANGED <<request, attempt, task>>
    BY <1>1 DEF Compose
  <2>3. PICK terms \in Proposals(op, attempt[Newest].terms), due \in Deadlines(op) :
          cmd' = [cmd EXCEPT ![p] =
             [action |-> op, attempt |-> Newest,
              revision |-> IF op \in {"repropose", "followup_change", "followup_cancel"}
                           THEN request.revision ELSE attempt[Newest].revision,
              terms_revision |-> attempt[Newest].terms_revision,
              seen |-> attempt[Newest].terms, terms |-> terms, reply_due |-> due]]
    BY <1>1 DEF Compose
  <2>4. \A q \in Party : q # p => cmd'[q] = cmd[q]
    BY <2>3 DEF Typing, CommandsOK
  <2>5. cmd'[p].action = op /\ cmd'[p].attempt = Newest /\ cmd'[p].terms = terms
    BY <2>3 DEF Typing, CommandsOK
  <2> QED BY <2>1, <2>2, <2>3, <2>4, <2>5
<1>2. cmd' = cmd \/ \E p \in Party, op \in Operations : Compose(p, op)
  BY CommandSteps
<1> QED BY <1>1, <1>2

\* An edit keeps the tasks, a follow-up is about the linked one as it is.
LEMMA ProposalBase ==
  ASSUME Typing, NEW a \in Used, NEW op \in Operations, NEW terms \in Proposals(op, attempt[a].terms)
  PROVE  IF op \in FollowOps THEN terms.base = Snap({Anchor}) ELSE terms.base = attempt[a].terms.base
<1>1. attempt[a].terms \in Terms
  BY DEF Typing, AttemptsOK
<1>2. CASE op = "followup_change"
  BY <1>2 DEF Proposals, FollowOps
<1>3. CASE op = "followup_cancel"
  BY <1>3 DEF Proposals, FollowOps
<1>4. CASE op = "edit_terms"
  BY <1>1, <1>4 DEF Proposals, FollowOps, Terms
<1>5. CASE op \notin {"followup_change", "followup_cancel", "edit_terms"}
  BY <1>5 DEF Proposals, FollowOps
<1> QED BY <1>2, <1>3, <1>4, <1>5

\* Terms written now are about those tasks, as they are.
LEMMA SnapTargets ==
  ASSUME Typing, NEW S \in SUBSET Task, NEW terms, terms.base = Snap(S)
  PROVE  /\ Targets(terms) = S
         /\ \A t \in S : terms.base[t].revision = task[t].revision /\ terms.base[t].due = task[t].due
<1>1. \A t \in Task : terms.base[t] = IF t \in S THEN [revision |-> task[t].revision, assignee |-> task[t].assignee,
                                                due |-> task[t].due] ELSE NotATarget
  BY DEF Snap
<1>2. \A t \in Task : task[t].revision # 0
  BY DEF Typing, TasksOK
<1>3. ASSUME NEW t \in Task, t \in S
      PROVE  terms.base[t].revision = task[t].revision /\ terms.base[t].due = task[t].due
  <2>1. terms.base[t] = [revision |-> task[t].revision, assignee |-> task[t].assignee, due |-> task[t].due]
    BY <1>1, <1>3
  <2> QED BY <2>1
<1>4. NotATarget.revision = 0
  BY DEF NotATarget
<1>5. \A t \in Task : terms.base[t] # NotATarget <=> t \in S
  BY <1>1, <1>2, <1>3, <1>4
<1> QED BY <1>3, <1>5 DEF Targets

\* Of an attempt that is used, kind and tasks never change.
LEMMA BaseKept ==
  ASSUME Typing, Scopes, [Next]_vars, NEW a \in Used
  PROVE  a \in Used' /\ attempt'[a].kind = attempt[a].kind /\ attempt'[a].terms.base = attempt[a].terms.base
<1>0. a \in AttemptId /\ a \in Used'
  BY TermsKept DEF Used
<1>1. CASE attempt' = attempt
  BY <1>0, <1>1
<1>2. ASSUME NEW b \in Used, NEW s, attempt' = Moved(b, s)
      PROVE  attempt'[a].kind = attempt[a].kind /\ attempt'[a].terms.base = attempt[a].terms.base
  BY <1>0, <1>2, MovedRows DEF Used
<1>3. ASSUME NEW p \in Party, EditTerms(p)
      PROVE  attempt'[a].kind = attempt[a].kind /\ attempt'[a].terms.base = attempt[a].terms.base
  <2> DEFINE b == cmd[p].attempt
  <2>1. b \in Used /\ b \in AttemptId
    BY <1>3, SentTyped DEF EditTerms, Arrives
  <2>2. attempt' = Edited(b, cmd[p].terms) /\ cmd[p].terms.base = attempt[b].terms.base
    BY <1>3 DEF EditTerms, Becomes, Edited, Arrives, Scopes
  <2>3. attempt'[a].kind = attempt[a].kind
        /\ attempt'[a].terms = IF a = b THEN cmd[p].terms ELSE attempt[a].terms
    BY <1>0, <2>1, <2>2, EditedRows
  <2> QED BY <2>2, <2>3
<1>4. ASSUME NEW kind, NEW s, NEW terms, NEW due, NEW by, Newest < MaxAttempts,
             attempt' = New(kind, s, terms, due, by)
      PROVE  attempt'[a].kind = attempt[a].kind /\ attempt'[a].terms.base = attempt[a].terms.base
  <2>1. a # Free
    BY <1>4, NewRows
  <2> QED BY <1>0, <1>4, <2>1, NewRows
<1>5. CASE Turns \/ Settles
  <2>1. \E b \in Used, s \in Open \cup Closed : attempt' = Moved(b, s)
    BY <1>5, OpenOnesIn DEF Turns, Settles, Concludes, Becomes, Closed
  <2> QED BY <1>0, <1>2, <2>1
<1>6. ASSUME NEW p \in Party, NEW op \in FollowOps, StartRequestFollowup(p, op)
      PROVE  attempt'[a].kind = attempt[a].kind /\ attempt'[a].terms.base = attempt[a].terms.base
  <2>1. Newest < MaxAttempts
        /\ attempt' = New(FollowUpKind[op], "awaiting_confirmation", cmd[p].terms, cmd[p].reply_due, p)
    BY <1>6 DEF StartRequestFollowup, Becomes, Newest
  <2> QED BY <1>4, <2>1
<1>7. ASSUME NEW p \in Party, Repropose(p)
      PROVE  attempt'[a].kind = attempt[a].kind /\ attempt'[a].terms.base = attempt[a].terms.base
  BY <1>4, <1>7, ReproposeNew
<1>8. ASSUME NEW due \in ReplyDue, Create(due) PROVE FALSE
  BY <1>8, CreateFirst
<1>9. CASE Labours \/ EditsTask \/ Pauses \/ \E p \in Party : Replay(p)
  <2>1. attempt' = attempt
    BY <1>9, LabourRows, EditRows DEF Labours, EditsTask, Pauses, Replay
  <2> QED BY <1>1, <2>1
<1>10. TaskStep
  BY TaskSteps
<1> QED BY <1>0, <1>3, <1>5, <1>6, <1>7, <1>8, <1>9, <1>10 DEF TaskStep, EditsTerms, Asks, FollowOps

\* A new attempt is the first, one with the tasks of a proposal before it, or
\* a follow-up.
Begins(kind, terms) ==
  \/ /\ kind = "initial" /\ Used = {}
     /\ terms.base = Snap(IF Kind = "light" THEN {}
                     ELSE {t \in Task : task[t].status = "open" /\ task[t].assignee = "requester"})
     /\ Kind = "assignment_change" => task[Anchor].status = "open" /\ task[Anchor].assignee = "requester"
     /\ request'.linked = FALSE
  \/ /\ kind = "reproposal" /\ request'.linked = request.linked
     /\ \E old \in Used : IsMain(old) /\ terms.base = attempt[old].terms.base
  \/ /\ kind \in FollowUp
     /\ \E p \in Party : cmd[p].action \in FollowOps /\ terms.base = cmd[p].terms.base

\* An attempt that begins does so in one of these ways.
LEMMA NewUsed ==
  ASSUME Typing, [Next]_vars, NEW a \in Used', a \notin Used
  PROVE  Begins(attempt'[a].kind, attempt'[a].terms) /\ UNCHANGED <<cmd, task>>
<1>0. a \in AttemptId /\ attempt[a].state = "none" /\ attempt'[a].state # "none"
  BY DEF Used
<1>1. CASE attempt' = attempt
  BY <1>0, <1>1
<1>2. ASSUME NEW b \in Used, NEW s, attempt' = Moved(b, s)
      PROVE  FALSE
  <2>1. a # b /\ b \in AttemptId
    BY DEF Used
  <2>2. attempt'[a] = attempt[a]
    BY <1>0, <1>2, <2>1, MovedRows
  <2> QED BY <1>0, <2>2
<1>3. ASSUME NEW p \in Party, EditTerms(p)
      PROVE  FALSE
  <2> DEFINE b == cmd[p].attempt
  <2>1. b \in Used /\ b \in AttemptId /\ a # b
    BY <1>3, SentTyped DEF EditTerms, Arrives
  <2>2. attempt' = Edited(b, cmd[p].terms)
    BY <1>3 DEF EditTerms, Becomes, Edited
  <2>3. attempt'[a] = attempt[a]
    BY <1>0, <2>1, <2>2, EditedRows
  <2> QED BY <1>0, <2>3
<1>4. ASSUME NEW kind, NEW s, NEW terms, NEW due, NEW by, Newest < MaxAttempts,
             attempt' = New(kind, s, terms, due, by)
      PROVE  attempt'[a].kind = kind /\ attempt'[a].terms = terms
  <2>1. a = Free
    BY <1>0, <1>4, NewRows
  <2> QED BY <1>4, <2>1, NewRows
<1>5. CASE Turns \/ Settles
  <2>1. \E b \in Used, s \in Open \cup Closed : attempt' = Moved(b, s)
    BY <1>5, OpenOnesIn DEF Turns, Settles, Concludes, Becomes, Closed
  <2> QED BY <1>2, <2>1
<1>6. ASSUME NEW p \in Party, NEW op \in FollowOps, StartRequestFollowup(p, op)
      PROVE  Begins(attempt'[a].kind, attempt'[a].terms) /\ UNCHANGED <<cmd, task>>
  <2>1. /\ Newest < MaxAttempts /\ cmd[p].action = op /\ UNCHANGED <<cmd, task>>
        /\ attempt' = New(FollowUpKind[op], "awaiting_confirmation", cmd[p].terms, cmd[p].reply_due, p)
    BY <1>6 DEF StartRequestFollowup, Becomes, Newest, Arrives, Records
  <2>2. FollowUpKind[op] \in FollowUp
    BY DEF FollowUpKind, FollowUp, FollowOps
  <2>3. attempt'[a].kind = FollowUpKind[op] /\ attempt'[a].terms = cmd[p].terms
    BY <1>4, <2>1
  <2> QED BY <2>1, <2>2, <2>3 DEF Begins
<1>7. ASSUME NEW p \in Party, Repropose(p)
      PROVE  Begins(attempt'[a].kind, attempt'[a].terms) /\ UNCHANGED <<cmd, task>>
  <2>1. PICK old \in AttemptId :
          /\ LastProposed(attempt, old)
          /\ attempt' = New("reproposal", "pending", attempt[old].terms, cmd[p].reply_due, p)
    BY <1>7, ReproposeNew
  <2>2. Newest < MaxAttempts /\ UNCHANGED <<cmd, task>> /\ request'.linked = request.linked
    BY <1>7, ReproposeNew
  <2>3. attempt'[a].kind = "reproposal" /\ attempt'[a].terms = attempt[old].terms
    BY <1>4, <2>1, <2>2
  <2>4. old \in Used /\ IsMain(old)
    BY <2>1 DEF LastProposed, Proposed, IsMain, Used
  <2> QED BY <2>2, <2>3, <2>4 DEF Begins
<1>8. ASSUME NEW due \in ReplyDue, Create(due)
      PROVE  Begins(attempt'[a].kind, attempt'[a].terms) /\ UNCHANGED <<cmd, task>>
  <2> DEFINE targets == IF Kind = "light" THEN {}
                        ELSE {t \in Task : task[t].status = "open" /\ task[t].assignee = "requester"}
             terms == [due |-> None, base |-> Snap(targets)]
  <2>1. /\ attempt' = New("initial", "pending", terms, due, "requester")
        /\ UNCHANGED <<cmd, task>> /\ request'.linked = FALSE
        /\ Kind = "assignment_change" => Anchor \in targets
    BY <1>8 DEF Create
  <2>2. Newest < MaxAttempts /\ Used = {}
    BY <1>8, CreateFirst
  <2>3. attempt'[a].kind = "initial" /\ attempt'[a].terms = terms
    BY <1>4, <2>1, <2>2
  <2>4. attempt'[a].terms.base = Snap(targets)
    BY <2>3
  <2>5. Kind = "assignment_change" => task[Anchor].status = "open" /\ task[Anchor].assignee = "requester"
    BY <2>1
  <2> QED BY <2>1, <2>2, <2>3, <2>4, <2>5 DEF Begins
<1>9. CASE Labours \/ EditsTask \/ Pauses \/ \E p \in Party : Replay(p)
  <2>1. attempt' = attempt
    BY <1>9, LabourRows, EditRows DEF Labours, EditsTask, Pauses, Replay
  <2> QED BY <1>1, <2>1
<1>10. TaskStep
  BY TaskSteps
<1> QED BY <1>3, <1>5, <1>6, <1>7, <1>8, <1>9, <1>10 DEF TaskStep, EditsTerms, Asks, FollowOps

\* What terms are about is in the tasks they name.
LEMMA ScopeByBase ==
  ASSUME NEW kind, NEW terms, NEW other, terms.base = other.base
  PROVE  Targets(terms) = Targets(other) /\ (Scope(kind, terms) <=> Scope(kind, other))
BY DEF Targets, Scope

\* Every step leaves what terms are about as it was.
LEMMA ScopesKept ==
  ASSUME Typing, Scopes, [Next]_vars
  PROVE  Scopes'
<1> USE MainApart
<1>0. Anchor \in Task /\ {Anchor} \in SUBSET Task
  BY TaskAssumption
<1>1. \A a \in AttemptId : IsMain(a)' /\ a \in Used => IsMain(a)
  BY BaseKept DEF IsMain
<1>2. ASSUME NEW a \in Used' PROVE Scope(attempt'[a].kind, attempt'[a].terms)
  <2>1. CASE a \in Used
    BY <2>1, BaseKept, ScopeByBase DEF Scopes
  <2>2. CASE a \notin Used
    <3>1. Begins(attempt'[a].kind, attempt'[a].terms)
      BY <2>2, NewUsed
    <3> DEFINE kind == attempt'[a].kind
               terms == attempt'[a].terms
               targets == IF Kind = "light" THEN {}
                          ELSE {t \in Task : task[t].status = "open" /\ task[t].assignee = "requester"}
    <3>2. CASE kind = "initial" /\ terms.base = Snap(targets)
               /\ (Kind = "assignment_change" => task[Anchor].status = "open" /\ task[Anchor].assignee = "requester")
      <4>1. targets \in SUBSET Task
        OBVIOUS
      <4>2. Targets(terms) = targets
        BY <3>2, <4>1, SnapTargets
      <4>3. kind \in Main /\ kind \notin FollowUp
        BY <3>2 DEF Main, FollowUp
      <4> QED BY <1>0, <3>2, <4>2, <4>3, KindAssumption DEF Scope
    <3>3. CASE kind = "reproposal" /\ (\E old \in Used : IsMain(old) /\ terms.base = attempt[old].terms.base)
      <4>1. PICK old \in Used : IsMain(old) /\ terms.base = attempt[old].terms.base
        BY <3>3
      <4>2. Scope(attempt[old].kind, attempt[old].terms) /\ attempt[old].kind \in Main
        BY <4>1 DEF Scopes, IsMain
      <4>3. Scope(kind, attempt[old].terms)
        BY <3>3, <4>2 DEF Scope, Main, FollowUp
      <4> QED BY <4>1, <4>3, ScopeByBase
    <3>4. CASE kind \in FollowUp /\ \E p \in Party : cmd[p].action \in FollowOps /\ terms.base = cmd[p].terms.base
      <4>1. PICK p \in Party : cmd[p].action \in FollowOps /\ terms.base = cmd[p].terms.base
        BY <3>4
      <4>2. Targets(cmd[p].terms) \subseteq {Anchor}
        BY <4>1 DEF Scopes, FollowOps
      <4>3. Targets(terms) \subseteq {Anchor}
        BY <4>1, <4>2, ScopeByBase
      <4>4. kind \notin Main
        BY <3>4 DEF Main, FollowUp
      <4> QED BY <4>3, <4>4 DEF Scope
    <3> QED BY <3>1, <3>2, <3>3, <3>4 DEF Begins
  <2> QED BY <2>1, <2>2
<1>3. ASSUME NEW a \in AttemptId, NEW b \in AttemptId, IsMain(a)', IsMain(b)'
      PROVE  attempt'[a].terms.base = attempt'[b].terms.base
  <2>n. ASSUME NEW c \in AttemptId, c \notin Used, IsMain(c)', NEW d \in AttemptId, d \in Used, IsMain(d)'
        PROVE  attempt'[c].terms.base = attempt'[d].terms.base
    <3>1. Begins(attempt'[c].kind, attempt'[c].terms) /\ attempt'[c].kind \in Main
      BY <2>n, NewUsed DEF IsMain
    <3>2. Used # {} /\ attempt'[c].kind \notin FollowUp
      BY <2>n, <3>1 DEF Main, FollowUp
    <3>3. PICK old \in Used : IsMain(old) /\ attempt'[c].terms.base = attempt[old].terms.base
      BY <3>1, <3>2 DEF Begins
    <3>4. old \in AttemptId /\ IsMain(d)
      BY <1>1, <2>n DEF Used
    <3>5. attempt[old].terms.base = attempt[d].terms.base
      BY <3>3, <3>4, <2>n DEF Scopes
    <3> QED BY <2>n, <3>3, <3>5, BaseKept
  <2>1. CASE a \in Used /\ b \in Used
    BY <1>1, <1>3, <2>1, BaseKept DEF Scopes
  <2>2. CASE a \notin Used /\ b \notin Used
    <3>1. a \in Used' /\ b \in Used'
      BY <1>3 DEF IsMain
    <3>2. a = b
      BY <2>2, <3>1, OneNew
    <3> QED BY <3>2
  <2> QED BY <1>3, <2>n, <2>1, <2>2
<1>4. ASSUME NEW p \in Party
      PROVE  /\ cmd'[p].action \in FollowOps => Targets(cmd'[p].terms) \subseteq {Anchor}
             /\ cmd'[p].action = "edit_terms" => cmd'[p].terms.base = attempt'[cmd'[p].attempt].terms.base
  <2>1. CASE cmd'[p] = cmd[p]
    <3>1. cmd[p].action = "edit_terms" => cmd[p].attempt \in Used
      BY SentTyped
    <3> QED BY <2>1, <3>1, BaseKept DEF Scopes, FollowOps
  <2>2. ASSUME NEW op \in Operations, UNCHANGED <<attempt, task>>,
               cmd'[p].action = op, cmd'[p].attempt = Newest, Newest \in Used,
               cmd'[p].terms \in Proposals(op, attempt[Newest].terms)
        PROVE  /\ cmd'[p].action \in FollowOps => Targets(cmd'[p].terms) \subseteq {Anchor}
               /\ cmd'[p].action = "edit_terms" => cmd'[p].terms.base = attempt'[cmd'[p].attempt].terms.base
    <3>1. IF op \in FollowOps THEN cmd'[p].terms.base = Snap({Anchor})
          ELSE cmd'[p].terms.base = attempt[Newest].terms.base
      BY <2>2, ProposalBase
    <3>2. op \in FollowOps => Targets(cmd'[p].terms) = {Anchor}
      BY <1>0, <3>1, SnapTargets
    <3> QED BY <2>2, <3>1, <3>2 DEF FollowOps
  <2> QED BY <2>1, <2>2, CommandMoves
<1> QED BY <1>2, <1>3, <1>4 DEF Scopes, FollowOps

\* The scopes hold throughout.
LEMMA ScopesHold == Spec => [](Typing /\ Chain /\ StatusReflectsAttempts /\ Linking /\ Scopes)
<1>1. Init => Scopes
  BY DEF Init, Scopes, Used, IsMain, NoAttempt, NoCommand
<1>2. Typing /\ Scopes /\ [Next]_vars => Scopes'
  BY ScopesKept
<1> QED BY <1>1, <1>2, LinkingHolds, PTL DEF Spec

\* So the request of an assignment change names a task it hands over.
LEMMA ScopesMean == ASSUME Scopes PROVE AnchorMeant
BY KindAssumption DEF Scopes, AnchorMeant, Scope, IsMain

\* An accepted request is completed exactly while its linked task is, through
\* every completion, reopening, follow-up and repeated operation; of a
\* checklist this is not true (CheckItem leaves the request as it is).
THEOREM FollowsTask == Spec => [](Anchor \notin Checklist => RequestFollowsTask)
<1>1. Init => (Plain => RequestFollowsTask)
  BY DEF Init, RequestFollowsTask, TaskDone
<1>2. Typing /\ Chain /\ StatusReflectsAttempts /\ Linking /\ Scopes /\ (Plain => RequestFollowsTask) /\ [Next]_vars
        => (Plain => RequestFollowsTask)'
  BY FollowsKept, ScopesMean DEF Plain
<1>3. (Plain => RequestFollowsTask) => (Anchor \notin Checklist => RequestFollowsTask)
  BY DEF Plain
<1> QED BY <1>1, <1>2, <1>3, ScopesHold, PTL DEF Spec

-----------------------------------------------------------------------------
(* All the tasks of an assignment change, or none.                          *)

\* Every step keeps the tasks together.
LEMMA AllKept ==
  ASSUME Typing, Chain, Linking, Scopes, AllOrNothing, [Next]_vars
  PROVE  AllOrNothing'
<1> SUFFICES ASSUME Kind = "assignment_change", NEW a \in AttemptId, IsMain(a)',
                    NEW t \in Task, t \in Targets(attempt'[a].terms)
             PROVE  \/ request'.linked /\ task'[t].assignee = "recipient"
                    \/ ~request'.linked /\ (t \in Manual \/ task'[t].assignee = "requester")
  <2>1. \A a \in Used' : a \in AttemptId
    BY DEF Used
  <2>2. \A terms : Targets(terms) \subseteq Task
    BY DEF Targets
  <2> QED BY <2>1, <2>2 DEF AllOrNothing, IsMain, Targets
<1> USE OpenOnesIn
<1>0. Anchor \in Task /\ Kind # "light" /\ RequestOK /\ TasksOK
  BY TaskAssumption DEF Typing
<1>k. ASSUME NEW b \in AttemptId, IsMain(b), attempt'[a].terms.base = attempt[b].terms.base
      PROVE  /\ t \in Targets(attempt[b].terms)
             /\ \/ request.linked /\ task[t].assignee = "recipient"
                \/ ~request.linked /\ (t \in Manual \/ task[t].assignee = "requester")
  <2>1. t \in Targets(attempt[b].terms)
    BY <1>k DEF Targets
  <2> QED BY <1>k, <2>1 DEF AllOrNothing, IsMain
<1>1. CASE a \in Used
  <2>1. IsMain(a) /\ attempt'[a].terms.base = attempt[a].terms.base
    BY <1>1, BaseKept DEF IsMain
  <2>2. /\ t \in Targets(attempt[a].terms)
        /\ \/ request.linked /\ task[t].assignee = "recipient"
           \/ ~request.linked /\ (t \in Manual \/ task[t].assignee = "requester")
    BY <1>k, <2>1
  <2>s. ASSUME request'.linked = request.linked, task'[t].assignee = task[t].assignee
        PROVE  \/ request'.linked /\ task'[t].assignee = "recipient"
               \/ ~request'.linked /\ (t \in Manual \/ task'[t].assignee = "requester")
    BY <2>2, <2>s
  <2>3. CASE Pauses
    BY <2>3, <2>s DEF Pauses
  <2>4. CASE Rests
    BY <1>0, <2>4, <2>s, ProjectedTyped DEF Rests, Becomes
  <2>5. CASE \E due \in ReplyDue : Create(due)
    BY <1>1, <2>5, CreateFirst
  <2>6. CASE \E p \in Party : Repropose(p)
    BY <2>6, <2>s, ReproposeNew
  <2>7. ASSUME NEW b \in OpenOnes, NEW patch \in BOOLEAN, Concludes(b, patch)
        PROVE  \/ request'.linked /\ task'[t].assignee = "recipient"
               \/ ~request'.linked /\ (t \in Manual \/ task'[t].assignee = "requester")
    <3>1. CASE HandOver(b, patch)
      <4>1. request'.linked = TRUE /\ attempt[b].kind \in Main
        BY <2>7, <3>1, ConclusionLinks
      <4>2. IsMain(b) /\ b \in AttemptId /\ b \in Used
        BY <4>1 DEF IsMain
      <4>3. attempt[a].terms.base = attempt[b].terms.base
        BY <2>1, <4>2 DEF Scopes
      <4>4. Target(b, t)
        BY <1>k, <2>1, <4>2, <4>3 DEF Target
      <4>5. task'[t].assignee = "recipient"
        BY <3>1, <4>2, <4>4, HandedRows
      <4> QED BY <4>1, <4>5
    <3>2. CASE ApplyFollowUp(b)
      <4>1. /\ request' = Projected(Moved(b, "accepted"), task')
            /\ task'[t].assignee = task[t].assignee
        BY <3>2, FollowUpRows
      <4> QED BY <1>0, <2>s, <4>1, ProjectedTyped
    <3> QED BY <1>0, <2>7, <3>1, <3>2 DEF Concludes, MakeTask
  <2>8. CASE \E p \in Party : Replay(p)
    BY <2>8, <2>s, ReplayRows
  <2>9. CASE Labours
    <3>1. request'.linked = request.linked /\ task'[t].assignee = task[t].assignee
      BY <2>9, LabourRows DEF Labours
    <3> QED BY <2>s, <3>1
  <2>10. CASE EditsTask
    <3>1. PICK u \in Task, due \in WorkDue \cup {None}, who \in Party : EditTask(u, due, who)
      BY <2>10 DEF EditsTask
    <3>2. /\ request' = request /\ u \in Manual /\ task'[u].assignee = who
          /\ (who # task[u].assignee => ~HandedOver(u))
          /\ (t # u => task'[t] = task[t])
      BY <3>1, EditRows
    <3>3. CASE u # t \/ who = task[u].assignee
      BY <2>s, <3>2, <3>3
    <3>4. CASE u = t /\ who # task[u].assignee
      <4>1. ~request.linked
        <5> SUFFICES ASSUME NEW b \in Used, Agreement(b) PROVE FALSE
          BY DEF Linking
        <5>1. IsMain(b) /\ b \in AttemptId
          BY DEF IsMain, Agreement, Used
        <5>2. attempt[a].terms.base = attempt[b].terms.base
          BY <2>1, <5>1 DEF Scopes
        <5>3. Target(b, t)
          BY <1>k, <2>1, <5>1, <5>2 DEF Target
        <5> QED BY <3>2, <3>4, <5>3 DEF HandedOver
      <4> QED BY <3>2, <3>4, <4>1
    <3> QED BY <3>3, <3>4
  <2>11. TaskStep
    BY TaskSteps
  <2> QED BY <2>3, <2>4, <2>5, <2>6, <2>7, <2>8, <2>9, <2>10, <2>11, RestsWhen DEF TaskStep, Settles
<1>2. CASE a \notin Used
  <2>1. /\ Begins(attempt'[a].kind, attempt'[a].terms) /\ task' = task
        /\ attempt'[a].kind \in Main /\ attempt'[a].kind \notin FollowUp
    BY <1>2, NewUsed, MainApart DEF IsMain
  <2>2. CASE /\ attempt'[a].terms.base = Snap({u \in Task : task[u].status = "open" /\ task[u].assignee = "requester"})
             /\ request'.linked = FALSE
    <3>1. Targets(attempt'[a].terms) = {u \in Task : task[u].status = "open" /\ task[u].assignee = "requester"}
      BY <2>2, SnapTargets
    <3> QED BY <2>1, <2>2, <3>1
  <2>3. CASE attempt'[a].kind = "reproposal"
    <3>1. /\ request'.linked = request.linked
          /\ \E old \in Used : IsMain(old) /\ attempt'[a].terms.base = attempt[old].terms.base
      BY <2>1, <2>3 DEF Begins
    <3>2. PICK old \in Used : IsMain(old) /\ attempt'[a].terms.base = attempt[old].terms.base
      BY <3>1
    <3>3. old \in AttemptId
      BY DEF Used
    <3> QED BY <1>k, <2>1, <3>1, <3>2, <3>3
  <2> QED BY <1>0, <2>1, <2>2, <2>3 DEF Begins
<1> QED BY <1>1, <1>2

\* An assignment change moves every task it is about or none, whatever is
\* edited by hand before or after and however often it was proposed.
THEOREM AllTasksOrNone == Spec => []AllOrNothing
<1>1. Init => AllOrNothing
  BY DEF Init, AllOrNothing, Used, NoAttempt
<1>2. Typing /\ Chain /\ StatusReflectsAttempts /\ Linking /\ Scopes /\ AllOrNothing /\ [Next]_vars => AllOrNothing'
  BY AllKept
<1> QED BY <1>1, <1>2, ScopesHold, PTL DEF Spec

-----------------------------------------------------------------------------
(* A task only grows older: what happens to it raises its revision.         *)

\* The task is older after the step, or as it was.
Aged(t) == /\ task[t].revision \in Nat /\ task'[t].revision \in Nat
           /\ task[t].revision <= task'[t].revision
           /\ task[t].revision = task'[t].revision /\ t \notin Manual => task'[t].due = task[t].due

\* Every step makes a task older or leaves it, an edit by hand apart.
LEMMA TasksAge ==
  ASSUME Typing, Chain, Linking, [Next]_vars, NEW t \in Task
  PROVE  Aged(t)
<1>0. Anchor \in Task /\ task[t].revision \in Nat \ {0} /\ Typing'
  BY TaskAssumption, StepTyped DEF Typing, TasksOK
<1>n. task'[t].revision \in Nat
  BY <1>0 DEF Typing, TasksOK
<1>e. ASSUME task'[t] = task[t] PROVE Aged(t)
  BY <1>0, <1>e DEF Aged
<1>g. ASSUME \E n \in Nat \ {0} : task'[t].revision = task[t].revision + n PROVE Aged(t)
  BY <1>0, <1>g DEF Aged
<1>1. CASE task' = task
  BY <1>1, <1>e
<1>2. ASSUME NEW a \in OpenOnes, NEW patch \in BOOLEAN, Concludes(a, patch) PROVE Aged(t)
  <2>0. a \in Used /\ Bump(a, patch) \in {0, 1}
    BY OpenOnesIn DEF Bump
  <2>1. CASE MakeTask(a, patch)
    <3>1. /\ Kind = "light" /\ t = Anchor
          /\ task'[t].revision = 1 + Bump(a, patch) /\ task'[t].due = PatchedDue(a, t, patch)
      BY <2>0, <2>1, MadeRows
    <3>2. task[t].revision = 1
      BY <1>2, <2>1, <3>1, ConclusionLinks DEF Linking
    <3>3. Bump(a, patch) = 0 => task'[t].due = task[t].due
      BY <3>1 DEF Bump, PatchedDue
    <3> QED BY <1>n, <2>0, <3>1, <3>2, <3>3 DEF Aged
  <2>2. CASE HandOver(a, patch)
    <3>1. IF Target(a, t) THEN task'[t].revision = task[t].revision + 1 + Bump(a, patch) ELSE task'[t] = task[t]
      BY <2>0, <2>2, HandedRows
    <3>2. CASE Target(a, t)
      <4>1. 1 + Bump(a, patch) \in Nat \ {0} /\ task'[t].revision = task[t].revision + (1 + Bump(a, patch))
        BY <1>0, <2>0, <3>1, <3>2
      <4> QED BY <1>g, <4>1
    <3> QED BY <1>e, <3>1, <3>2
  <2>3. CASE ApplyFollowUp(a)
    <3>1. task'[t] = task[t] \/ task'[t].revision = task[t].revision + 1
      BY <2>0, <2>3, FollowUpRows
    <3> QED BY <1>e, <1>g, <3>1
  <2> QED BY <1>2, <2>1, <2>2, <2>3 DEF Concludes
<1>3. ASSUME NEW p \in Party, Replay(p) PROVE Aged(t)
  <2>1. task'[t] = task[t] \/ task'[t].revision = task[t].revision + 1
    BY <1>3, ReplayRows
  <2> QED BY <1>e, <1>g, <2>1
<1>4. CASE Labours
  <2>1. task'[t] = task[t] \/ task'[t].revision = task[t].revision + 1
    BY <1>4, LabourRows DEF Labours
  <2> QED BY <1>e, <1>g, <2>1
<1>5. CASE EditsTask
  <2>1. task'[t] = task[t] \/ (t \in Manual /\ task'[t].revision = task[t].revision)
    BY <1>5, EditRows DEF EditsTask
  <2> QED BY <1>0, <1>e, <2>1 DEF Aged
<1>6. CASE Pauses \/ Rests
  BY <1>1, <1>6 DEF Pauses, Rests, Becomes
<1>7. CASE (\E due \in ReplyDue : Create(due)) \/ (\E p \in Party : Repropose(p))
  BY <1>1, <1>7, CreateFirst, ReproposeNew
<1> QED BY <1>2, <1>3, <1>4, <1>5, <1>6, <1>7, TaskSteps, RestsWhen DEF TaskStep, Settles

\* What is known of the tasks is in what terms have of them.
LEMMA KnownSame ==
  ASSUME NEW terms, NEW other, terms.base = other.base, KnownTargets(other)
  PROVE  KnownTargets(terms)
BY DEF KnownTargets, Targets

\* Terms are known of the tasks after the step.
KnowsNext(terms) == \A t \in Targets(terms) :
                      /\ terms.base[t].revision <= task'[t].revision
                      /\ terms.base[t].revision = task'[t].revision /\ t \notin Manual
                           => terms.base[t].due = task'[t].due

\* A task that was as terms have it, or older, is so after a step.
LEMMA KnownGoesOn ==
  ASSUME Typing, Chain, Linking, [Next]_vars, NEW terms \in Terms, KnownTargets(terms)
  PROVE  KnowsNext(terms)
<1> SUFFICES ASSUME NEW t \in Targets(terms)
             PROVE  /\ terms.base[t].revision <= task'[t].revision
                    /\ terms.base[t].revision = task'[t].revision /\ t \notin Manual
                         => terms.base[t].due = task'[t].due
  BY DEF KnowsNext
<1>1. t \in Task /\ terms.base[t] \in Snapshot \cup {NotATarget}
  BY DEF Targets, Terms
<1>2. terms.base[t].revision \in Nat
  BY <1>1 DEF Snapshot, NotATarget
<1>3. Known(terms.base, t) /\ Aged(t)
  BY <1>1, TasksAge DEF KnownTargets
<1>4. /\ terms.base[t].revision <= task'[t].revision
      /\ terms.base[t].revision = task'[t].revision => task[t].revision = task'[t].revision
                                                       /\ terms.base[t].revision = task[t].revision
  BY <1>2, <1>3 DEF Known, Aged
<1> QED BY <1>3, <1>4 DEF Known, Aged

\* Terms written now have the tasks as they are.
LEMMA SnapKnown ==
  ASSUME Typing, NEW S \in SUBSET Task, NEW terms, terms.base = Snap(S)
  PROVE  KnownTargets(terms)
<1>1. Targets(terms) = S
      /\ \A t \in S : terms.base[t].revision = task[t].revision /\ terms.base[t].due = task[t].due
  BY SnapTargets
<1>2. \A t \in S : task[t].revision \in Nat
  BY DEF Typing, TasksOK
<1> QED BY <1>1, <1>2 DEF KnownTargets, Known

\* Every step keeps the terms behind the tasks or with them.
LEMMA SnapshotsKept ==
  ASSUME Typing, Chain, Linking, Scopes, Snapshots, [Next]_vars
  PROVE  Snapshots'
<1>0. {Anchor} \in SUBSET Task
  BY TaskAssumption
<1>1. ASSUME NEW a \in Used' PROVE KnowsNext(attempt'[a].terms)
  <2>0. attempt'[a].terms \in Terms
    BY StepTyped DEF Typing, AttemptsOK
  <2>1. CASE a \in Used
    <3>1. attempt'[a].terms.base = attempt[a].terms.base /\ KnownTargets(attempt[a].terms)
      BY <2>1, BaseKept DEF Snapshots
    <3>2. KnownTargets(attempt'[a].terms)
      BY <3>1, KnownSame
    <3> QED BY <2>0, <3>2, KnownGoesOn
  <2>2. CASE a \notin Used
    <3>1. Begins(attempt'[a].kind, attempt'[a].terms)
      BY <2>2, NewUsed
    <3> DEFINE terms == attempt'[a].terms
               targets == IF Kind = "light" THEN {}
                          ELSE {t \in Task : task[t].status = "open" /\ task[t].assignee = "requester"}
    <3>2. CASE terms.base = Snap(targets)
      <4>1. targets \in SUBSET Task
        OBVIOUS
      <4>2. KnownTargets(terms)
        BY <3>2, <4>1, SnapKnown
      <4> QED BY <2>0, <4>2, KnownGoesOn
    <3>3. CASE \E old \in Used : IsMain(old) /\ terms.base = attempt[old].terms.base
      <4>1. KnownTargets(terms)
        BY <3>3, KnownSame DEF Snapshots
      <4> QED BY <2>0, <4>1, KnownGoesOn
    <3>4. CASE \E p \in Party : cmd[p].action \in FollowOps /\ terms.base = cmd[p].terms.base
      <4>1. KnownTargets(terms)
        BY <3>4, KnownSame DEF Snapshots, FollowOps
      <4> QED BY <2>0, <4>1, KnownGoesOn
    <3> QED BY <3>1, <3>2, <3>3, <3>4 DEF Begins
  <2> QED BY <2>1, <2>2
<1>2. ASSUME NEW p \in Party, cmd'[p].action # "none" PROVE KnowsNext(cmd'[p].terms)
  <2>0. cmd'[p].terms \in Terms
    BY <1>2, StepTyped DEF Typing, CommandsOK
  <2>1. CASE cmd'[p] = cmd[p]
    BY <1>2, <2>0, <2>1, KnownGoesOn DEF Snapshots
  <2>2. ASSUME NEW op \in Operations, UNCHANGED <<attempt, task>>, Newest \in Used,
               cmd'[p].terms \in Proposals(op, attempt[Newest].terms)
        PROVE  KnowsNext(cmd'[p].terms)
    <3>1. IF op \in FollowOps THEN cmd'[p].terms.base = Snap({Anchor})
          ELSE cmd'[p].terms.base = attempt[Newest].terms.base
      BY <2>2, ProposalBase
    <3>2. KnownTargets(cmd'[p].terms)
      BY <1>0, <2>2, <3>1, SnapKnown, KnownSame DEF Snapshots
    <3> QED BY <2>0, <3>2, KnownGoesOn
  <2> QED BY <2>1, <2>2, CommandMoves
<1> QED BY <1>1, <1>2 DEF Snapshots, KnownTargets, KnowsNext, Known, Targets

\* The snapshots hold throughout.
LEMMA SnapshotsHold == Spec => [](Typing /\ Chain /\ StatusReflectsAttempts /\ Linking /\ Scopes /\ Snapshots)
<1>1. Init => Snapshots
  BY DEF Init, Snapshots, Used, NoAttempt, NoCommand
<1>2. Typing /\ Chain /\ StatusReflectsAttempts /\ Linking /\ Scopes /\ Snapshots /\ [Next]_vars => Snapshots'
  BY SnapshotsKept
<1> QED BY <1>1, <1>2, ScopesHold, PTL DEF Spec

\* The terms of an acceptance are terms of the tasks as they are.
LEMMA AgreedNow ==
  ASSUME Typing, Chain, Linking, Scopes, Snapshots, [Next]_vars, NEW a \in AttemptId,
         attempt[a].state \in Open, attempt'[a].state = "accepted", NEW t \in Targets(attempt[a].terms)
  PROVE  /\ task[t].status = "open" /\ task[t].revision = attempt[a].terms.base[t].revision
         /\ t \notin Manual => task[t].due = attempt[a].terms.base[t].due
<1>0. a \in Used /\ t \in Task /\ attempt[a].state # "accepted"
  BY MainApart DEF Used, Targets, Open
<1>1. Known(attempt[a].terms.base, t) /\ Scope(attempt[a].kind, attempt[a].terms)
  BY <1>0 DEF Snapshots, KnownTargets, Scopes
<1>2. PICK b \in OpenOnes, patch \in BOOLEAN : Concludes(b, patch)
  <2>1. ~NoneAccepted
    BY <1>0 DEF NoneAccepted
  <2>2. attempt' # attempt
    BY <1>0
  <2>3. ~(Labours \/ EditsTask \/ Pauses \/ \E p \in Party : Replay(p))
    BY <2>2, LabourRows, EditRows DEF Labours, EditsTask, Pauses, Replay
  <2>4. ~Rests /\ ~(\E due \in ReplyDue : Create(due)) /\ ~(\E p \in Party : Repropose(p))
    BY <2>1, CreateFirst, ReproposeNew DEF Rests
  <2> QED BY <2>3, <2>4, TaskSteps, RestsWhen DEF TaskStep, Settles
<1>3. b = a
  <2>1. attempt' = Moved(b, "accepted") /\ b \in AttemptId
    BY <1>2, OpenOnesIn DEF Concludes
  <2> QED BY <1>0, <2>1, MovedRows
<1>4. CASE MakeTask(a, patch)
  BY <1>1, <1>4 DEF MakeTask, Scope
<1>5. CASE HandOver(a, patch)
  <2>1. task[t].status = "open" /\ task[t].revision = attempt[a].terms.base[t].revision
    BY <1>0, <1>5, HandedRows DEF Target
  <2> QED BY <1>1, <2>1 DEF Known
<1>6. CASE ApplyFollowUp(a)
  <2>1. attempt[a].kind \in FollowUp /\ task[Anchor].status = "open"
        /\ task[Anchor].revision = attempt[a].terms.base[Anchor].revision
    BY <1>0, <1>6, FollowUpRows
  <2>2. t = Anchor
    BY <1>1, <2>1 DEF Scope
  <2> QED BY <1>1, <2>1, <2>2 DEF Known
<1> QED BY <1>2, <1>3, <1>4, <1>5, <1>6 DEF Concludes

\* No step accepts terms about a task that has moved since they were written,
\* though they travelled, waited and were proposed again: the hand-over, the
\* follow-up and the new task all meet what both parties knew.
THEOREM NothingMovedBeneath == Spec => AgreedOnWhatIsThere
<1>1. Typing /\ Chain /\ StatusReflectsAttempts /\ Linking /\ Scopes /\ Snapshots /\ [Next]_vars =>
        [\A a \in AttemptId : attempt[a].state \in Open /\ attempt'[a].state = "accepted" =>
           \A t \in Targets(attempt[a].terms) :
             /\ task[t].status = "open" /\ task[t].revision = attempt[a].terms.base[t].revision
             /\ t \notin Manual => task[t].due = attempt[a].terms.base[t].due]_vars
  BY AgreedNow
<1> QED BY <1>1, SnapshotsHold, PTL DEF Spec, AgreedOnWhatIsThere
=============================================================================
