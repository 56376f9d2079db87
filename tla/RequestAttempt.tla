--------------------------- MODULE RequestAttempt ---------------------------
(***************************************************************************)
(* One request (お願い) between its two parties: public.requests, its        *)
(* public.request_attempts with their confirmations, and the tasks it is   *)
(* about.  Kind is requests.request_kind: a "light" request makes a task   *)
(* when it is accepted, an "assignment_change" hands existing tasks over.  *)
(*                                                                         *)
(* Every server function is one transaction, so one action.  What makes    *)
(* the system hard is in front of it: a party acts on what its screen or   *)
(* its LINE card showed (Compose reads the state), the operation reaches   *)
(* the server any time later, after anything else has happened, and may    *)
(* reach it again (Replay).  An operation the code rejects raises and      *)
(* rolls back: here it is not enabled.  Times are absolute; None is a      *)
(* missing date and Never a missing reply deadline.                        *)
(***************************************************************************)
EXTENDS Integers, FiniteSets

CONSTANTS
  Kind,         \* requests.request_kind
  Task, Anchor, \* the tasks in scope and the one that becomes the linked task
  Checklist,    \* tasks with completion_mode 'subtasks'
  Manual,       \* tasks of origin 'manual', which edit-task may change
  Conversations, \* what the clients of the parties may send, one of these throughout
  WorkDue,      \* work deadlines a party may propose
  ReplyDue,     \* reply deadlines a request may get
  MaxAttempts,  \* bound: attempts of the request
  MaxRevision,  \* bound: operations on one attempt
  MaxTaskRevision, \* bound: changes of one task
  Horizon       \* bound: the last moment

Party == {"requester", "recipient"}
None  == 0
Never == Horizon + 1

Main     == {"initial", "reproposal"}
FollowUp == {"change", "cancel"}
Open     == {"pending", "checking", "consulting", "awaiting_confirmation"}
Closed   == {"accepted", "declined", "expired", "cancelled"}

Transitions == {"checking", "consult", "edit_terms", "confirm_terms", "accept", "decline", "cancel"}
Operations  == Transitions \cup {"repropose", "followup_change", "followup_cancel", "followup_decline"}
OldCard     == "old_card"   \* a LINE card that carries only the request id

ASSUME KindAssumption == Kind \in {"light", "assignment_change"}
\* The task of a light request is the request's own: whole and not editable.
ASSUME TaskAssumption ==
  /\ IsFiniteSet(Task) /\ Anchor \in Task /\ Checklist \subseteq Task /\ Manual \subseteq Task
  /\ Kind = "light" => Task = {Anchor} /\ Checklist = {} /\ Manual = {}
ASSUME ConversationsAssumption == Conversations \subseteq [Party -> SUBSET (Operations \cup {OldCard})]
ASSUME BoundAssumption ==
  /\ Horizon \in Nat /\ MaxAttempts \in Nat \ {0} /\ MaxRevision \in Nat /\ MaxTaskRevision \in Nat
  /\ WorkDue \subseteq Nat \ {0} /\ ReplyDue \subseteq 1 .. Horizon

VARIABLES
  now,
  sends,      \* the operations the clients of each party send, and old cards
  request,    \* public.requests: status, linked (to the Anchor), revision
  attempt,    \* public.request_attempts, in the order they were created
  confirmed,  \* public.request_attempt_confirmations
  task,       \* public.task_instances
  patched,    \* attempts with a 'request-material-patch:<attempt>' task event
  cmd,        \* the operation each party last sent: what it saw and asked for
  receipt,    \* its canonical_operation_receipts row: the recorded result
  agreed      \* history: the terms each party had before it when it agreed

vars == <<now, sends, request, attempt, confirmed, task, patched, cmd, receipt, agreed>>

AttemptId == 1 .. MaxAttempts
Snapshot  == [revision : Nat \ {0}, assignee : Party, due : WorkDue \cup {None}]

\* Terms: the work deadline the patch would set and the tasks as they were
\* when the terms were written (assignment_targets, target_task_revision).
NotATarget == [revision |-> 0, assignee |-> "requester", due |-> None]
NoBase     == [t \in Task |-> NotATarget]
Terms      == [due : WorkDue \cup {None}, base : [Task -> Snapshot \cup {NotATarget}]]
NoTerms    == [due |-> -1, base |-> NoBase]
Snap(S)    == [t \in Task |-> IF t \in S THEN [revision |-> task[t].revision, assignee |-> task[t].assignee,
                                                due |-> task[t].due] ELSE NotATarget]
Targets(terms) == {t \in Task : terms.base[t] # NotATarget}

NoAttempt == [kind |-> "initial", state |-> "none", revision |-> 0, terms_revision |-> 0,
              terms |-> NoTerms, reply_due |-> Never, creator |-> "requester"]
NoCommand == [action |-> "none", attempt |-> 1, revision |-> 0, terms_revision |-> 0,
              seen |-> NoTerms, terms |-> NoTerms, reply_due |-> Never]

Used     == {a \in AttemptId : attempt[a].state # "none"}
OpenOnes == {a \in AttemptId : attempt[a].state \in Open}
Agreement(a) == attempt[a].kind \in Main /\ attempt[a].state = "accepted"

\* Mutant: only what is pending is past its deadline.
OverdueIfPending(a) == attempt[a].state = "pending" /\ attempt[a].reply_due <= now

Overdue(a) == attempt[a].state \in Open /\ attempt[a].reply_due <= now
Newest     == Cardinality(Used)          \* attempts are numbered as they are created
Free       == Newest + 1

New(kind, state, terms, due, by) ==
  [attempt EXCEPT ![Free] = [kind |-> kind, state |-> state, revision |-> 1, terms_revision |-> 1,
                             terms |-> terms, reply_due |-> due, creator |-> by]]
Moved(a, state) == [attempt EXCEPT ![a] = [attempt[a] EXCEPT !.state = state, !.revision = @ + 1]]

-----------------------------------------------------------------------------
(* The status of the request is a projection of its attempts, but a         *)
(* completion, once recorded, or a completed linked task, stands before it. *)

Proposed(att) == {a \in AttemptId : att[a].state # "none" /\ att[a].kind \in Main}
LastProposed(att, a) == a \in Proposed(att) /\ \A b \in Proposed(att) : b <= a

\* Mutant: the state of the latest proposal is taken for the status.
StandingUnmapped(att) ==
  IF \E a \in Proposed(att) : att[a].state = "accepted" THEN "accepted"
  ELSE IF \E a \in Proposed(att) : att[a].state \in Open THEN "pending"
  ELSE att[CHOOSE a \in AttemptId : LastProposed(att, a)].state

\* An agreement counts first, then an open proposal, then the last one.
Standing(att) ==
  IF \E a \in Proposed(att) : att[a].state = "accepted" THEN "accepted"
  ELSE IF \E a \in Proposed(att) : att[a].state \in Open THEN "pending"
  ELSE IF \E a \in AttemptId : LastProposed(att, a) /\ att[a].state = "declined" THEN "declined"
  ELSE "cancelled"

TaskDone(tsk) == request.linked /\ tsk[Anchor].status = "completed"

\* REQUEST_TASK_LIFECYCLE_CONFLICT otherwise.
Projectable(tsk) == TaskDone(tsk) => request.status \in {"accepted", "completed"}

\* Mutant: the projection before it learned to keep a completion.
ProjectedWithoutFence(att, tsk) == [request EXCEPT !.status = Standing(att), !.revision = @ + 1]

Projected(att, tsk) ==
  IF request.status = "completed" THEN request
  ELSE [request EXCEPT !.status = IF TaskDone(tsk) THEN "completed" ELSE Standing(att),
                       !.revision = @ + 1]

\* A step that changes attempts and no task, and projects the request.
Becomes(att) == /\ Projectable(task)
                /\ attempt' = att
                /\ request' = Projected(att, task)
                /\ UNCHANGED <<task, patched>>

-----------------------------------------------------------------------------
(* What an acceptance does besides closing the attempt.  patch says whether *)
(* the caller goes on to apply the agreed deadline, as the current adapter  *)
(* does; it raises when that deadline has passed.                           *)

Sets(a, patch) == patch /\ attempt[a].terms.due # None
Patchable(a, patch) == Sets(a, patch) => attempt[a].terms.due > now
Bump(a, patch) == IF Sets(a, patch) THEN 1 ELSE 0
PatchedDue(a, t, patch) == IF Sets(a, patch) THEN attempt[a].terms.due ELSE task[t].due

\* The agreed request gets its link, and a revision for each of the writes.
Linked(a, patch, extra) ==
  [Projected(Moved(a, "accepted"), task) EXCEPT !.linked = TRUE, !.revision = @ + extra + Bump(a, patch)]

MakeTask(a, patch) ==
  /\ Kind = "light" /\ attempt[a].kind \in Main
  /\ task' = [task EXCEPT ![Anchor] = [status |-> "open", revision |-> 1 + Bump(a, patch),
                                       assignee |-> "recipient", due |-> PatchedDue(a, Anchor, patch)]]
  /\ request' = Linked(a, patch, 1)

\* Every target is as the terms have it, or nothing is handed over.
\* Mutant: the observed revision is not compared.
UnchangedAnyRevision(t, base) == task[t].status = "open" /\ task[t].assignee = base[t].assignee

Unchanged(t, base) == /\ task[t].status = "open"
                      /\ task[t].revision = base[t].revision
                      /\ task[t].assignee = base[t].assignee

\* Mutant: only the task the request names is handed over.
TargetNamed(a, t) == t = Anchor

Target(a, t) == t \in Targets(attempt[a].terms)

HandOver(a, patch) ==
  LET base == attempt[a].terms.base
  IN  /\ Kind = "assignment_change" /\ attempt[a].kind \in Main
      /\ \A t \in Targets(attempt[a].terms) : Unchanged(t, base)
      /\ task' = [t \in Task |-> IF ~Target(a, t) THEN task[t]
                                 ELSE [status |-> "open", revision |-> task[t].revision + 1 + Bump(a, patch),
                                       assignee |-> "recipient", due |-> PatchedDue(a, t, patch)]]
      /\ request' = Linked(a, patch, 0)

\* The trigger applies a follow-up before the projection reads the task.
ApplyFollowUp(a) ==
  LET base == attempt[a].terms.base
  IN  /\ attempt[a].kind \in FollowUp /\ request.linked
      /\ task[Anchor].status = "open" /\ task[Anchor].revision = base[Anchor].revision
      /\ task' = [task EXCEPT ![Anchor] = [task[Anchor] EXCEPT !.revision = @ + 1,
                    !.status = IF attempt[a].kind = "cancel" THEN "cancelled" ELSE @,
                    !.due = IF attempt[a].kind = "change" THEN attempt[a].terms.due ELSE @]]
      /\ request' = Projected(Moved(a, "accepted"), task')

Concludes(a, patch) ==
  /\ Projectable(task)
  /\ attempt' = Moved(a, "accepted")
  /\ \/ /\ Patchable(a, patch)
        /\ MakeTask(a, patch) \/ HandOver(a, patch)
        /\ patched' = IF Sets(a, patch) THEN patched \cup {a} ELSE patched
     \/ ApplyFollowUp(a) /\ UNCHANGED patched

-----------------------------------------------------------------------------
(* Creating the request.  A light request starts with terms about no task;  *)
(* an assignment change with the open tasks of the requester.               *)

Create(due) ==
  LET targets == IF Kind = "light" THEN {}
                 ELSE {t \in Task : task[t].status = "open" /\ task[t].assignee = "requester"}
      terms   == [due |-> None, base |-> Snap(targets)]
  IN  /\ request.status = "none" /\ due > now
      /\ Kind = "assignment_change" => Anchor \in targets
      /\ request' = [status |-> "pending", linked |-> FALSE, revision |-> 1]
      /\ attempt' = New("initial", "pending", terms, due, "requester")
      /\ agreed' = [agreed EXCEPT ![Free]["requester"] = terms]
      /\ UNCHANGED <<now, sends, confirmed, task, patched, cmd, receipt>>

-----------------------------------------------------------------------------
(* A party looks at the latest attempt and sends an operation about what it *)
(* sees: the revisions it saw travel with it.  The operation before it, if  *)
(* any, is the party's no more.                                             *)

Proposals(op, seen) ==
  CASE op = "edit_terms"      -> {[seen EXCEPT !.due = d] : d \in WorkDue \cup {None}} \ {seen}
    [] op = "followup_change" -> {[due |-> d, base |-> Snap({Anchor})] : d \in WorkDue \cup {None}}
    [] op = "followup_cancel" -> {[due |-> None, base |-> Snap({Anchor})]}
    [] OTHER                  -> {seen}

Deadlines(op) ==
  CASE op = "repropose" -> ReplyDue
    [] op \in {"followup_change", "followup_cancel"} -> ReplyDue \cup {Never}
    [] OTHER -> {Never}

Compose(p, op) ==
  LET a == Newest
  IN  /\ Used # {} /\ op \in sends[p]
      /\ \E terms \in Proposals(op, attempt[a].terms), due \in Deadlines(op) :
           cmd' = [cmd EXCEPT ![p] =
             [action |-> op, attempt |-> a,
              revision |-> IF op \in {"repropose", "followup_change", "followup_cancel"}
                           THEN request.revision ELSE attempt[a].revision,
              terms_revision |-> attempt[a].terms_revision,
              seen |-> attempt[a].terms, terms |-> terms, reply_due |-> due]]
      /\ receipt' = [receipt EXCEPT ![p] = "none"]
      /\ UNCHANGED <<now, sends, request, attempt, confirmed, task, patched, agreed>>

\* The operation is at the server for the first time; its receipt row and
\* its effects are one transaction.
Arrives(p, op) == cmd[p].action = op /\ receipt[p] = "none"
Records(p, result) == receipt' = [receipt EXCEPT ![p] = result] /\ UNCHANGED <<now, sends, cmd>>

-----------------------------------------------------------------------------
(* fn_command_transition_request_attempt_v1                                 *)

\* The attempt is still as the party saw it, open, and within its deadline.
AsSeen(p) == LET a == cmd[p].attempt
             IN  /\ attempt[a].state \in Open /\ ~Overdue(a)
                 /\ attempt[a].terms_revision = cmd[p].terms_revision
                 /\ attempt[a].revision = cmd[p].revision
                 /\ attempt[a].revision < MaxRevision

Agrees(a, p, terms) == agreed' = [agreed EXCEPT ![a][p] = terms]

Checking(p) ==
  LET a == cmd[p].attempt
  IN  /\ Arrives(p, "checking") /\ AsSeen(p)
      /\ p = "recipient" /\ attempt[a].state = "pending"
      /\ Becomes(Moved(a, "checking")) /\ Records(p, "checking")
      /\ UNCHANGED <<confirmed, agreed>>

Consult(p) ==
  LET a == cmd[p].attempt
  IN  /\ Arrives(p, "consult") /\ AsSeen(p)
      /\ attempt[a].state \in {"pending", "checking"}
      /\ Becomes(Moved(a, "consulting")) /\ Records(p, "consulting")
      /\ UNCHANGED <<confirmed, agreed>>

\* request_attempt_material_patch_guard_v1: a deadline that has passed, or
\* one for several tasks, cannot be proposed before the agreement.
Proposable(kind, terms) ==
  kind \in Main /\ terms.due # None =>
    terms.due > now /\ (Kind = "assignment_change" => Cardinality(Targets(terms)) = 1)

\* Edited terms are talked over again.
Edited(a, terms) == [Moved(a, "consulting") EXCEPT ![a] = [Moved(a, "consulting")[a] EXCEPT !.terms = terms,
                                                                                  !.terms_revision = @ + 1]]
EditTerms(p) ==
  LET a == cmd[p].attempt
  IN  /\ Arrives(p, "edit_terms") /\ AsSeen(p)
      /\ attempt[a].state \in {"consulting", "awaiting_confirmation"}
      /\ Proposable(attempt[a].kind, cmd[p].terms)
      /\ Becomes(Edited(a, cmd[p].terms))
      /\ Records(p, "consulting")
      /\ UNCHANGED <<confirmed, agreed>>

\* Both parties have confirmed the terms revision the attempt has now.
Confirms(a, p) == confirmed \cup {<<a, attempt[a].terms_revision, p>>}
\* Mutant: a confirmation of earlier terms still counts.
AllConfirmedOnce(a, p) == \A q \in Party : \E c \in Confirms(a, p) : c[1] = a /\ c[3] = q

AllConfirm(a, p) == \A q \in Party : <<a, attempt[a].terms_revision, q>> \in Confirms(a, p)

Confirm(a, p, patch) ==
  /\ attempt[a].state \in {"consulting", "awaiting_confirmation"}
  /\ confirmed' = Confirms(a, p)
  /\ \/ AllConfirm(a, p) /\ Concludes(a, patch)
     \/ ~AllConfirm(a, p) /\ Becomes(Moved(a, "awaiting_confirmation"))

ConfirmTerms(p) ==
  LET a == cmd[p].attempt
  IN  /\ Arrives(p, "confirm_terms") /\ AsSeen(p)
      /\ Confirm(a, p, TRUE) /\ Agrees(a, p, cmd[p].seen)
      /\ Records(p, attempt'[a].state)

Accept(p) ==
  LET a == cmd[p].attempt
  IN  /\ Arrives(p, "accept") /\ AsSeen(p)
      /\ p = "recipient" /\ attempt[a].state \in {"pending", "checking"}
      /\ Concludes(a, TRUE) /\ Agrees(a, p, cmd[p].seen)
      /\ Records(p, "accepted") /\ UNCHANGED confirmed

Decline(p) ==
  LET a == cmd[p].attempt
  IN  /\ Arrives(p, "decline") /\ AsSeen(p)
      /\ p = "recipient" /\ attempt[a].state \in {"pending", "checking"}
      /\ Becomes(Moved(a, "declined")) /\ Records(p, "declined")
      /\ UNCHANGED <<confirmed, agreed>>

Cancel(p) ==
  LET a == cmd[p].attempt
  IN  /\ Arrives(p, "cancel") /\ AsSeen(p) /\ p = "requester"
      /\ Becomes(Moved(a, "cancelled")) /\ Records(p, "cancelled")
      /\ UNCHANGED <<confirmed, agreed>>

TooLate(a) == Overdue(a) /\ Becomes(Moved(a, "expired"))

\* A late answer closes the attempt itself, before any revision is compared,
\* and its recorded result says that a new proposal is needed.
AnswerLate(p) ==
  LET a == cmd[p].attempt
  IN  /\ cmd[p].action \in Transitions /\ receipt[p] = "none"
      /\ \/ TooLate(a)
         \/ attempt[a].state = "expired" /\ UNCHANGED <<request, attempt, task, patched>>
      /\ Records(p, "expired") /\ UNCHANGED <<confirmed, agreed>>

\* server_tx_expire_request_attempts_v1, from cron.
ExpireRequestAttempts ==
  /\ \E a \in AttemptId : TooLate(a)
  /\ UNCHANGED <<now, sends, cmd, receipt, confirmed, agreed>>

-----------------------------------------------------------------------------
(* server_tx_repropose_request_v1: the requester brings an expired proposal *)
(* back, with the terms it had.                                             *)

\* Mutants: any proposal that is not open is brought back; the status stays.
ReproposableIfNoneOpen(old) == OpenOnes = {}
ReopenedSilently == [request EXCEPT !.revision = @ + 1]

Reproposable(old) == attempt[old].state = "expired" /\ OpenOnes = {}
Reopened == [request EXCEPT !.status = "pending", !.revision = @ + 1]

Repropose(p) ==
  /\ Arrives(p, "repropose") /\ p = "requester" /\ Cardinality(Used) < MaxAttempts
  /\ cmd[p].reply_due > now /\ request.revision = cmd[p].revision
  /\ \E old \in AttemptId :
       /\ LastProposed(attempt, old) /\ Reproposable(old)
       /\ Proposable("reproposal", attempt[old].terms)
       /\ attempt' = New("reproposal", "pending", attempt[old].terms, cmd[p].reply_due, p)
  /\ request' = Reopened
  /\ Agrees(Free, p, cmd[p].seen)
  /\ Records(p, "pending") /\ UNCHANGED <<confirmed, task, patched>>

-----------------------------------------------------------------------------
(* After the agreement either party may ask to change or to cancel the      *)
(* task; its own confirmation is recorded with the question.                *)

FollowUpKind == [followup_change |-> "change", followup_cancel |-> "cancel"]

StartRequestFollowup(p, op) ==
  /\ Arrives(p, op) /\ Cardinality(Used) < MaxAttempts
  /\ request.revision = cmd[p].revision /\ request.linked
  /\ \E a \in Used : Agreement(a)
  /\ task[Anchor].revision = cmd[p].terms.base[Anchor].revision /\ task[Anchor].status = "open"
  /\ OpenOnes = {}       \* request_attempts_one_active_nonterminal_idx
  /\ Becomes(New(FollowUpKind[op], "awaiting_confirmation", cmd[p].terms, cmd[p].reply_due, p))
  /\ confirmed' = confirmed \cup {<<Free, 1, p>>}
  /\ Agrees(Free, p, cmd[p].terms) /\ Records(p, "awaiting_confirmation")

RefusesFollowup(a, p) ==
  /\ attempt[a].kind \in FollowUp /\ attempt[a].state \in {"consulting", "awaiting_confirmation"}
  /\ attempt[a].creator # p
  /\ Becomes(Moved(a, "declined"))

DeclineRequestFollowup(p) ==
  LET a == cmd[p].attempt
  IN  /\ Arrives(p, "followup_decline") /\ attempt[a].revision = cmd[p].revision
      /\ RefusesFollowup(a, p) /\ Records(p, "declined")
      /\ UNCHANGED <<confirmed, agreed>>

-----------------------------------------------------------------------------
(* server_tx_accept_request and server_tx_decline_request without a frozen  *)
(* snapshot: a tap on an old card of a light request names the request only *)
(* and is applied to whatever attempt is open.  The card showed the terms   *)
(* the request was created with.                                            *)

ById(a) == OldCard \in sends["recipient"] /\ Kind = "light" /\ attempt[a].state \in Open /\ attempt[a].revision < MaxRevision
CardTerms == [due |-> None, base |-> NoBase]

AcceptRequest(a) ==
  /\ ById(a)
  /\ \/ TooLate(a) /\ UNCHANGED <<confirmed, agreed>>
     \/ /\ ~Overdue(a) /\ Agrees(a, "recipient", CardTerms)
        /\ \/ /\ attempt[a].state \in {"pending", "checking"} /\ Concludes(a, FALSE) /\ UNCHANGED confirmed
           \/ Confirm(a, "recipient", FALSE)
  /\ UNCHANGED <<now, sends, cmd, receipt>>

DeclineRequest(a) ==
  /\ ById(a)
  /\ \/ RefusesFollowup(a, "recipient")
     \/ attempt[a].kind \in Main /\ TooLate(a)
     \/ /\ attempt[a].kind \in Main /\ attempt[a].state \in {"pending", "checking"} /\ ~Overdue(a)
        /\ Becomes(Moved(a, "declined"))
  /\ UNCHANGED <<now, sends, cmd, receipt, confirmed, agreed>>

-----------------------------------------------------------------------------
(* The operation comes in again with the same id: the receipt answers.      *)
(* server_tx_transition_request_v2 then still runs the deadline patch: it   *)
(* checks the deadline against the clock first, and only then whether the   *)
(* patch has been applied.                                                  *)

PatchAgain(a) == a \notin patched
Replay(p) ==
  LET a == cmd[p].attempt
      again == receipt[p] = "accepted" /\ attempt[a].kind \in Main /\ attempt[a].state = "accepted"
               /\ attempt[a].terms.due # None
  IN  /\ receipt[p] # "none"
      /\ again => attempt[a].terms.due > now
      /\ IF again /\ PatchAgain(a)
         THEN /\ task[Anchor].status = "open"
              /\ task' = [task EXCEPT ![Anchor] = [task[Anchor] EXCEPT !.due = attempt[a].terms.due, !.revision = @ + 1]]
              /\ request' = [request EXCEPT !.revision = @ + 1]
              /\ patched' = patched \cup {a}
         ELSE UNCHANGED <<task, request, patched>>
      /\ UNCHANGED <<now, sends, attempt, confirmed, cmd, receipt, agreed>>

-----------------------------------------------------------------------------
(* The tasks, as far as they meet the request.                              *)

Touch(t, status) == /\ task[t].revision < MaxTaskRevision
                    /\ task' = [task EXCEPT ![t] = [task[t] EXCEPT !.status = status, !.revision = @ + 1]]
                    /\ UNCHANGED <<now, sends, attempt, confirmed, patched, cmd, receipt, agreed>>
OfRequest(t, status) == t = Anchor /\ request.linked /\ request.status = status

CompleteTask(t) ==
  /\ task[t].status = "open" /\ Touch(t, "completed")
  /\ request' = IF OfRequest(t, "accepted")
                THEN [request EXCEPT !.status = "completed", !.revision = @ + 1] ELSE request

ReopenTask(t) ==
  /\ task[t].status = "completed" /\ t \notin Checklist /\ Touch(t, "open")
  /\ request' = IF OfRequest(t, "completed") THEN [request EXCEPT !.status = "accepted"] ELSE request

\* An item of a checklist is checked, not the last one, or unchecked: what was
\* completed is open again.
CheckItem(t) ==
  /\ task[t].status \in {"open", "completed"} /\ t \in Checklist /\ Touch(t, "open")
  /\ UNCHANGED request

\* edit-task leaves the revision as it is; an assignment by agreement keeps
\* its actor whatever the legacy assignee column says.
HandedOver(t) == \E a \in Used : Agreement(a) /\ Target(a, t)

EditTask(t, due, assignee) ==
  /\ t \in Manual /\ task[t].status = "open"
  /\ assignee # task[t].assignee => ~HandedOver(t)
  /\ task' = [task EXCEPT ![t] = [task[t] EXCEPT !.due = due, !.assignee = assignee]]
  /\ UNCHANGED <<now, sends, request, attempt, confirmed, patched, cmd, receipt, agreed>>

Tick == /\ now < Horizon /\ now' = now + 1
        /\ UNCHANGED <<sends, request, attempt, confirmed, task, patched, cmd, receipt, agreed>>

-----------------------------------------------------------------------------
Init ==
  /\ now = 0
  /\ sends \in Conversations
  /\ request = [status |-> "none", linked |-> FALSE, revision |-> 0]
  /\ attempt = [a \in AttemptId |-> NoAttempt]
  /\ confirmed = {} /\ patched = {}
  /\ task = [t \in Task |-> [status |-> IF Kind = "light" THEN "absent" ELSE "open",
                             revision |-> 1, assignee |-> "requester", due |-> None]]
  /\ cmd = [p \in Party |-> NoCommand]
  /\ receipt = [p \in Party |-> "none"]
  /\ agreed = [a \in AttemptId |-> [p \in Party |-> NoTerms]]

Next ==
  \/ \E due \in ReplyDue : Create(due)
  \/ \E p \in Party : \/ \E op \in Operations : Compose(p, op)
                      \/ Checking(p) \/ Consult(p) \/ EditTerms(p) \/ ConfirmTerms(p)
                      \/ Accept(p) \/ Decline(p) \/ Cancel(p) \/ AnswerLate(p)
                      \/ Repropose(p) \/ DeclineRequestFollowup(p)
                      \/ \E op \in {"followup_change", "followup_cancel"} : StartRequestFollowup(p, op)
                      \/ Replay(p)
  \/ \E a \in AttemptId : AcceptRequest(a) \/ DeclineRequest(a)
  \/ ExpireRequestAttempts
  \/ \E t \in Task : \/ CompleteTask(t) \/ ReopenTask(t) \/ CheckItem(t)
                     \/ \E due \in WorkDue \cup {None}, who \in Party : EditTask(t, due, who)
  \/ Tick

Spec == Init /\ [][Next]_vars

-----------------------------------------------------------------------------
(* Fairness: time passes and cron starts the expiry worker.                 *)
FairSpec == Spec /\ WF_vars(Tick) /\ WF_vars(ExpireRequestAttempts)

Attempt == [kind : Main \cup FollowUp, state : Open \cup Closed \cup {"none"},
            revision : Nat, terms_revision : Nat, terms : Terms \cup {NoTerms},
            reply_due : ReplyDue \cup {Never}, creator : Party]
Command == [action : Operations \cup {"none"}, attempt : AttemptId, revision : Nat, terms_revision : Nat,
            seen : Terms \cup {NoTerms}, terms : Terms \cup {NoTerms}, reply_due : ReplyDue \cup {Never}]

\* Types, and: the attempts of the request fill the first numbers, and only
\* terms that were written down are ever taken for agreed.
TypeOK ==
  /\ now \in 0 .. Horizon /\ sends \in Conversations
  /\ request \in [status : {"none", "pending", "accepted", "declined", "cancelled", "completed"},
                  linked : BOOLEAN, revision : Nat]
  /\ attempt \in [AttemptId -> Attempt]
  /\ Used = 1 .. Cardinality(Used)
  /\ \A a \in Used : attempt[a].terms # NoTerms
  /\ confirmed \subseteq AttemptId \X Nat \X Party
  /\ patched \subseteq AttemptId
  /\ task \in [Task -> [status : {"absent", "open", "completed", "cancelled"}, revision : Nat \ {0},
                        assignee : Party, due : WorkDue \cup {None}]]
  /\ cmd \in [Party -> Command]
  /\ receipt \in [Party -> Open \cup Closed \cup {"none"}]
  /\ agreed \in [AttemptId -> [Party -> Terms \cup {NoTerms}]]

\* What an attempt is accepted with is what both parties had in front of them
\* when they agreed: nobody is bound to terms they did not see, however late
\* their operation reached the server and whatever was edited in between.
ConsentOnEveryPath ==
  \A a \in AttemptId : attempt[a].state = "accepted" => \A p \in Party : agreed[a][p] = attempt[a].terms

\* The same, of all operations that name the terms they are about.
ConsentIsToTheTerms == OldCard \notin sends["recipient"] => ConsentOnEveryPath

\* A request is agreed on once: no second proposal is accepted for it.
OneAgreement == Cardinality({a \in AttemptId : Agreement(a)}) <= 1

\* A closed attempt never changes again, neither its state nor its terms.
ClosedStaysClosed ==
  [][\A a \in AttemptId : attempt[a].state \in Closed => attempt'[a] = attempt[a]]_vars

\* The projected status says what the attempts say, on every path that writes
\* it: a transition, the expiry worker, a reproposal, a completion, a reopening.
StatusReflectsAttempts ==
  /\ request.status \in {"pending", "accepted", "declined", "cancelled"} => request.status = Standing(attempt)
  /\ request.status = "completed" => Standing(attempt) = "accepted"

\* The execution status of an accepted request derives from its linked task:
\* it is completed exactly while that task is.
RequestFollowsTask == (request.status = "completed") <=> TaskDone(task)

\* No path makes the projection raise: one request that could not be projected
\* would also abort the expiry of every other request of that cron run.
AlwaysProjectable == Projectable(task)

\* An assignment change happens as a whole or not at all: the tasks it is
\* about are all with the recipient once it is agreed, and stay there whatever
\* is edited; before, none has moved but by a manual edit.
AllOrNothing ==
  Kind = "assignment_change" =>
    \A a \in Used : attempt[a].kind \in Main =>
      \A t \in Targets(attempt[a].terms) :
        \/ request.linked /\ task[t].assignee = "recipient"
        \/ ~request.linked /\ (t \in Manual \/ task[t].assignee = "requester")

\* A task is handed over, or changed by a follow-up, only as the parties knew
\* it: nothing has happened to it since the terms were written, an edit by hand
\* (which raises no revision) apart.
AgreedOnWhatIsThere ==
  [][\A a \in AttemptId : attempt[a].state \in Open /\ attempt'[a].state = "accepted" =>
       \A t \in Targets(attempt[a].terms) :
         /\ task[t].status = "open" /\ task[t].revision = attempt[a].terms.base[t].revision
         /\ t \notin Manual => task[t].due = attempt[a].terms.base[t].due]_vars

\* Every proposal with a reply deadline is closed in the end.
ProposalsClose ==
  \A a \in AttemptId : (attempt[a].state \in Open /\ attempt[a].reply_due # Never)
                         ~> (attempt[a].state \in Closed)
=============================================================================
