------------------------------ MODULE Endpoints ------------------------------
(***************************************************************************)
(* What the edge functions answer to the commands of the web client.       *)
(*                                                                         *)
(* Every function under supabase/functions reads a JSON body, checks its   *)
(* shape and calls one SQL command; the command locks the row, compares    *)
(* the revision the client read when it was given one, checks the state    *)
(* and moves the row to its next revision.  One definition here stands for *)
(* one edge function together with the command it calls.                   *)
(*                                                                         *)
(* An item is [state, rev].  A body is [action, arg, rev, text]: what to   *)
(* do, to or for whom, the revision the client expects, and the free text  *)
(* typed by the user.  A reply is [code, item, made]: "OK" or the error    *)
(* code, the item afterwards, and whether a new row was written.           *)
(***************************************************************************)
EXTENDS Naturals, Sequences, FiniteSets

CONSTANTS User, Partner,      \* the two adults of the household
          Nobody,             \* no claimant, no assignee
          Box                 \* the required check items of a checklist task

Other(who) == IF who = User THEN Partner ELSE User

-----------------------------------------------------------------------------
(* The shape of an answer. *)

Check(holds, code) == [holds |-> holds, code |-> code]

Fresh(item, body) == Check(body.rev = item.rev, "AGGREGATE_REVISION_CONFLICT")

FreshIfGiven(item, body) == IF body.rev = 0 THEN Check(TRUE, "OK") ELSE Fresh(item, body)

\* The command raises the code of the first check that fails and leaves the
\* row alone.
Reply(item, checks, next, made) ==
    LET failing == {i \in DOMAIN checks : ~checks[i].holds}
        first == CHOOSE i \in failing : \A j \in failing : i <= j
    IN  IF failing = {} THEN [code |-> "OK", item |-> next, made |-> made]
                        ELSE [code |-> checks[first].code, item |-> item, made |-> FALSE]

Bump(item, state) == [state |-> state, rev |-> item.rev + 1]

\* The error catalogue: every other code a command raises is an internal error
\* (500) for the caller.
KnownCodes == {"AGGREGATE_REVISION_CONFLICT", "IDEMPOTENCY_CONFLICT", "INVALID_INPUT",
               "TASK_TERMINAL", "TASK_CLAIMED_BY_OTHER", "TASK_NOT_COMPLETED",
               "TASK_REOPEN_USE_SUBTASKS", "TASK_NOT_COULD_NOT_DO",
               "INVALID_SHOPPING_TRANSITION", "SHOPPING_NOT_CLAIMABLE",
               "SHOPPING_ALREADY_CLAIMED", "SHOPPING_CLAIM_NOT_OWNED",
               "SHOPPING_TAKEOVER_NOT_REQUIRED", "SHOPPING_CLAIMED_BY_OTHER",
               "SHOPPING_PERFORMER_NOT_ASSIGNEE", "CODMON_INPUTS_INCOMPLETE",
               "REQUEST_NOT_PENDING", "REQUEST_ATTEMPT_STALE", "REQUEST_CANCEL_NOT_ALLOWED",
               "REQUEST_AGREEMENT_NOT_ESTABLISHED", "REQUEST_TRANSITION_INVALID",
               "INFO_ACK_NOT_ACTIONABLE", "CORRECTION_REASON_REQUIRED", "NOT_HOUSEHOLD_MEMBER",
               "HOUSEHOLD_ALREADY_JOINED", "HOUSEHOLD_FULL", "INVITE_EXPIRED", "INVITE_USED"}

\* What the client can conclude from an answer: a 5xx leaves it in doubt.
Outcome(code) == IF code = "OK" THEN "done"
                 ELSE IF code \in KnownCodes THEN "rejected" ELSE "unknown"

-----------------------------------------------------------------------------
(* Tasks.  "todo" stands for todo and in_progress. *)

TaskState == [status: {"todo", "completed", "could_not_do", "cancelled"},
              mode: {"whole", "subtasks", "codmon"},
              assignment: {"anyone", User, Partner},
              claim: {Nobody, User, Partner},
              waiting: BOOLEAN,
              ticked: SUBSET Box]

Closed(t, status, ticked) ==
    [t EXCEPT !.status = status, !.claim = Nobody, !.waiting = FALSE, !.ticked = ticked]

NotClaimedByOther(t, performer) ==
    Check(t.assignment = "anyone" => t.claim \in {Nobody, performer}, "TASK_CLAIMED_BY_OTHER")

Performer(body, who) == IF body.arg = "partner" THEN Other(who) ELSE who

\* complete-task with no action: no revision is compared.
Complete(item, body, who) ==
    LET t == item.state
    IN  Reply(item,
              << Check(t.status = "todo", "TASK_TERMINAL"),
                 NotClaimedByOther(t, Performer(body, who)) >>,
              Bump(item, Closed(t, "completed", IF t.mode = "subtasks" THEN Box ELSE {})), FALSE)

\* complete-task codmon_submitted: the submitter is always the actor.
SubmitCodmon(item, body, who) ==
    LET t == item.state
    IN  Reply(item,
              << Check(t.mode = "codmon", "INVALID_INPUT"),
                 Check(t.status = "todo", "TASK_TERMINAL"),
                 NotClaimedByOther(t, who) >>,
              Bump(item, Closed(t, "completed", {})), FALSE)

\* Mutant: no revision is compared.
ReopenWhatever(item, body, who) ==
    LET t == item.state
    IN  Reply(item,
              << Check(t.status = "completed", "TASK_NOT_COMPLETED"),
                 Check(t.mode # "subtasks", "TASK_REOPEN_USE_SUBTASKS") >>,
              Bump(item, [t EXCEPT !.status = "todo"]), FALSE)

Reopen(item, body, who) ==
    LET t == item.state
    IN  Reply(item,
              << Fresh(item, body),
                 Check(t.status = "completed", "TASK_NOT_COMPLETED"),
                 Check(t.mode # "subtasks", "TASK_REOPEN_USE_SUBTASKS") >>,
              Bump(item, [t EXCEPT !.status = "todo"]), FALSE)

CouldNotDo(item, body, who) ==
    LET t == item.state
    IN  IF body.action = "could_not_do"
        THEN Reply(item, << Fresh(item, body), Check(t.status = "todo", "TASK_TERMINAL") >>,
                   Bump(item, Closed(t, "could_not_do", t.ticked)), FALSE)
        ELSE Reply(item, << Fresh(item, body),
                            Check(t.status = "could_not_do", "TASK_NOT_COULD_NOT_DO") >>,
                   Bump(item, [t EXCEPT !.status = "todo"]), FALSE)

\* Supabase has one function behind four buttons of the task row.
complete_task(item, body, who) ==
    CASE body.action = "reopen" -> Reopen(item, body, who)
      [] body.action \in {"could_not_do", "could_not_do_undo"} -> CouldNotDo(item, body, who)
      [] body.action = "codmon_submitted" -> SubmitCodmon(item, body, who)
      [] body.action = "complete" -> Complete(item, body, who)

\* Deleting compares no revision and writes none.
cancel_task(item, body, who) ==
    Reply(item, << Check(item.state.status = "todo", "TASK_TERMINAL") >>,
          [item EXCEPT !.state.status = "cancelled"], FALSE)

set_subtask_completion(item, body, who) ==
    LET t == item.state
        on == body.action = "tick"
        performer == IF body.text = "partner" THEN Other(who) ELSE who
        ticked == IF on THEN t.ticked \union {body.arg} ELSE t.ticked \ {body.arg}
    IN  Reply(item,
              << FreshIfGiven(item, body),
                 Check(t.mode = "subtasks", "INVALID_INPUT"),
                 Check(t.status \in {"todo", "completed"}, "TASK_TERMINAL"),
                 IF on /\ body.arg \notin t.ticked THEN NotClaimedByOther(t, performer)
                                                   ELSE Check(TRUE, "OK") >>,
              IF ticked = t.ticked THEN item
              ELSE IF ticked = Box THEN Bump(item, Closed(t, "completed", Box))
              ELSE Bump(item, [t EXCEPT !.status = "todo", !.ticked = ticked]), FALSE)

set_task_waiting(item, body, who) ==
    LET t == item.state
    IN  Reply(item,
              << Fresh(item, body),
                 Check(t.status = "todo", "TASK_WAITING_STATE_CONFLICT"),
                 Check(body.action \in {"resume", "update"} => t.waiting,
                       "TASK_WAITING_STATE_CONFLICT") >>,
              Bump(item, [t EXCEPT !.waiting = body.action # "resume"]), FALSE)

\* claim_action, or the change of a person the two have agreed on.
change_task_assignment(item, body, who) ==
    LET t == item.state
        open == << Fresh(item, body), Check(t.status = "todo", "TASK_NOT_OPEN") >>
        anyone == Check(t.assignment = "anyone", "TASK_NOT_ANYONE")
    IN  CASE body.action = "claim" ->
               Reply(item, open \o << anyone, Check(t.claim = Nobody, "TASK_ALREADY_CLAIMED") >>,
                     Bump(item, [t EXCEPT !.claim = who]), FALSE)
          [] body.action = "release" ->
               Reply(item, open \o << anyone, Check(t.claim = who, "TASK_CLAIM_NOT_OWNED") >>,
                     Bump(item, [t EXCEPT !.claim = Nobody]), FALSE)
          [] body.action = "takeover" ->
               Reply(item, open \o << anyone,
                                      Check(t.claim = Other(who), "TASK_TAKEOVER_NOT_REQUIRED") >>,
                     Bump(item, [t EXCEPT !.claim = who]), FALSE)
          [] body.action = "agreed" ->
               Reply(item, open,
                     Bump(item, [t EXCEPT !.assignment = body.arg, !.claim = Nobody]), FALSE)

\* A request writes a row of its own; the task stays as it is.
create_assignment_change_request(item, body, who) ==
    Reply(item, << Check(body.rev = item.rev /\ item.state.status = "todo",
                         "ASSIGNMENT_PROPOSAL_STALE") >>, item, TRUE)

correct_task_actual(item, body, who) ==
    Reply(item, << Fresh(item, body),
                   Check(item.state.status = "completed", "TASK_PERFORMER_CONFLICT") >>,
          Bump(item, item.state), FALSE)

add_task_completion_evidence(item, body, who) ==
    Reply(item, << Check(item.state.status = "completed", "EVIDENCE_TASK_NOT_COMPLETED") >>,
          item, TRUE)

\* edit-task: a progress note, a comment, or the fields of a manual task.
edit_task(item, body, who) ==
    CASE body.action = "record_progress" ->
           Reply(item, << Fresh(item, body),
                          Check(item.state.status \in {"todo", "completed"}, "TASK_TERMINAL") >>,
                 Bump(item, item.state), TRUE)
      [] body.action = "add_comment" -> Reply(item, <<>>, item, TRUE)
      [] body.action = "save" ->
           Reply(item, << Check(item.state.status # "cancelled", "TASK_TERMINAL"),
                          Fresh(item, body) >>,
                 Bump(item, item.state), FALSE)

create_task(item, body, who) == Reply(item, <<>>, item, TRUE)

-----------------------------------------------------------------------------
(* Shopping.  Every command but the addition compares the revision. *)

ShoppingState == [status: {"wanted", "assigned", "ordered", "purchased", "arrived", "cancelled"},
                  method: {"store", "online", "undecided"},
                  assignment: {"unassigned", "anyone", User, Partner},
                  claim: {Nobody, User, Partner}]

BuyableBy(s, who) ==
    << Check(s.assignment \in {User, Partner} => s.assignment = who,
             "SHOPPING_PERFORMER_NOT_ASSIGNEE"),
       Check(s.assignment = "anyone" => s.claim \in {Nobody, who}, "SHOPPING_CLAIMED_BY_OTHER") >>

Recorded(item, body, who, ok, status) ==
    Reply(item, << Fresh(item, body), Check(ok, "INVALID_SHOPPING_TRANSITION") >>
                \o BuyableBy(item.state, who),
          Bump(item, [item.state EXCEPT !.status = status, !.claim = Nobody]), FALSE)

order_shopping_item(item, body, who) ==
    Recorded(item, body, who, item.state.status \in {"wanted", "assigned"}
                              /\ item.state.method # "store", "ordered")

purchase_shopping_item(item, body, who) ==
    Recorded(item, body, who, item.state.status \in {"wanted", "assigned"}
                              /\ item.state.method # "online", "purchased")

arrive_shopping_item(item, body, who) ==
    Recorded(item, body, who, item.state.status = "ordered", "arrived")

Resting(s) == IF s.assignment \in {User, Partner} THEN "assigned" ELSE "wanted"

reopen_shopping_item(item, body, who) ==
    LET s == item.state
    IN  Reply(item, << Fresh(item, body),
                       Check(s.status \in {"ordered", "purchased", "arrived"},
                             "INVALID_SHOPPING_TRANSITION") >>,
              Bump(item, [s EXCEPT !.status = Resting(s), !.claim = Nobody]), FALSE)

cancel_shopping_item(item, body, who) ==
    LET s == item.state
    IN  Reply(item, << Fresh(item, body),
                       Check(s.status \in {"wanted", "assigned", "ordered"},
                             "INVALID_SHOPPING_TRANSITION") >>,
              Bump(item, [s EXCEPT !.status = "cancelled", !.claim = Nobody]), FALSE)

assign_shopping_item(item, body, who) ==
    LET s == [item.state EXCEPT !.assignment = body.arg]
    IN  Reply(item, << Fresh(item, body),
                       Check(s.status \in {"wanted", "assigned"}, "INVALID_SHOPPING_TRANSITION") >>,
              Bump(item, [s EXCEPT !.status = Resting(s), !.claim = Nobody]), FALSE)

claim_shopping_item(item, body, who) ==
    LET s == item.state
        open == << Fresh(item, body),
                   Check(s.assignment = "anyone" /\ s.status = "wanted", "SHOPPING_NOT_CLAIMABLE") >>
    IN  CASE body.action = "claim" ->
               Reply(item, open \o << Check(s.claim = Nobody, "SHOPPING_ALREADY_CLAIMED") >>,
                     Bump(item, [s EXCEPT !.claim = who]), FALSE)
          [] body.action = "release" ->
               Reply(item, open \o << Check(s.claim = who, "SHOPPING_CLAIM_NOT_OWNED") >>,
                     Bump(item, [s EXCEPT !.claim = Nobody]), FALSE)
          [] body.action = "takeover" ->
               Reply(item, open \o << Check(s.claim = Other(who), "SHOPPING_TAKEOVER_NOT_REQUIRED") >>,
                     Bump(item, [s EXCEPT !.claim = who]), FALSE)

add_shopping_item(item, body, who) == Reply(item, <<>>, item, TRUE)

-----------------------------------------------------------------------------
(* What runs for a request, and what it checks before it looks for the     *)
(* receipt of an operation it has already carried out.                     *)

Serve(endpoint, item, body, who) ==
    CASE endpoint = "complete-task" -> complete_task(item, body, who)
      [] endpoint = "cancel-task" -> cancel_task(item, body, who)
      [] endpoint = "set-subtask-completion" -> set_subtask_completion(item, body, who)
      [] endpoint = "set-task-waiting" -> set_task_waiting(item, body, who)
      [] endpoint = "change-task-assignment" -> change_task_assignment(item, body, who)
      [] endpoint = "create-assignment-change-request" ->
            create_assignment_change_request(item, body, who)
      [] endpoint = "correct-task-actual" -> correct_task_actual(item, body, who)
      [] endpoint = "add-task-completion-evidence" ->
            add_task_completion_evidence(item, body, who)
      [] endpoint = "edit-task" -> edit_task(item, body, who)
      [] endpoint = "create-task" -> create_task(item, body, who)
      [] endpoint = "order-shopping-item" -> order_shopping_item(item, body, who)
      [] endpoint = "purchase-shopping-item" -> purchase_shopping_item(item, body, who)
      [] endpoint = "arrive-shopping-item" -> arrive_shopping_item(item, body, who)
      [] endpoint = "reopen-shopping-item" -> reopen_shopping_item(item, body, who)
      [] endpoint = "cancel-shopping-item" -> cancel_shopping_item(item, body, who)
      [] endpoint = "assign-shopping-item" -> assign_shopping_item(item, body, who)
      [] endpoint = "claim-shopping-item" -> claim_shopping_item(item, body, who)
      [] endpoint = "add-shopping-item" -> add_shopping_item(item, body, who)

ChecksBeforeReceipt == {"add-task-completion-evidence", "create-assignment-change-request"}

=============================================================================
