----------------------------- MODULE TaskScreens -----------------------------
(***************************************************************************)
(* The buttons of the task screens of the web client, as the commands they *)
(* offer for the task the screen shows.                                    *)
(*                                                                         *)
(* One definition stands for one handler and the condition under which its *)
(* button is drawn and enabled.  A command is [key, endpoint, body, via,   *)
(* undo]: the logical key the attempt is kept under, the edge function,    *)
(* its payload, whether the press goes through a kept attempt, and the     *)
(* undo the screen offers when the command succeeds.                       *)
(***************************************************************************)
EXTENDS Endpoints

CONSTANT Text      \* what the user may type into a free text field

None == "none"

Body(action, arg, rev, text) == [action |-> action, arg |-> arg, rev |-> rev, text |-> text]

\* useCommandAttempt(logicalKey, endpoint, buildPayload)
Attempted(key, endpoint, body) ==
    [key |-> key, endpoint |-> endpoint, body |-> body, via |-> "attempt", undo |-> None]

\* callEdgeFunction(endpoint, { operation_id: newOperationId(), ... })
Plain(key, endpoint, body) ==
    [key |-> key, endpoint |-> endpoint, body |-> body, via |-> "fresh", undo |-> None]

When(condition, commands) == IF condition THEN commands ELSE {}

-----------------------------------------------------------------------------
(* What the row derives from the task it shows. *)

finished(t) == t.status \in {"completed", "could_not_do"}

isPartnersTask(t, me) == \/ t.assignment = Other(me)
                         \/ t.assignment = "anyone" /\ t.claim = Other(me)

canExecute(t, me) == t.assignment = "anyone" => t.claim \in {Nobody, me}

-----------------------------------------------------------------------------
(* The row. *)

\* Mutant: a key that names the actor only.
handleCompleteByActor(shown, me) ==
    When(shown.state.status = "todo",
         {Attempted(<<"complete", actor>>, "complete-task", Body("complete", actor, 0, None)) :
             actor \in {"self", "partner"}})

\* A completion names no revision; the key carries the one on the screen.
handleComplete(shown, me) ==
    LET t == shown.state
        complete(actor) ==
            [Attempted(<<"complete", actor, shown.rev>>, "complete-task",
                       Body("complete", actor, 0, None)) EXCEPT !.undo = "reopen"]
    IN  When(t.status = "todo" /\ t.mode = "codmon" /\ canExecute(t, me),
             {Attempted(<<"codmon-submitted", shown.rev>>, "complete-task",
                        Body("codmon_submitted", None, 0, None))})
        \union When(t.status = "todo" /\ t.mode # "codmon" /\ canExecute(t, me), {complete("self")})
        \union When(t.status = "todo" /\ t.mode # "codmon", {complete("partner")})

handleReopen(shown) ==
    When(shown.state.status = "completed" /\ shown.state.mode # "subtasks",
         {Attempted(<<"reopen", shown.rev>>, "complete-task",
                    Body("reopen", None, shown.rev, None))})

handleCouldNotDo(shown) ==
    When(shown.state.status = "todo",
         {[Attempted(<<"could-not-do:set", shown.rev>>, "complete-task",
                     Body("could_not_do", None, shown.rev, None))
               EXCEPT !.undo = "could_not_do_undo"]})
    \union
    When(shown.state.status = "could_not_do",
         {Attempted(<<"could-not-do:undo", shown.rev>>, "complete-task",
                    Body("could_not_do_undo", None, shown.rev, None))})

handleCancel(shown) ==
    When(shown.state.status = "todo",
         {Attempted(<<"cancel", shown.rev>>, "cancel-task", Body("cancel", None, 0, None))})

handleAnyoneClaim(shown, me) ==
    LET t == shown.state
        claim(action) == Attempted(<<"assignment", action, shown.rev>>, "change-task-assignment",
                                   Body(action, None, shown.rev, None))
    IN  When(t.assignment = "anyone" /\ t.status = "todo",
             {claim(CASE t.claim = Nobody -> "claim"
                      [] t.claim = me -> "release"
                      [] OTHER -> "takeover")})

handleToggleSubtask(shown, me) ==
    LET t == shown.state
        toggle(b, actor) ==
            LET action == IF b \in t.ticked THEN "untick" ELSE "tick"
                by == IF b \in t.ticked THEN "self" ELSE actor
            IN  Attempted(<<"subtask", b, action, by, shown.rev>>, "set-subtask-completion",
                          Body(action, b, shown.rev, by))
    IN  When(/\ t.mode = "subtasks"
             /\ t.status \in {"todo", "completed"}
             /\ t.status = "todo" => canExecute(t, me),
             {toggle(b, actor) : b \in Box, actor \in {"self", "partner", "unknown"}})

handleWaitingSubmit(shown) ==
    LET action == IF shown.state.waiting THEN "update" ELSE "set"
    IN  When(shown.state.status = "todo",
             {Attempted(<<"waiting", action, shown.rev>>, "set-task-waiting",
                        Body(action, None, shown.rev, x)) : x \in Text})

handleResumeWaiting(shown) ==
    When(shown.state.status = "todo" /\ shown.state.waiting,
         {Attempted(<<"waiting", "resume", shown.rev>>, "set-task-waiting",
                    Body("resume", None, shown.rev, None))})

\* Agreed changes go to the task, the others become a request to the partner,
\* which only the present assignee can send, and not to himself.
assignmentDecisionCommand(decision, assignee, rev, text) ==
    IF decision = "agreed"
    THEN Attempted(<<"assignment-decision", "agreed", assignee, rev>>, "change-task-assignment",
                   Body("agreed", assignee, rev, None))
    ELSE Attempted(<<"assignment-decision", "request", assignee, rev>>,
                   "create-assignment-change-request", Body("request", assignee, rev, text))

handleAssignmentSubmit(shown, me) ==
    When(shown.state.status = "todo" /\ shown.state.assignment # "anyone",
         {assignmentDecisionCommand("agreed", to, shown.rev, None) : to \in {User, Partner}}
         \union When(shown.state.assignment = me,
                     {assignmentDecisionCommand("request", Other(me), shown.rev, x) : x \in Text}))

handleEvidenceSubmit(shown) ==
    When(shown.state.status = "completed",
         {Attempted(<<"completion-evidence", shown.rev>>, "add-task-completion-evidence",
                    Body("evidence", None, 0, x)) : x \in Text})

\* TaskWorkUpdate: one key for the task; a kept attempt is sent again as it was.
WorkUpdateForm(shown) ==
    When(shown.state.status \in {"todo", "completed"},
         {[Attempted(<<"work-progress">>, "edit-task", Body("record_progress", None, shown.rev, x))
               EXCEPT !.via = "resumes"] : x \in Text})

\* Selected rows recorded together run these commands one by one.
runBulk(shown, me) ==
    LET t == shown.state
    IN  When(~finished(t),
             handleCouldNotDo(shown)
             \union {c \in handleComplete(shown, me) :
                       /\ canExecute(t, me)
                       /\ c.body.action = "complete" =>
                            c.body.arg = IF isPartnersTask(t, me) THEN "partner" ELSE "self"})

TaskButtons(shown, me) ==
    UNION {handleComplete(shown, me), handleReopen(shown), handleCouldNotDo(shown),
           handleCancel(shown), handleAnyoneClaim(shown, me), runBulk(shown, me)}

-----------------------------------------------------------------------------
(* The form, and the comments of the schedule card. *)

\* The whole new task is free text under one key.
createTask ==
    {Attempted(<<"task-form:create">>, "create-task", Body("create", None, 0, x)) : x \in Text}

TaskForm(shown) ==
    {Attempted(<<"task-form:edit", shown.rev>>, "edit-task", Body("save", None, shown.rev, x)) :
        x \in Text}
    \union When(shown.state.status = "todo",
                {Attempted(<<"task-form:cancel", shown.rev>>, "cancel-task",
                           Body("cancel", None, 0, None))})

\* The schedule card sends the whole event again with one item ticked or not.
toggleCheck(shown) ==
    {Attempted(<<"schedule:check", shown.rev>>, "edit-task", Body("save", "check", shown.rev, None))}

\* All comments on one task share a key.
comment ==
    {Attempted(<<"schedule:comment">>, "edit-task", Body("add_comment", None, 0, x)) : x \in Text}

=============================================================================
