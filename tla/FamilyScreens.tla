---------------------------- MODULE FamilyScreens ----------------------------
(***************************************************************************)
(* The buttons of the other screens: requests, shared notes, the check-in, *)
(* the transport of a day, and the reviews.                                *)
(***************************************************************************)
EXTENDS ShoppingScreens, FamilyEndpoints

-----------------------------------------------------------------------------
(* Requests. *)

Active(q) == q.status \in Deciding \union Talking

\* The answers of the one asked: those of the row, then those of "other".
respond(shown) ==
    LET q == shown.state
        under(endpoint, action) ==
            Attempted(<<"request", action, shown.rev>>, endpoint, Body(action, None, shown.rev, None))
    IN  When(q.status \in Deciding,
             {under(IF q.kind = "assignment" THEN "accept-assignment-change-request"
                                             ELSE "accept-request", "accept"),
              under("decline-request", "decline")})

negotiate(shown) ==
    LET q == shown.state
        under(action, text) == Attempted(<<"request", action, shown.rev, text>>, "negotiate-request",
                                         Body(action, None, shown.rev, text))
    IN  When(q.status \in Deciding /\ q.kind = "light",
             {under("checking", None)} \union {under("decline", x) : x \in Text})
        \union When(q.status \in Deciding, {under("consult", None)})
        \union When(q.status \in Talking,
                    {under("confirm_terms", None)} \union {under("edit_terms", x) : x \in Text})

\* The one who asked sends his answers as fresh commands.
OutgoingRequestRow(shown) ==
    LET q == shown.state
        now(endpoint, action, text) ==
            Plain(<<"request", action>>, endpoint, Body(action, None, shown.rev, text))
    IN  When(Active(q), {now("cancel-request", "cancel", None)})
        \union When(q.status \in Talking,
                    {now("negotiate-request", "confirm_terms", None)}
                    \union {now("negotiate-request", "edit_terms", x) : x \in Text})
        \union When(q.status = "accepted", {now("start-request-followup", "followup", x) : x \in Text})

IncomingRequestRow(shown) == respond(shown) \union negotiate(shown)

RequestButtons(shown, me) ==
    IF shown.state.requester = me THEN OutgoingRequestRow(shown) ELSE IncomingRequestRow(shown)

\* A new request: one key for the recipient; a kept attempt locks the form.
SendRequestForm ==
    {[Attempted(<<"request:send">>, endpoint, Body("send", None, 0, x)) EXCEPT !.via = "resumes"] :
        endpoint \in {"send-request", "confirm-request-draft"}, x \in Text}

-----------------------------------------------------------------------------
(* Shared notes. *)

\* An ended note that was not read can still be, by a fresh command.
HandoverActions(shown, me) ==
    LET h == shown.state
        unread == me \notin h.read
    IN  When(h.status = "active" /\ unread /\ h.author # me,
             {Attempted(<<"handover", "read">>, "mark-handover-read", Body("read", None, 0, None))})
        \union When(h.status = "active",
             {Attempted(<<"handover", "end">>, "mark-handover-read", Body("end", None, 0, None))})
        \union When(h.status = "expired" /\ unread,
             {Plain(<<"handover", "markRead">>, "mark-handover-read", Body("read", None, 0, None))})

ComposeHandoverForm ==
    {Attempted(<<"handover:create">>, "create-handover", Body("create", None, 0, x)) : x \in Text}

-----------------------------------------------------------------------------
(* The check-in (of a session with other items open).  Its keys name the   *)
(* item and the action, not the revision shown.                            *)

runItemAction(shown) ==
    When(shown.state.status = "todo",
         {Attempted(<<"checkin", "item", action>>, "routine-session-item-action",
                    Body(action, None, 0, None)) :
            action \in {"complete", "partner_handled", "failed", "cancelled"}})

runSubtaskAction(shown) ==
    When(shown.state.mode = "subtasks",
         {LET action == IF b \in shown.state.ticked THEN "untick" ELSE "tick"
          IN  Attempted(<<"checkin", "subtask", b, action>>, "set-subtask-completion",
                        Body(action, b, 0, "self")) : b \in Box})

CheckinPage(shown) == runItemAction(shown) \union runSubtaskAction(shown)

-----------------------------------------------------------------------------
(* The transport of a day. *)

clearDay(shown) ==
    When(shown.state.transport,
         {Attempted(<<"day-transport:clear">>, "transport-schedule", Body("clear_day", None, 0, None))})

overrideDay(shown) ==
    {Plain(<<"override">>, "transport-schedule", Body("set_override", to, 0, None)) : to \in {User, Partner}}
    \union When(shown.state.override # Nobody,
                {Plain(<<"override">>, "transport-schedule", Body("delete_override", None, 0, None))})

DayTransport(shown) == clearDay(shown) \union overrideDay(shown)

-----------------------------------------------------------------------------
(* Reviews. *)

\* An AssignmentResolver of Today: take an unclear assignment or ask for it.
resolveAssignment(shown, me) ==
    When(shown.state.status = "todo" /\ shown.state.assignment # "anyone",
         {Attempted(<<"resolve-assignment", "self", shown.rev>>, "change-task-assignment",
                    Body("agreed", me, shown.rev, None)),
          Attempted(<<"resolve-assignment", "request", shown.rev>>, "create-assignment-change-request",
                    Body("request", Other(me), shown.rev, None))})

\* A correction of who did it: fresh, guarded by the revision.
saveActualCorrection(shown) ==
    When(shown.state.status = "completed",
         {Plain(<<"history">>, "correct-task-actual", Body("correct", None, shown.rev, None))})

resolveGoogleReview(shown) ==
    When(shown.state.status = "pending",
         {Plain(<<"google-review">>, "resolve-google-event-review", Body(choice, None, shown.rev, None)) :
            choice \in {"accept_google", "keep_family"}})

confirmEventPlan(shown) ==
    When(shown.state.status = "pending",
         {Attempted(<<"event-plan", shown.rev>>, "confirm-event-plan", Body("confirm", None, shown.rev, x)) :
            x \in Text})

respondReview(shown) ==
    When(shown.state.status = "pending",
         {Plain(<<"conflict-review">>, "transport-schedule",
                Body("respond_conflict_review", None, shown.rev, None))})

NurseryReview(shown) ==
    When(shown.state.status = "unclear",
         {Plain(<<"nursery", "resolve">>, "resolve-nursery-ambiguity", Body("resolve", None, shown.rev, None))})
    \union When(shown.state.status = "pending",
         {Attempted(<<"nursery", "confirm", shown.rev>>, "confirm-nursery-review",
                    Body("confirm", None, shown.rev, x)) : x \in Text})

=============================================================================
