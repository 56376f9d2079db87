--------------------------- MODULE FamilyEndpoints ---------------------------
(***************************************************************************)
(* What the edge functions answer to the commands of the other screens:    *)
(* requests between the two adults, shared notes, the routine check-in,    *)
(* the transport of a day, and the reviews in which a candidate (a Google  *)
(* change, a nursery letter, an event plan, a duplicate) is decided.       *)
(***************************************************************************)
EXTENDS Endpoints

-----------------------------------------------------------------------------
(* Requests: one attempt, its terms and who has confirmed them.  The whole *)
(* machine is RequestAttempt; here is what its answers look like.          *)

RequestState == [status: {"pending", "checking", "consulting", "awaiting_confirmation",
                          "accepted", "declined", "cancelled"},
                 kind: {"light", "assignment"},
                 requester: {User, Partner},
                 confirmed: SUBSET {User, Partner},
                 followup: BOOLEAN]        \* a follow-up of the agreement is open

Deciding == {"pending", "checking"}
Talking == {"consulting", "awaiting_confirmation"}

\* server_tx_transition_request_v2, under the endpoint of each answer.
transition(item, body, who) ==
    LET q == item.state
        from(states) == Check(q.status \in states, "REQUEST_TRANSITION_INVALID")
        recipients == Check(who # q.requester, "REQUEST_TRANSITION_INVALID")
        asSeen == << Check(body.rev = item.rev, "REQUEST_ATTEMPT_STALE"),
                     Check(q.status \in Deciding \union Talking, "REQUEST_ATTEMPT_STALE") >>
        becomes(status) == Bump(item, [q EXCEPT !.status = status])
        confirmed == q.confirmed \union {who}
    IN  CASE body.action = "accept" ->
               Reply(item, asSeen \o << recipients, from(Deciding) >>, becomes("accepted"), FALSE)
          [] body.action = "decline" ->
               Reply(item, asSeen \o << recipients, from(Deciding) >>, becomes("declined"), FALSE)
          [] body.action = "checking" ->
               Reply(item, asSeen \o << recipients, from({"pending"}) >>, becomes("checking"), FALSE)
          [] body.action = "consult" ->
               Reply(item, asSeen \o << from(Deciding) >>, becomes("consulting"), FALSE)
          [] body.action = "edit_terms" ->
               Reply(item, asSeen \o << from(Talking) >>,
                     Bump(item, [q EXCEPT !.status = "consulting", !.confirmed = {}]), FALSE)
          [] body.action = "confirm_terms" ->
               Reply(item, asSeen \o << from(Talking) >>,
                     Bump(item, [q EXCEPT !.confirmed = confirmed,
                                          !.status = IF confirmed = {User, Partner} THEN "accepted"
                                                     ELSE "awaiting_confirmation"]), FALSE)
          [] body.action = "cancel" ->
               Reply(item, asSeen \o << Check(who = q.requester, "REQUEST_TRANSITION_INVALID") >>,
                     becomes("cancelled"), FALSE)

\* A follow-up of the agreement is an attempt of its own; an index allows one
\* open attempt of a request, and its violation is no code of the catalogue.
start_request_followup(item, body, who) ==
    Reply(item, << Fresh(item, body),
                   Check(item.state.status = "accepted", "REQUEST_AGREEMENT_NOT_ESTABLISHED"),
                   Check(~item.state.followup, "INTERNAL_ERROR") >>,
          [item EXCEPT !.state.followup = TRUE], TRUE)

-----------------------------------------------------------------------------
(* Shared notes. *)

HandoverState == [status: {"active", "expired"}, author: {User, Partner},
                  required: BOOLEAN, read: SUBSET {User, Partner}]

\* mark-handover-read: a second reading is no error, and neither is a second end.
mark_handover_read(item, body, who) ==
    LET h == item.state
    IN  IF body.action = "end"
        THEN Reply(item, <<>>, IF h.status = "active" THEN Bump(item, [h EXCEPT !.status = "expired"])
                                                      ELSE item, FALSE)
        ELSE Reply(item, << Check(h.required => h.status = "active" /\ h.author # who,
                                  "INFO_ACK_NOT_ACTIONABLE") >>,
                   [item EXCEPT !.state.read = @ \union {who}], FALSE)

-----------------------------------------------------------------------------
(* The check-in of a routine, and the transport of a day. *)

\* The item is a task row.  Neither command names a revision.
routine_session_item_action(item, body, who) ==
    LET t == item.state
        as == CASE body.action \in {"complete", "partner_handled"} -> "completed"
                [] body.action = "cancelled" -> "cancelled"
                [] OTHER -> "could_not_do"
    IN  Reply(item, << Check(t.status = "todo", "TASK_TERMINAL") >>,
              Bump(item, Closed(t, as, t.ticked)), FALSE)

DayState == [transport: BOOLEAN, override: {Nobody, User, Partner}]

\* transport-schedule: the last writer of the day wins.
transport_schedule(item, body, who) ==
    CASE body.action = "set_override" ->
           Reply(item, <<>>, Bump(item, [transport |-> TRUE, override |-> body.arg]), FALSE)
      [] body.action = "delete_override" ->
           Reply(item, <<>>, Bump(item, [item.state EXCEPT !.override = Nobody]), FALSE)
      [] body.action = "clear_day" ->
           Reply(item, <<>>, Bump(item, [transport |-> FALSE, override |-> Nobody]), FALSE)

-----------------------------------------------------------------------------
(* Reviews: decided once, against the revision the user was shown.         *)

ReviewState == [status: {"pending", "unclear", "resolved"}, kind: {"one", "both"},
                answers: SUBSET {User, Partner}]

\* "both": a transport agreement that a new template would replace is kept or
\* reviewed only when the two have answered.
Decides(item, body, who, closed, stale) ==
    LET answers == item.state.answers \union {who}
    IN  Reply(item, << Check(item.state.status = "pending", closed), Check(body.rev = item.rev, stale) >>,
              Bump(item, [item.state EXCEPT
                            !.answers = answers,
                            !.status = IF item.state.kind = "both" /\ answers # {User, Partner}
                                       THEN "pending" ELSE "resolved"]), FALSE)

\* Rethrows what the command raised as it is: every refusal reads as a failure.
resolve_google_event_review(item, body, who) ==
    Decides(item, body, who, "INTERNAL_ERROR", "INTERNAL_ERROR")

confirm_event_plan(item, body, who) ==
    Decides(item, body, who, "EVENT_DRAFT_NOT_EDITABLE", "AGGREGATE_REVISION_CONFLICT")

respond_conflict_review(item, body, who) ==
    Decides(item, body, who, "TRANSPORT_REVIEW_NOT_PENDING", "AGGREGATE_REVISION_CONFLICT")

confirm_nursery_review(item, body, who) ==
    Decides(item, body, who, "NURSERY_INTAKE_STALE", "NURSERY_INTAKE_STALE")

\* Says which child an unclear letter is about; it may be said again.
resolve_nursery_ambiguity(item, body, who) ==
    Reply(item, << Check(item.state.status # "resolved" /\ body.rev = item.rev,
                         "NURSERY_INTAKE_STALE") >>,
          Bump(item, [item.state EXCEPT !.status = "pending"]), FALSE)

Created(item, body, who) == Reply(item, <<>>, item, TRUE)

-----------------------------------------------------------------------------
ServeFamily(endpoint, item, body, who) ==
    CASE endpoint \in {"respond-request", "accept-request", "decline-request", "cancel-request",
                       "negotiate-request", "accept-assignment-change-request"} ->
            transition(item, body, who)
      [] endpoint = "start-request-followup" -> start_request_followup(item, body, who)
      [] endpoint = "mark-handover-read" -> mark_handover_read(item, body, who)
      [] endpoint = "routine-session-item-action" -> routine_session_item_action(item, body, who)
      [] endpoint = "transport-schedule" ->
            IF body.action = "respond_conflict_review" THEN respond_conflict_review(item, body, who)
                                                       ELSE transport_schedule(item, body, who)
      [] endpoint = "resolve-google-event-review" -> resolve_google_event_review(item, body, who)
      [] endpoint = "confirm-event-plan" -> confirm_event_plan(item, body, who)
      [] endpoint = "confirm-nursery-review" -> confirm_nursery_review(item, body, who)
      [] endpoint = "resolve-nursery-ambiguity" -> resolve_nursery_ambiguity(item, body, who)
      [] endpoint \in {"send-request", "confirm-request-draft", "create-handover"} ->
            Created(item, body, who)
      [] OTHER -> Serve(endpoint, item, body, who)

=============================================================================
