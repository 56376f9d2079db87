-------------------------- MODULE SettingsEndpoints --------------------------
(***************************************************************************)
(* What the edge functions answer to the commands of the settings, of the  *)
(* first set-up of a household, and of the concierge.  No row of these     *)
(* tables carries a revision the client could name: rev only counts the    *)
(* changes, and every command overwrites what it finds.                    *)
(***************************************************************************)
EXTENDS FamilyEndpoints

-----------------------------------------------------------------------------
(* Who of the two is shown as papa and who as mama.                        *)

Roles == {"papa", "mama"}
RoleState == [roles : [{User, Partner} -> Roles \union {"unset"}]]

Swapped(role) == IF role = "papa" THEN "mama" ELSE "papa"

\* body.arg takes the role body.text; who held it takes the one given up.
set_family_role(item, body, who) ==
    LET roles == item.state.roles
        holder == Other(body.arg)
        givenUp == IF roles[body.arg] = "unset" THEN Swapped(body.text) ELSE roles[body.arg]
        next == [roles EXCEPT ![body.arg] = body.text,
                              ![holder] = IF @ = body.text THEN givenUp ELSE @]
    IN  Reply(item,
              << Check(roles[body.arg] # body.text => \A r \in Roles : \E a \in {User, Partner} : next[a] = r,
                       "FAMILY_ROLE_INVARIANT") >>,
              IF roles[body.arg] = body.text THEN item ELSE Bump(item, [roles |-> next]), FALSE)

-----------------------------------------------------------------------------
(* The household: its members, the invitation, and the steps of the        *)
(* wizard the two have been through.                                       *)

WizardSteps == << "dropoff_pickup", "evening", "morning_preparation", "connections",
                  "notifications", "week_preview" >>
AllSteps == {WizardSteps[i] : i \in 1..Len(WizardSteps)}

SetupState == [members : SUBSET {User, Partner}, invite : {"none", "live", "used"},
               done : SUBSET AllSteps]

Member(s, who) == Check(who \in s.members, "NOT_HOUSEHOLD_MEMBER")

\* A household of one.
create_household(item, body, who) ==
    Reply(item, << Check(who \notin item.state.members, "HOUSEHOLD_ALREADY_JOINED") >>,
          Bump(item, [item.state EXCEPT !.members = {who}]), TRUE)

\* The token of an invitation is good for one person and until it is replaced.
join_household(item, body, who) ==
    LET s == item.state
    IN  Reply(item,
              << Check(s.invite # "none", "INVITE_EXPIRED"), Check(s.invite # "used", "INVITE_USED"),
                 Check(Cardinality(s.members) < 2, "HOUSEHOLD_FULL"),
                 Check(who \notin s.members, "HOUSEHOLD_ALREADY_JOINED") >>,
              Bump(item, [s EXCEPT !.members = @ \union {who}, !.invite = "used"]), FALSE)

create_household_invite(item, body, who) ==
    Reply(item, << Member(item.state, who) >>, Bump(item, [item.state EXCEPT !.invite = "live"]), TRUE)

\* family-setup, inside complete-onboarding-step.
family_setup(item, body, who) ==
    LET s == item.state
        as(next, checks) == Reply(item, << Member(s, who) >> \o checks, Bump(item, next), FALSE)
    IN  CASE body.action = "finish_later" -> as([s EXCEPT !.done = AllSteps], <<>>)
          [] body.action = "reissue_invite" ->
               as([s EXCEPT !.invite = "live"], << Check(Cardinality(s.members) < 2, "HOUSEHOLD_FULL") >>)

\* A step is put on record once, after the one before it.
complete_onboarding_step(item, body, who) ==
    LET s == item.state
        before == {WizardSteps[i] : i \in {i \in 1..Len(WizardSteps) - 1 : WizardSteps[i + 1] = body.arg}}
    IN  Reply(item, << Member(s, who), Check(before \subseteq s.done, "ONBOARDING_STEP_OUT_OF_ORDER") >>,
              IF body.arg \in s.done THEN item ELSE Bump(item, [s EXCEPT !.done = @ \union {body.arg}]),
              FALSE)

\* The first two steps store a whole table of rules over what is there.
configure_dropoff_pickup(item, body, who) ==
    Reply(item, << Member(item.state, who) >>,
          Bump(item, [item.state EXCEPT !.done = @ \union {"dropoff_pickup"}]), FALSE)

configure_evening_routines(item, body, who) ==
    Reply(item, << Member(item.state, who) >>,
          Bump(item, [item.state EXCEPT !.done = @ \union {"evening"}]), FALSE)

-----------------------------------------------------------------------------
(* One setting: the last writer wins.                                      *)

SettingState == [of : {"schedule", "preference", "reminders", "nudge", "categories", "terms",
                       "cell", "template", "school"},
                 value : {"on", "off", Nobody, User, Partner}]

Overwritten(item, body) ==
    Reply(item, <<>>, Bump(item, [item.state EXCEPT !.value = body.arg]), FALSE)

update_routine_schedule(item, body, who) == Overwritten(item, body)
update_notification_preferences(item, body, who) == Overwritten(item, body)
update_reminder_settings(item, body, who) == Overwritten(item, body)
update_task_categories(item, body, who) == Overwritten(item, body)
replace_household_terminology(item, body, who) == Overwritten(item, body)
save_template(item, body, who) == Overwritten(item, body)

\* Who does a routine on a weekday: the value is the person.
change_recurrence(item, body, who) == Overwritten(item, body)

deactivate_recurrence(item, body, who) ==
    IF item.state.value = Nobody THEN Reply(item, <<>>, item, FALSE) ELSE Overwritten(item, body)

\* A child's school and class: a new child, or the fields of one that is there.
save_context(item, body, who) == Reply(item, <<>>, Bump(item, item.state), TRUE)

create_line_link_token(item, body, who) == Created(item, body, who)

-----------------------------------------------------------------------------
(* The concierge updates what its candidate duplicates, if it is as it was.*)

commit_concierge_duplicate(item, body, who) ==
    LET s == item.state
    IN  Reply(item,
              << Fresh(item, body),
                 IF s \in ShoppingState
                 THEN Check(s.status \in {"wanted", "assigned", "ordered"}, "INVALID_SHOPPING_TRANSITION")
                 ELSE Check(s.status = "todo", "TASK_NOT_OPEN") >>,
              Bump(item, s), FALSE)

record_unplanned_actual(item, body, who) == Created(item, body, who)

-----------------------------------------------------------------------------
ServeAll(endpoint, item, body, who) ==
    CASE endpoint = "set-family-role" -> set_family_role(item, body, who)
      [] endpoint = "create-household" -> create_household(item, body, who)
      [] endpoint = "join-household" -> join_household(item, body, who)
      [] endpoint = "create-household-invite" -> create_household_invite(item, body, who)
      [] endpoint = "complete-onboarding-step" ->
            IF body.action = "complete_step" THEN complete_onboarding_step(item, body, who)
            ELSE IF body.action = "save_context" THEN save_context(item, body, who)
            ELSE family_setup(item, body, who)
      [] endpoint = "configure-dropoff-pickup" -> configure_dropoff_pickup(item, body, who)
      [] endpoint = "configure-evening-routines" -> configure_evening_routines(item, body, who)
      [] endpoint = "update-routine-schedule" -> update_routine_schedule(item, body, who)
      [] endpoint = "change-recurrence" -> change_recurrence(item, body, who)
      [] endpoint = "deactivate-recurrence" -> deactivate_recurrence(item, body, who)
      [] endpoint = "update-notification-preferences" ->
            IF body.action = "reminder_settings" THEN update_reminder_settings(item, body, who)
                                                 ELSE update_notification_preferences(item, body, who)
      [] endpoint = "update-task-categories" -> update_task_categories(item, body, who)
      [] endpoint = "update-household-terminology" -> replace_household_terminology(item, body, who)
      [] endpoint = "transport-schedule" /\ body.action = "save_template" -> save_template(item, body, who)
      [] endpoint = "create-line-link-token" -> create_line_link_token(item, body, who)
      [] endpoint = "commit-concierge-duplicate" -> commit_concierge_duplicate(item, body, who)
      [] endpoint = "record-unplanned-actual" -> record_unplanned_actual(item, body, who)
      [] OTHER -> ServeFamily(endpoint, item, body, who)

=============================================================================
