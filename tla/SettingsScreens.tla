--------------------------- MODULE SettingsScreens ---------------------------
(***************************************************************************)
(* The buttons of the first set-up of a household and of the settings.     *)
(*                                                                         *)
(* A form of the set-up draws its operation id when it is mounted          *)
(* (useState(newOperationId)) and sends every submission under it; the     *)
(* settings draw one for every press.                                      *)
(***************************************************************************)
EXTENDS FamilyScreens, SettingsEndpoints

\* callEdgeFunction(endpoint, { operation_id: operationId, ... }) of a mounted form.
Formed(key, endpoint, body) == [Plain(key, endpoint, body) EXCEPT !.via = "form"]

Now(endpoint, action, arg, text) == Plain(<<action, arg>>, endpoint, Body(action, arg, 0, text))

-----------------------------------------------------------------------------
(* The set-up.  The gate shows the first part that is not done.            *)

\* The form to create a household is not drawn for a visitor with a link (to
\* an invitation that may have been used since).
CreateHouseholdForm(s) ==
    When(s.invite = "none",
         {Formed(<<"create-household">>, "create-household", Body("create", None, 0, x)) : x \in Text})

JoinHouseholdForm(s) ==
    {Formed(<<"join-household">>, "join-household", Body("join", None, 0, x)) : x \in Text}

HouseholdSetup(s) == CreateHouseholdForm(s) \union JoinHouseholdForm(s)

StartToday ==
    {Attempted(<<"onboarding:finish-later">>, "complete-onboarding-step",
               Body("finish_later", None, 0, None))}

DropoffPickupStep ==
    {Formed(<<"dropoff_pickup">>, "configure-dropoff-pickup", Body("configure", None, 0, x)) : x \in Text}

EveningRoutinesStep ==
    {Formed(<<"evening">>, "configure-evening-routines", Body("configure", None, 0, x)) : x \in Text}

useCompleteStep(step) == {Now("complete-onboarding-step", "complete_step", step, None)}

\* The routines of the morning are saved first (RoutineSave).
MorningPreparationStep == useCompleteStep("morning_preparation")
ConnectionsStep == useCompleteStep("connections")
\* The recommended preferences are sent first, as in toggle below.
RecommendedNotificationsStep == useCompleteStep("notifications")
WeekPreviewStep == useCompleteStep("week_preview")

Wizard(step) ==
    CASE step = "dropoff_pickup" -> DropoffPickupStep
      [] step = "evening" -> EveningRoutinesStep
      [] step = "morning_preparation" -> MorningPreparationStep
      [] step = "connections" -> ConnectionsStep
      [] step = "notifications" -> RecommendedNotificationsStep
      [] step = "week_preview" -> WeekPreviewStep

\* The phase a member is in: the first step not done yet.
phaseForHousehold(s) ==
    LET todo == {i \in 1..Len(WizardSteps) : WizardSteps[i] \notin s.done}
    IN  IF todo = {} THEN "ready"
        ELSE WizardSteps[CHOOSE i \in todo : \A j \in todo : i <= j]

HouseholdGate(shown, me) ==
    LET s == shown.state
        phase == phaseForHousehold(s)
    IN  IF me \notin s.members THEN HouseholdSetup(s)
        ELSE When(phase # "ready", StartToday \union Wizard(phase))

\* The invitation, as long as there is no partner.
InviteSection(shown, me) ==
    LET s == shown.state
    IN  IF me \notin s.members THEN JoinHouseholdForm(s)
        ELSE When(s.members = {me},
                  {Now("create-household-invite", "invite", None, None),
                   Now("complete-onboarding-step", "reissue_invite", None, None)})

-----------------------------------------------------------------------------
(* The family. *)

FamilyRoles ==
    {Attempted(<<"family-role", user, role>>, "set-family-role", Body("role", user, 0, role)) :
        user \in {User, Partner}, role \in Roles}

\* The key is the whole payload.
ChildrenSettings ==
    {Attempted(<<"school-context", x>>, "complete-onboarding-step", Body("save_context", None, 0, x)) :
        x \in Text}

LineLinkSection == {Now("create-line-link-token", "link", None, None)}

-----------------------------------------------------------------------------
(* Settings: what is on the screen is sent as it is.                       *)

Turned(shown) == IF shown.state.value = "on" THEN "off" ELSE "on"
AsEdited(endpoint, action) == {Now(endpoint, action, v, None) : v \in {"on", "off"}}

handleSave(shown) == {Now("update-routine-schedule", "schedule", Turned(shown), None)}
toggle(shown) == {Now("update-notification-preferences", "preference", Turned(shown), None)}
ReminderSettingsSection == AsEdited("update-notification-preferences", "reminder_settings")
MorningNudgeSection == AsEdited("update-notification-preferences", "reminder_settings")
CategorySettings == AsEdited("update-task-categories", "categories")
HouseholdTerminology == AsEdited("update-household-terminology", "terms")

\* One cell of the matrix: somebody every week, or nobody.
DropoffPickupMatrix ==
    {Now("change-recurrence", "cell", to, None) : to \in {User, Partner}}
    \union {Now("deactivate-recurrence", "cell", Nobody, None)}

\* The template of a week; the key is its first day and all its days.
TransportTemplateEditor ==
    {Attempted(<<"transport-template", to>>, "transport-schedule", Body("save_template", to, 0, None)) :
        to \in {User, Partner}}

Setting(shown) ==
    LET of == shown.state.of
    IN  CASE of = "schedule" -> handleSave(shown)
          [] of = "preference" -> toggle(shown)
          [] of = "reminders" -> ReminderSettingsSection
          [] of = "nudge" -> MorningNudgeSection
          [] of = "categories" -> CategorySettings
          [] of = "terms" -> HouseholdTerminology
          [] of = "cell" -> DropoffPickupMatrix
          [] of = "template" -> TransportTemplateEditor
          [] OTHER -> {}                               \* "school": ChildrenSettings

=============================================================================
