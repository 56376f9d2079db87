# Family Ops: formal models

Family Ops runs a household of two adults: tasks, requests between them, shopping, routines, a
mirror of their decisions in a Google calendar and of Google's events in the app, and messages
over LINE. A React client and LINE call Deno Edge Functions (`src/supabase/functions`), which
call PostgreSQL functions (`src/supabase/migrations`). The database functions hold most of the
logic and every state change; each call is one transaction. The Edge Functions of the background
jobs are sequences of such calls with network requests in between, and cron starts a new one
every minute whether or not the last has ended. The client keeps what it has sent, shown and
remembered in a browser, where anything may be lost.

Since a migration may replace a function, each definition here follows the **latest**
`create or replace` of the function it models; `PROJECT.json` names file and lines.

## Inventory

| Part | State | Operations | What is hard | What makes it correct | Modules |
|---|---|---|---|---|---|
| LINE quota | `line_quota_state` (a row per month), `line_quota_reservations` | reserve, commit, release, mark ambiguous, refresh from the provider | concurrent admission, replays, settlement after the month ends | caps hold, each delivery counts once | `LineQuota` |
| Notification outbox, `send-notifications` | `notification_outbox`, a run's batch | insert or bundle (trigger), sweep and claim; permit, push, settle | leases shorter than a batch, lost answers, crashes, retry key window | nobody is told twice, row and budget end alike, every row settles | `NotificationOutbox` |
| Request attempts | `request_attempts`, requests, the tasks in scope, receipts | send, respond, consult, cancel, expire, re-propose, follow up | answers racing expiry and edits of the terms | consent is to the terms seen, one agreement, all tasks or none | `RequestAttempt` |
| LINE webhook inbox | `webhook_inbox`, a run's batch | receive, claim, handle, complete, fail | duplicate and late deliveries, order per sender, leases | every event settles, a correction is not set back | `LineInbox`, `LineWorker` |
| Pending actions | `pending_actions` | draft, prepare, edit, confirm, cancel, undo, claim, execute, expire | confirm against edit, parts of an execution failing | what runs is what was confirmed, wholly | `PendingActions` |
| LINE commands | tasks, items, claims, previews, session answers | what a tap or text does to them | old cards, lost answers, the other adult in the app | an old card or undo does nothing it did not show | `LineCommands`, `LineWorker` |
| Calendar mirror outbox | mirror rows, fences, cleanup jobs; Google's event | project, claim, authorize, write, complete, fail, switch calendar | a write that arrives after its lease, unknown outcomes | one write at a time, last decision wins | `CalendarMirror` |
| Google sync | job queue, staged pages, cache, snapshot, watch channels | enqueue, claim, list page by page, commit, project, renew channels | changes between pages, lost tokens, overlapping runs and channels | no change is missed, no request is swallowed | `GoogleSync`, `GoogleWatch` |
| Web client: commands | attempts in `sessionStorage`, calls under way, rows shown, undo | press, send, settle, reload, load | lost answers, late requests, stale screens, forgotten attempts | what is told as done was done, once, now | `WebClient` and the screen and endpoint modules |
| Web client: routine editors | a save plan of several commands, rows edited | save, resume, review, stop, add | a save interrupted between two commands | a save told as done is whole and in order | `RoutineSave` |
| Tasks, shopping, handovers, reviews, set-up, settings, concierge | their rows | the commands of each screen | as for the client | as for the client | `Endpoints`, `FamilyEndpoints`, `SettingsEndpoints` |
| Not modelled | retention cleanup, web push reminders, test simulation, schema and policies; see the end | | | | |

The parts interact through tables: a command writes a `user_notifications` row, whose trigger
fills the notification outbox; a task change writes the calendar outbox; a confirmed pending
action calls the same commands as the client; a tap in LINE comes back through the inbox. The
composed models are `NotificationOutbox` (on `LineQuota`), `LineWorker` (on `PendingActions`,
`LineCommands`, `LineInbox`), `GoogleWatch` (on `GoogleSync`) and `WebClient` (on its screens and
endpoints).

## Plan, and what is left of it

1. `LineQuota`, `NotificationOutbox` and their proofs: done.
2. `RequestAttempt`, with the operation receipts, and its proofs: done; all safety properties are proved.
3. The LINE inbox, pending actions and the worker between them: done; all safety properties are proved.
4. `CalendarMirror` and the abstract promise it implements: done; the refinement is proved.
5. Google sync and its watch channels: done; all safety properties are proved.
6. The web client with the commands of its screens, and the saves of several commands: done; all
   safety properties are proved.
7. Left: retention cleanup, web push reminders, materialisation of routine sessions and their
   reassignment, quantities in shopping.

## LineQuota and NotificationOutbox: the budget, and delivery on top of it

`month` is the billing month in Asia/Tokyo, `quota[m]` the row of `line_quota_state`,
`reservation[r]` the row of `line_quota_reservations` of outbox row `r` (its
`notification_outbox_id` is unique). `Reserve`, `Commit`, `Release`, `MarkAmbiguous` and
`RefreshProviderUsage` are the `server_tx_*` functions. A call that raises is an action that
is not enabled. Time is ticks left until a deadline, so that a state holds no clock.

`row[r]` is a row of `notification_outbox` numbered by the notification it was inserted for;
`items` lists the notifications bundled into it. `worker[w]` is a run of `send-notifications`:
its claims (row, lease token, body, whether the recipient had a LINE link) and where it is in
`sendOne`. `provider[r]` is what LINE knows of the retry key: how often it took it as a new
message and how long it still remembers it.

`Notify` is the trigger, `StartRun` the quota refresh that begins a run, `Claim` the sweep and
the batch claim in one transaction, `Refuse`, `AskPermit`, `Push...`, `Complete` and `Fail` the
calls for one item, in that order. Any call's answer may be lost; `Crash` ends a run between
any two of them; `Stop` is the platform's time limit. Two assumptions are external: the
provider deduplicates a retry key for at least the key window and the life of a run together
(`MarginAssumption`: 24 h against 23 h and a few minutes), and answers 409 to a key it knows.

| Run | Instance | Shows |
|---|---|---|
| `outbox_race` | 2 rows, 2 runs, batch of 1, budget of one, lease 1, run 1 < window 2 | overlapping runs, lapsed leases, lost answers, crashes, two runs asking for the last permit at once: no double delivery, row and reservation end alike, and what the server counts stays within the cap |
| `outbox_live` | 2 rows (one critical), 1 run at a time, batch of 2, 2 months, budget of one | two rows competing for the last permit across attempts, lost answers and a month change: every delivery counts once, every row settles |

Bounds: `MaxAttempts` 2 is reached before the key window ends, and the window before the
attempts, in some behaviour each; attempts are bounded by the window, so no counter needs a
cap of its own.

The cap is a statement about what the server counts: committed reservations and open ones,
attempts of unknown outcome among them. It is not one about the messages LINE took: a
definitive failure, a fallback or the last transient failure of a later attempt (also one that never called LINE, because
the link is gone or the quota data is stale) gives back the reservation of an earlier attempt
whose message may have been delivered, where LQA06 in
`docs/design/v6/fixtures/LINE_QUOTA_ATOMIC_CASES.json` says it stays counted. Until LINE's own consumption is read again, each such message
leaves room for one more than the cap allows.

A lease and a run of one tick overlap: the tick that ends the lease leaves the run alive until the
next one, and another run takes the row meanwhile. Two rows share only the budget. Two
months are enough for a reservation made in one and settled in the next.

Fairness (`outbox_live` only): time passes, a run moves on and the platform stops it (weak);
a run's claim is strongly fair: runs may die before claiming but not all of them for ever. The
cron schedule is in `.github/workflows/configure-production-cron.yml`. No fairness is assumed
of producers or of the provider, so a row settles even if LINE never answers.

Seen while modelling, without a run of its own: a notification that joins a row between two
attempts is marked sent though the message the provider took did not hold it; a row whose lease
lapses after its business deadline is still delivered; a transient failure at the end of the key
window keeps the budget of a message that was not sent, where the comment on the function says
it is released.

## RequestAttempt: the agreement of two members

`request` is the row of `requests`, `attempt` its `request_attempts` in the order of their
creation, `confirmed` the rows of `request_attempt_confirmations`, `task` the task instances in
scope, `receipt` the recorded result of an operation. `cmd[p]` is the operation party `p` last
sent, with the revisions and the terms its screen or card showed: `Compose` reads the state,
any later step may come in between, and the action that handles it (`Checking`, `Consult`,
`EditTerms`, `ConfirmTerms`, `Accept`, `Decline`, `Cancel`, `Repropose`, `StartRequestFollowup`,
`DeclineRequestFollowup`; `AnswerLate` past the reply deadline) compares what the code compares.
`Replay` is the same operation coming in again. `AcceptRequest` and `DeclineRequest` are the
taps on cards that name only the request. `agreed[a][p]` is the only variable that the code
does not have: the terms that were in front of `p` when it agreed.

`Projected` is the status written by `fn_project_request_legacy_lifecycle_v1`, the fence for
completions included; `Concludes` is everything an acceptance does: the task of a light request
(`MakeTask`), the hand-over of all targets (`HandOver`), the follow-up applied by the trigger
(`ApplyFollowUp`), the agreed deadline (`PatchedDue`). Tasks are completed, reopened, checked
off and edited underneath (`CompleteTask`, `ReopenTask`, `CheckItem`, `EditTask`).

Terms are abstracted to what binds: the work deadline and the tasks with the revision and
assignee they had. Titles, memos and `requests.due_at` are left out, and so are notifications
and the transport-role dependents, which no guard of an attempt reads.

| Run | Instance | Shows |
|---|---|---|
| `request_light` | light, 2 attempts, 2 reply deadlines, 3 conversations | agreement is to the terms both parties saw; one agreement; the status says what the attempts say, and is completed exactly while the task is; every proposal with a reply deadline is closed |
| `request_assign` | a checklist and a task edited by hand, 2 attempts | all targets or none; only as the parties knew them; no state whose projection would raise |
| `request_old_card` | light, cards that name only the request | a sentence of the documents the code does not keep (see Findings) |

Bounds: `sends` is drawn from `Conversations` at the start and limits what the clients of a party
send, so that one run explores each kind of conversation in full depth: talking the terms over;
answers, expiry and a second proposal with old cards about; a change or cancellation afterwards.
`MaxAttempts` 2 has a proposal after an expired one and a follow-up after an agreement;
`MaxRevision` 5 has a consultation, an edit and a confirmation by each party; `MaxTaskRevision` 3
has a task completed and opened again; `Horizon` lies beyond every deadline that is offered. A
household may send nothing more, so deadlock is not checked.

Fairness (`request_light` only): time passes, and the expiry worker is started again and again
(first call of `dispatch-routine-automation`, which cron runs); nothing is assumed of the parties.

`edit-task` refuses routine tasks and does not raise the revision, so that a manual task is handed
over with the deadline it has by then: `AgreedOnWhatIsThere` excepts the deadline of manual tasks
(a hazard on the list), and `AllOrNothing` their assignee before the agreement. Seen without a
run: a completed checklist that is unchecked leaves its request completed; an accepted operation
replayed after the agreed deadline raises instead of returning its recorded result (`Replay` is
not enabled then).

## LineInbox, PendingActions, LineCommands, LineWorker: a conversation in LINE

`LineInbox` is `webhook_inbox`: events numbered by the provider's timestamp, delivered in any
order and twice (`Receive`), claimed one per sender into a run's batch (`ClaimBatch`), closed with
the lease token (`Complete`, `Fail`, the last attempt making the event dead). A run may die
(`Crash`), throw (`Throw`), or go on after its lease is over (`LeaseLapses`).

`PendingActions` is `pending_actions`: rows found by the operation id their event gives them, with
the functions that create, edit (with revision, event time and the edit mark), confirm, cancel and
undo them from LINE or from the app (`AppStep`), the worker that prepares unclear drafts, the one
that executes confirmed ones part by part (`ClaimConfirmed`, `StartExecution`, `ExecuteOp`,
`FailOp`, `CompleteJob`, `FailJob`), and the sweep of rows past their time. `consent` is the one
variable the code does not have: the content of a row when it was confirmed, but for its calendar.
That stands apart, as it may change later: `ChooseCalendar` is the button "Googleに入れない" the reply to
a confirmed event offers, which rewrites the row in any state, and the task of a row that is done.
A draft keeps `chosen`, its calendar at the confirmation and every one tapped since; a task keeps
the one it was `asked` with, so that a retry with another is a `Conflict` of its receipt.
`ExecutedAsConfirmed` asks for a calendar the owner chose, not for the last choice.

`LineCommands` is what commands do to a task and an item of the list: completing, reopening,
buying and taking back with their revisions and receipts, claims, waiting, the answer to a whole
routine session and its undo, and the question who drives. `LineWorker` is `process-line-inbox`:
`Read` turns an event into the sequence of server calls its handler makes (whatever the language
model might answer is a choice), `CallServer` makes the next one, `LoseAnswer` makes it or not and
has it taken for refused.

Run `line_chat`: 22 stories of two or three events, each allowing what its users write and tap, so
that drafts, corrections, reviews, commands, undo buttons, claims, decisions, sessions and transport
questions are each explored with two inbox runs, an execution, the app, the other adult and the
trouble the story allows (lost answers, deaths, late runs, rows past their time). Shown: what was
executed was confirmed, in the calendar confirmed or one tapped since, and wholly before a row is
called done; corrections take effect in the order
they were written (with the two exceptions below);
undoing "all done" overwrites nothing done since; the driver changes only by agreeing to the newest
question about the task as it was shown; events and confirmations settle. `MaxAttempts` and
`MaxExecutions` 2 have a retry and a death by attempts; three events have a draft, its correction
and a late one.

`CorrectionsInOrder` excepts two things the code does, each of which a story reaches. A new draft has
the event time 0, so an older message that is delivered late edits it (`OutOfOrder`: "fix" and "item"
arrive in the other order). And `server_tx_update_pending_action` takes the time from the one event the
sender has under way: a run that outlived its lease has its old edit stamped with the time of a later
event and sets a correction back (`Outlived`). The comment at `20260905000008:198` says that a late or
replayed event returns the draft unchanged.

Fairness: runs are started every minute and after every delivery, and end; leases and retry times
pass; an event that was sent is delivered in the end. Users need not write and nothing need go wrong.

Seen without a run of its own: the LINE waiting taps call `server_tx_set_task_waiting` with a
parameter no overload has, and fail (the model refuses them); a day report handled twice is
recorded twice under new operation ids; an event handled again may be understood otherwise and make
a second draft; an executing row past its expiry whose worker died stays executing
(`ConfirmedSettles` excepts it); a calendar tapped between the claim of an event and the
completion of its execution is set on the draft only, since the executor works with the payload it claimed and
the row has no result yet, though the comment at `20261011020000:57` says that the choice is set on the draft,
and on the task once the draft was executed; one tapped between an execution that made the task and was not
recorded and its retry makes the retry another payload under the same operation, so that the row ends dead
though its task exists; a draft may be told cancelled though a part of it was executed;
the app's confirm button on a review with undecided candidates ends in a partial execution and a
dead row; an event that kills its run is claimed again without a limit of attempts; an
edit in the app is refused unless exactly one LINE event of the sender is alive.

## CalendarPromise, CalendarMirror: decisions in Google's calendar

`CalendarPromise` is the abstract specification: the family decides, in order, what an event
should look like, and every calendar follows the decisions in that order; it may skip some and lag
behind. `CalendarMirror` is the outbox that keeps it: the mirror row and per calendar the job that
deletes the event after a switch, each under a lease; the durable fence that gives leave for one
provider write; the runs, with what they have read; the requests on their way to Google (`flight`),
which arrive late or never and are judged by their ETag; Google's event. Household steps are `Edit`,
`Cancel`, `Hide`, `SetTarget`, `Reconnect`, and `Touch`, a hand on the event in Google. `SetTarget` and
`Reconnect` reconcile: they queue a task whose day is one of the next sixty and pass over any other. How
far off its day is, is a choice at each of them, and `row.passed` is the history of having been passed
over since the row was last queued; `row.ver` is the decision it was last claimed with.

| Run | Instance | Shows |
|---|---|---|
| `calendar` | 2 runs, 2 calendars, 3 leases, 3 decisions, 2 switches or touches, 1 failure | one write per event on its way; `synced` and `deleted` tell the truth; the refinement `KeepsThePromise` |
| `calendar_stuck` | 1 run, 1 calendar, 1 failure | after a write of unknown outcome the event is never written again (see Findings) |

The refinement maps a decision to the task's version and a calendar to what it shows and the newest
version it ever followed. Fairness (`calendar_stuck`): a run is made every minute and ends, requests
arrive, leases and deadlines pass. Three leases are two held and one that was lost; a third decision
is one taken while an older write is on its way.

`SyncedMeansMirrored` excepts a deletion while a write of unknown outcome is open: a deletion that
finds no event completes without asking leave, so that the late write leaves an event nobody deletes.
It also excepts a row that was passed over and not decided about since: a task of a later day, edited while
the connection needs reauthorization, keeps a row that says `synced` of the content before (a hazard on the list).
Seen without a run: a calendar orphaned and chosen again is refused for ever
(`ORPHAN_PROVIDER_REVALIDATION_REQUIRED`); edits while there is no usable calendar are dropped, and
choosing one brings only sixty days; switching calendars while an insert is under way leaves no
deletion job. Deletions of the event by hand in Google are left out, and so is the transfer
of family events, which is not activated.

## GoogleSync, GoogleWatch: Google's events in the app

`GoogleSync` is the job queue and `process-google-sync`: `google_enqueue_sync` (with the flag that
asks a run under way to start over), `claim_google_sync_job`, then one action per request of a run:
`ReadContext`, the first page (`StageFirst`, any part of what changed), the rest (`StageRest`),
`StartOver` after a 410, `Commit` of cache and token, the occurrence listing and its projection, and
the report. `asked`, `read` and `late` are history. `GoogleWatch` adds the channels, their ages, the
webhook (`Announce`), and the cron job that registers a new channel and retires and stops the old.

Run `google_sync`: two events, two runs, two channels and five weeks (`Weeks`: two changes in peace;
a change with two failures; a midnight and a slow run; renewal with a failure; renewal with a change).
Shown: a change the cache lacks is newer than the stored token, so that the next listing brings it;
a request for a sync is followed by a listing begun after it; there is always an open, admitted
channel, unless the one registered last ran out before another took over; cache and snapshot come to show a calendar at rest. Fairness: runs and
the renewal job are started and end, leases pass, announcements arrive, the sweep comes round.

`NothingMissedOnTime`, `EveryRequestIsRead` and `MirrorCatchesUp` except behaviours in which a run
commits after it lost its job (`late`): the commit checks neither lease nor base token, so that after
a run slower than its 170 s lease a third one may store a newer token over an older cache. One
connection is modelled; contents are numbers of changes; the classification of busy times and the
contents of occurrences are left out; retry delays are any moment.

## WebClient: a press and what it is told

`Endpoints`, `FamilyEndpoints` and `SettingsEndpoints` say what each Edge Function, with the command it
calls, answers to a body: a code and the row afterwards. `TaskScreens`, `ShoppingScreens`,
`FamilyScreens`, `SettingsScreens` and `ConciergeScreens` say which commands a screen offers for the
row it shows, and under which logical key. `WebClient` is the machinery around them: a press prepares
an attempt (`commandAttempt.ts`), which is run (`Send`, `NotSent` for want of a session, `Lost` past the
deadline), handled by the server with its receipts (`Process`), and settled from the answer
(`AnswerDone`, `AnswerRejected`, `AnswerUnknown`); loads of the list overtake each other (`StartLoad`,
`ReadLoad`, `EndLoad`), the list is left, the page is loaded again or its tab closed, a day passes
(`Expire`), and the partner acts (`Elsewhere`). `forms` is what a mounted form or a concierge candidate
keeps. `doubt` and `again` record what the user does not know and what was pressed again, and whether
the page still had the operation of the first press (`Remembered`).

| Run | Instance | Shows |
|---|---|---|
| `client` | 50 scenes: a screen, a row, two or three presses, up to two troubles and partner's commands, a load | success told is the success of that press; a press repeated in doubt acts once; an undo takes back its own record; a success is not an old receipt's |
| `client_twice` | an addition pressed three times | the client forgets an operation in doubt (see Findings) |

Three presses are one in doubt, its repetition and one more; a scene has one row, since keys and
receipts of different rows never meet, and one screen, since attempts of different screens have
different keys. Check items and texts are interchangeable, hence the symmetry.

The properties say what they except: `SameWishOnce` commands without a revision whose attempt the
client has lost; `UndoHitsOwnRecord` shopping, where an undo compares only the status and may take back the
partner's purchase; `SuccessIsFresh` the screens whose keys name no revision, where a kept attempt
may be answered by an old receipt. Seen without a run: a payload that varies under a fixed key is
refused for a day; an expired attempt gives its operation id to the next payload; codes missing from
the client's list are taken for an unknown outcome; many handlers make a fresh id at every press, and
two commands of the nursery review carry none; the batch undo stops at the first refusal, where
`docs/requirements/FAMILY-OPS-REQUIREMENTS-UX-BASELINE.md:1776` speaks of all; undoing a completed
checklist is always refused; loads of shopping, requests and check-in have no sequence guard; a form
of the set-up edited after an unknown outcome is refused until it is mounted anew.

Simplifications: a check-in scene is a session with other items open; reconciling a check-in and its
undo are in `LineCommands`; a follow-up's terms are in `RequestAttempt`; the concierge holds one
candidate; leaving a list does not touch forms; the tabs of the household form count as a reload of it.

## RoutineSave: a save of several commands

The sheet of a routine sends up to four commands in one save and keeps them as a plan in
`sessionStorage`; the editor of the morning, also a step of the set-up, sends its commands anew at every
press. `plans` are the saves, `runs` those under way, `late` the requests given up that may still
arrive, `kept` the stored plans, `told` the saves the user was told are done, `dropped` those given up,
`overwritten` (a history the code does not have) the plans whose place in `sessionStorage` was taken by
a save that had outlived its sheet.
`save`, `saveStop`, `retry`, `review`, `OpenSheet`, `CloseSheet`, `LeavePage`, `Reload` and `CloseTab` are
what the adult does, `Send`, `Arrives`, `Advances`, `Saved`, `Rejected`, `NotSent` and `Lost` what happens
to a run.

| Run | Instance | Shows |
|---|---|---|
| `routine_save` | 3 routines, 8 households, up to 3 saves or presses and 3 troubles | what is told saved was carried out wholly and on one routine; commands take effect in their order with no gap, so that no routine is resumed before its schedule is installed; a routine is added twice only by someone who was told of the first, gave it up, lost the page, or had it overwritten |

The households: a routine edited while the other adult saves the same row; a stopped routine resumed with
other days; one locked to the school's calendar; a routine added twice, with and without storage, and
three times; the set-up pressed twice; a row added and the set-up left. The third routine and the third
addition are there for the last: a save left on its way, its plan finished from a new sheet, and the next
addition, over whose plan the late answer writes. `RoutinesAssumption` says that the routines are
finitely many (each is a row) and that the names of the model differ.

Seen without a run: a save still on its way when its sheet is left stores its plan (line 403, before the
sheet is asked for at line 405) over that of a newer addition; when that one fails, opening the sheet
resumes the old plan, and the routine is entered and added again, where `RoutineRoleEditor.test.tsx:226`
says a failed addition is resumed "without creating another definition": TLC shows it in a moment for
`NewOnceUnlessOverwritten` without `overwritten`, with the household that adds three times. Changing
only "optional" also sends `enabled: true` and so resumes a routine the partner has just stopped, where
`RoutineRoleEditor.test.tsx:124` speaks of saving only what changed; a load while the sheet is open has
untouched fields sent again with their old values; the editor of the morning sends all titles it has
read and thereby sets back the partner's; a set-up without rows cannot complete that step; pressing
"add" again after a lost answer in that editor makes a second routine.

## What is proved

`LineQuotaProofs` and `NotificationOutboxProofs` hold for every
number of rows, runs, months, ticks and budgets allowed by the assumptions of the modules,
`RequestAttemptProofs` for all tasks, deadlines, conversations and numbers of attempts, `GoogleProofs` for all sets of events, runs and channels, attempts and budgets,
`CalendarProofs` for all sets of runs, calendars and leases and all bounds on decisions and failures,
`RoutineSaveProofs` for all finite sets of routines and all households (`RoutinesAssumption`),
`LineWorkerProofs` for all members, events, runs, executions, attempts, tasks, items and stories,
`WebClientProofs` for all scenes, presses, boxes and texts, where a panel is opened on a row of its
kind (`ScenesAssumption`, which also bounds a scene's presses by `MaxPresses`).

- `QuotaTyping`, `CommitsCountOnce`, `HardCapHolds`, `BudgetsHold`. The invariant is the
  property itself with types; the work is in how a set of counted reservations and its
  cardinality change when one reservation does. The cap needs every admission to have compared
  at least the local count plus the open reservations, hence `CountedOnce`.
- `OutboxTyping`, and `OutboxImplementsQuota`: every step of delivery is a quota step or
  leaves the quota alone, so `Spec => QuotaSpec` and the budget theorems hold for delivery
  (`OutboxWithinHardCap`).
- `DeliveredAtMostOnce`. `NoDoubleDelivery` is not inductive: it says nothing of the claims
  runs hold. `KeyInv` adds that while a delivered row's key is usable the provider will
  remember it for the key's remaining time and a whole run's life more, and that a run holding
  a delivered row ends before the provider forgets it.
- `RowAndBudgetSettleAlike` and `SettledRowsStaySettled`. `SettlementInv` adds what a run knows
  at each call: before a push it has a reservation, before `complete` the provider took the
  message. `Moves` says how the status of a row and of its reservation may change together,
  and one lemma per action shows that it does.
- `RequestTyping`. `Typing` adds that a command was composed about an attempt that exists and
  with terms somebody wrote, and that a request has a status exactly when it has an attempt.
- `ClosedForGood` and `AgreedOnce`. `AttemptSteps` reduces all operations to five moves of the
  attempts. `OneAgreement` is not inductive: `Chain` adds that every proposal but the last has
  expired and that follow-ups only follow an agreement.
- `StatusTellsAttempts`. `RequestSteps` reduces all operations to six moves of the request row;
  an agreement stays, so a kept completion still rests on one.
- `ConsentIsInformed`. `Sights` ties what a party saw to the revisions that travel with its
  operation: equal terms revisions mean equal terms, and an equal request revision means the
  newest attempt while nothing is agreed. `Confirmations` says the same of the recorded
  confirmations, `Offers` of an attempt nobody has talked about. The theorem excludes id-only
  cards, for which it is false (`request_old_card`).
- `NeverConflicts`, `FollowsTask`, `AllTasksOrNone` and `NothingMovedBeneath`: the agreement and its
  tasks. `Linking` adds that the request is linked exactly while a proposal stands accepted, so a
  hand-over meets an unlinked request and happens once. `Scopes` adds what terms may be about, and
  that they stay about the same tasks while they are talked over, edited or proposed again;
  `Snapshots`, that terms have a task as it is or as it was; `TasksAge`, that whatever happens to a
  task but an edit by hand raises its revision: so at the moment of an agreement an equal revision
  means that nothing has happened. `FollowsTask` excludes checklists as the anchor, for which it is
  false: `CheckItem` reopens a task and leaves its request (a hazard on the list).
- `GoogleTypes` and `WatchIsUnbroken`. `Spends` says how much of the budgets a step spends, so that
  the counters stay within them; `JobHeld`, that a job is under way exactly while one run holds it.
  `ChannelsInUse` follows a channel from its opening to the end of its use: the old one is only
  retired when the new one is admitted, so a gap needs the one in use to have run out.
- `NothingIsMissed` and `RequestsAreRead`. Neither is inductive: they say nothing of the runs.
  `InThePast` adds that no record of a change is ahead of the calendar's clock, `OnTime` what a run
  that still holds its job has staged: its pages hold every change up to its next token that the
  cache lacks, and unless it was asked to start over it began after the last request.
- `TypesHold`, `OneRequest` and `Refinement` of the calendar mirror. That one write is on its way needs
  `Fenced`: a request is behind a fence of unknown outcome or of its sender, who waits for it or has
  given up. The refinement needs to know that what Google applies is no older than what it shows.
  `Ages` says so of the requests on their way; a new one keeps it because who may still write has
  content at least as new as all at that calendar (`HolderIsUpToDate`, `DeletionIsUpToDate`), and nothing
  there, nor any run or deletion, is newer than the decision of the row's last claim: a claim
  takes the newest decision under a new lease, a decision or a switch takes the lease from the row,
  and a mirror write waits until no deletion is open. `StepPromises` then maps a landed write to
  `Follow`, a household decision to `Decide` and every other step to a stutter.

- `SettledRowsAreTrue` (the mirror again): says nothing of who is about to settle the row, or to write
  where it says there is nothing. `Truth` adds that. An insert finds no event and is fenced; once its
  sender holds the row no more, nobody settles that fence and nobody gets leave there (`StuckKept`), so
  what a run found gone stays gone or is `Stuck` (`GoneKept`): the ghost the property excepts. A run told
  of its upsert is the last that wrote there (`LastWord`) and wrote what the family wants, since every
  decision that could change that takes the row from it (`UpsertsAreWanted`).

- `RoutineTypes`, `ToldIsSaved`, `CommandsInOrder` and `AddedOnce`: the saves of several commands.
  None is inductive: they say nothing of the places in plans that runs, late requests, sheets and the
  storage hold. `Progress` says of each that what comes before it was carried out, on the routine of
  the plan; receipts and plans only grow, so it lasts (`ProgressLasts`). `Orderly` says that every
  plan the editors build makes a routine first and installs schedules before it resumes one or
  concludes the set-up. `OneSave` ties a save to the sheet it was pressed in, `Additions` says that an
  addition is settled or the one the sheet would resume: the last fails when a
  late answer overwrites the newer plan, which had to be excepted.

- `ConfirmedIsExecuted` and `DoneIsDone`: neither is inductive, they say nothing of the executions
  under way. `DraftInv` adds that a row is confirmed once and keeps its content from then on, that an
  execution works on the content its row was confirmed with and a calendar its owner has chosen, and that each part of it which is not on
  the list of what is left has been made or was there before.
- `UndoSpares` and `AgreesToWhatWasShown`. `ObjectInv` says that whatever happens to a task raises its
  revision, so that a task known under the present revision is as it was known; that an operation has
  one answer; and that a member has one open question. None of these four looks at what the handlers
  plan: they hold whatever calls are made and whenever.
- `CorrectionsAreOrdered` and `LineTypes` do look at it. `LineInv` says of every call a run has still to
  make (`PlannedCall`) that a new row bears the event's own id, and that an edit is about a row of the
  sender and writes the event's own words, or what stood in the row when it was read. The second kind is
  the dangerous one. It stays harmless (`Retained`): while the event is under way under the run's lease it
  is the only one of its sender, so any other edit of the row is stamped with this very event, and the
  mark then refuses the run's own; the app and the preparing worker write no event's words. `MessageInv`
  says that a tap is about a row of the one who taps, and `InboxInv` that a lease token is never newer than
  the event's attempts, so that a lease once lost does not come back (`UnderwayBefore`).

- `SuccessWasAskedFor`. `SuccessIsYours` says nothing of requests on their way. `CallInv` adds that a
  press has one call, which runs what the press asked for, that a request with a caller is its
  caller's, and that an answer of success came from the receipt of that very operation.
- `RetryReusesOperation` and `WishIsGrantedOnce`: what is pressed again in doubt. Neither is inductive:
  they say nothing of what the page keeps. First, screen by screen, what each of the panels may send: an
  endpoint that belongs to it (`Fits`), under a key that settles endpoint and payload (`Determined`)
  and is kept as the screen keeps its keys (`Keyed`). `KeepInv` says the same of attempts, calls, requests
  and receipts, and `DoubtInv` that a wish whose operation is not forgotten is remembered, so that
  pressing it again finds the operation. Where it was forgotten a second one is sent; then the revision
  must save it. One lemma per group of endpoints (`GuardedLands`) shows that a command which names a
  revision is carried out at that revision only and moves the row to the next, so that once carried out its
  revision is past (`SpentInv`). Two are different: a follow-up is guarded by there being one already, a
  tick of a checklist by the box, which is ticked or not: it is carried out at its revision only if the
  box was as the user saw it, and for this every list on the screen or being loaded must be an old one
  or have the present ticks (`TickInv`).
- `UndoTakesBackItsOwn`. `RecordInv` says that a receipt of a record names a revision up to the row's, and
  that of the present one it is what the row was made by; `UndoInv` that an undo, on the screen or on its
  way, names the revision its record was answered with. What remains is that an operation sent as an undo
  was never landed as something else: `KeyInv` says that an operation belongs to one key, and that the
  keys of undos and of additions settle what is sent under them.
- `SuccessIsNews` (`SuccessIsFresh`). Most keys name the revision the button was shown with: `DatedInv` says
  that an operation under such a key is carried out at that revision or a later one, `SightInv` that
  what is shown is never ahead of the row, so a receipt that moved the row moved it beyond what is shown.
  Two kinds of keys name none. Additions leave the row as it is (`ReceiptInv`). And the end of a note is
  sent again as it was, but a note ends once and nothing moves it afterwards, so a screen that still
  shows it open shows it as it was before.

- `ClientTypes` (`TypeOK`): the row stays one of its panel's kind, whoever moves it, and what is kept, sent
  and recorded has the shape of what a panel sends. The types alone are not inductive: whether a command
  leaves a task a task depends on the panels sending a task only what is meant for one. So `Meant` says for
  each kind of row which commands are its own, one lemma per kind (`TaskKind`, `GoodsKind`, ...) that they keep
  it, and one per group of panels that nothing else is sent from there. The concierge is met by either
  kind and sends neither: its commands make rows of their own. And that a request still has its caller
  needs that there is one request of a call until the answer is in (`CallersOK`).

Only model-checked: liveness (`EveryRowSettles`, `ProposalsClose`, `EveryEventSettles`,
`ConfirmedSettles`, `MirrorCatchesUp`), which is out of the provers' reach. The invariants the proofs
use were checked with TLC on the runs' instances before they were proved. Several fields of one record are
always updated as `[f EXCEPT ![d] = [@ EXCEPT !.a = x, !.b = y]]` (with `f[d]` for `@` where x or y has an `@`
of its own): this release of tlapm translates `[f EXCEPT ![d].a = x, ![d].b = y]` to SMT as two claims
about the value at `d`, and confuses nested `@`s, neither of which is what they mean.

## Findings

Three disagreements between the code and what it says of itself, each with a run whose
counterexample shows it:

- `request_old_card`: a tap on an old card is consent to terms it did not show.
- `calendar_stuck`: a provider error after the leave was given leaves a fence in doubt that no run of
  the outbox resolves; the event is never written again.
- `client_twice`: an addition whose answer was lost, a second press that is not sent for want of a
  session, and a third press: the client has forgotten the first operation and adds a second time.

What the sections above list as seen without a run are steps of the models or parts of the code
left out of them, not claims that a run checks.

## Not modelled

- Retention cleanup and web push reminders: single passes over settled rows, and a second channel
  without a budget; the next parts to model.
- Dispatch, materialisation and reassignment of routine sessions; the calendar arithmetic of recurrence
  and holidays; the resolution of roles per day: single transactions over data.
- Quantities, templates and purchase details in shopping; reading values from images and sentences
  (what a model answers is a choice here); briefs and history, which change nothing.
- The wording and layout of messages, rendering, row-level security, web push subscriptions, the test
  simulation, and the ownership transfer of family events, which is not activated.
