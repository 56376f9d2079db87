--------------------------- MODULE PendingActions ---------------------------
(***************************************************************************)
(* What a member has asked for and not yet got: private.pending_actions,   *)
(* the server functions that create, edit, confirm and cancel a row, and   *)
(* process-pending-actions, which prepares unclear drafts and executes     *)
(* confirmed ones under a lease.                                           *)
(*                                                                         *)
(* A row is found by its operation id, which the LINE worker derives from  *)
(* the event and the way the event was understood: <<e, "understood">>,    *)
(* <<e, "text">> and <<e, "c1">> (a single candidate).  The candidates of  *)
(* a review have operation ids of their own, <<e, "c1">> and <<e, "c2">>;  *)
(* the candidates of a review row are executed under theirs.               *)
(*                                                                         *)
(* The content of a row is kept as its kind, the candidates' states and    *)
(* `by', who wrote it last: the event that made it, a later event, the app *)
(* or the preparing worker.  The one part that may change after the        *)
(* confirmation is apart: `calendar', whether an event is to be shown in   *)
(* the Google calendar.  It is "special" as written: a task that is no     *)
(* event is not offered the choice, and would otherwise be the same.       *)
(***************************************************************************)
EXTENDS LineInbox

CONSTANTS
  Job,            \* executions under way in overlapping runs of process-pending-actions
  MaxExecutions   \* MAX_ATTEMPTS: attempts after which a failed action is dead

ASSUME JobBounds == MaxExecutions \in Nat \ {0}

Candidate == {"c1", "c2"}
DraftId   == Event \X {"understood", "text", "c1"}
Op        == Event \X {"understood", "text", "c1", "c2"}
App       == -1
Worker    == -2

Simple == {"shopping", "task", "request"}   \* kinds with one effect of their own
Review == {"list", "review"}                \* several candidates: all to buy, or a mix
Kind   == Simple \cup Review \cup {"unclear"}
Past   == {"confirmed", "executing", "succeeded"}
Closed == {"succeeded", "cancelled", "expired", "dead"}

\* A candidate of a review; "undecided" has a duplicate nobody decided about.
CandidateState == {"none", "new", "missing", "undecided", "existing", "update", "separate", "cancelled"}
NoCandidates   == [c \in Candidate |-> "none"]

VARIABLES
  draft,    \* private.pending_actions
  prepare,  \* rows a run of processLineDrafts works on: what it read
  job,      \* executions under way
  made,     \* canonical_operation_receipts and their results
  consent   \* history: the content of a row when it was confirmed, none before; the
            \* `chosen' of a draft is the calendar then, and what was chosen since

pendingVars == <<draft, prepare, job, made, consent>>

NoContent == [kind |-> "none", by |-> 0, cand |-> NoCandidates]
NoDraft   == [status |-> "absent", content |-> NoContent, mark |-> 0, editing |-> FALSE, prep |-> "unread",
              born |-> 0, attempts |-> 0, lapsed |-> FALSE, wait |-> FALSE, overdue |-> FALSE,
              calendar |-> "special", chosen |-> {}]
NoJob     == [draft |-> <<>>, token |-> 0, content |-> NoContent, calendar |-> "special", todo |-> <<>>, pc |-> "idle"]

\* `asked' is the calendar_visibility of the command whose receipt is kept,
\* `calendar' that of the task now.
NotMade   == [state |-> "none", content |-> NoContent, asked |-> "special", calendar |-> "special"]

PendingInit ==
  /\ draft = [d \in DraftId |-> NoDraft]
  /\ prepare = [d \in DraftId |-> "no"]
  /\ job = [x \in Job |-> NoJob]
  /\ made = [op \in Op |-> NotMade]
  /\ consent = [d \in DraftId |-> {}]

Is(d, S)    == draft[d].status \in S
Owner(d)    == From(d[1])
Open(d)     == Is(d, {"draft"}) /\ ~draft[d].overdue
Active(c)   == {k \in Candidate : c.cand[k] \notin {"none", "cancelled"}}
OpsOf(d, c) == IF c.kind \in Review THEN {<<d[1], k>> : k \in Active(c)} ELSE {d}

-----------------------------------------------------------------------------
(***************************************************************************)
(* The server functions a handler or the app calls                         *)
(***************************************************************************)

\* server_tx_create_pending_action: the same operation id finds the same row,
\* whatever has become of it, and leaves it as it is.
CreatePending(d, content) ==
  /\ draft' = IF Is(d, {"absent"})
              THEN [draft EXCEPT ![d] = [NoDraft EXCEPT !.status = "draft", !.content = content,
                                                       !.born = Cardinality({f \in DraftId : ~Is(f, {"absent"})}) + 1]]
              ELSE draft
  /\ UNCHANGED <<prepare, job, made, consent>>

\* server_tx_confirm_pending_action: a second confirmation is no error.
CanConfirm(d) == Is(d, Past) \/ Open(d)
ConfirmPending(d) ==
  /\ CanConfirm(d)
  /\ draft' = IF Open(d) THEN [draft EXCEPT ![d] = [@ EXCEPT !.status = "confirmed",
                                                            !.chosen = draft[d].chosen \cup {draft[d].calendar}]]
              ELSE draft
  /\ consent' = IF Open(d) THEN [consent EXCEPT ![d] = {draft[d].content}] ELSE consent
  /\ UNCHANGED <<prepare, job, made>>

\* server_tx_cancel_pending_action: also a confirmed row no run has claimed.
CanCancel(d) == Is(d, {"draft", "confirmed", "cancelled"})
CancelPending(d) ==
  /\ CanCancel(d)
  /\ draft' = [draft EXCEPT ![d].status = "cancelled"]
  /\ UNCHANGED <<prepare, job, made, consent>>

\* server_tx_update_pending_action.  Whoever edits, the row must be open and
\* exactly one event of its owner must be under way; that event's timestamp
\* has to be newer than the last edit's, or the row is returned as it is.
\* Mutant: only a row that is closed is refused.
CanUpdateLate(d, content) ==
  /\ Is(d, {"draft", "confirmed"}) /\ content.kind # "unclear"
  /\ Cardinality({e \in Event : Live(e) /\ From(e) = Owner(d)}) = 1
CanUpdate(d, content) ==
  /\ Open(d) /\ content.kind # "unclear"
  /\ Cardinality({e \in Event : Live(e) /\ From(e) = Owner(d)}) = 1
\* Mutant: the edit that is handled last wins.
AnyEdit(d, e)   == Is(d, {"draft"})
LaterEdit(d, e) == e > draft[d].mark
UpdatePending(d, content, editing) ==
  /\ CanUpdate(d, content)
  /\ LET e == CHOOSE f \in Event : Live(f) /\ From(f) = Owner(d)
     IN  draft' = IF LaterEdit(d, e)
                  THEN [draft EXCEPT ![d] = [@ EXCEPT !.content = content, !.mark = e, !.editing = editing]]
                  ELSE draft
  /\ UNCHANGED <<prepare, job, made, consent>>

\* server_tx_undo_line_quick_shopping: before the worker has claimed the row
\* it is cancelled; afterwards what it made is taken off the list again.
CanUndo(d) == draft[d].content.kind \in {"shopping", "list"} /\ ~Is(d, {"absent", "executing"})
UndoQuickShopping(d) ==
  /\ CanUndo(d)
  /\ IF Is(d, {"draft", "confirmed", "cancelled"})
     THEN /\ draft' = [draft EXCEPT ![d].status = "cancelled"]
          /\ made' = made
     ELSE /\ made' = [op \in Op |-> IF op \in OpsOf(d, draft[d].content) /\ made[op].state = "made"
                                    THEN [made[op] EXCEPT !.state = "removed"] ELSE made[op]]
          /\ draft' = draft
  /\ UNCHANGED <<prepare, job, consent>>

\* server_tx_set_line_pending_calendar_visibility: the row of an event,
\* whatever its state, and the task itself if its execution has been completed.
CanChoose(d) == d \in {f \in DraftId : ~Is(f, {"absent"}) /\ draft[f].content.kind = "task"}
ChooseCalendar(d, v) ==
  /\ CanChoose(d)
  /\ draft' = [draft EXCEPT ![d] = [@ EXCEPT !.calendar = v, !.chosen = draft[d].chosen \cup {v}]]
  /\ made' = IF Is(d, {"succeeded"}) THEN [made EXCEPT ![d].calendar = v] ELSE made
  /\ UNCHANGED <<prepare, job, consent>>

\* server_tx_get_line_conversation_pending: the sender's newest row, after
\* the drafts that are overdue have been closed.
ExpireDrafts(s) ==
  /\ draft' = [d \in DraftId |-> IF draft[d].status = "draft" /\ draft[d].overdue /\ Owner(d) = s
                                 THEN [draft[d] EXCEPT !.status = "expired"] ELSE draft[d]]
  /\ UNCHANGED <<prepare, job, made, consent>>

-----------------------------------------------------------------------------
(***************************************************************************)
(* The app: its list of pending actions is read again every twenty seconds *)
(* and after each of its own calls, so a card may show an older state.     *)
(***************************************************************************)

AppStep(d) ==
  /\ \/ ~Is(d, {"absent"}) /\ draft[d].content.kind # "unclear" /\ ConfirmPending(d)
     \/ ~Is(d, {"absent"}) /\ CancelPending(d)
     \* The form sends the whole content, with the kind the card had.
     \/ \E k \in Simple : /\ draft[d].content.kind \in Simple
                          /\ UpdatePending(d, [kind |-> k, by |-> App, cand |-> NoCandidates], FALSE)
  /\ Spend("app") /\ UNCHANGED <<message, inbox, run, story>>

-----------------------------------------------------------------------------
(***************************************************************************)
(* process-pending-actions, first half: unclear drafts                     *)
(***************************************************************************)

\* server_tx_claim_line_draft_batch: rows not yet prepared, or claimed by a
\* run two minutes ago that has not come back.
ClaimDraft(d) ==
  /\ Open(d) /\ draft[d].content.kind = "unclear"
  /\ \/ draft[d].prep \in {"unread", "ready"}
     \/ draft[d].prep = "processing" /\ prepare[d] = "no"
  /\ draft' = [draft EXCEPT ![d].prep = "processing"]
  /\ prepare' = [prepare EXCEPT ![d] = "read"]
  /\ UNCHANGED <<inboxVars, job, made, consent>>

\* prepareDraft reads the text with the language model: a kind and a content
\* of its own, or nothing; then server_tx_prepare_line_pending_preview, which
\* asks only that the row is open, or _mark_line_pending_parse_failed.
PrepareDraft(d) ==
  /\ prepare[d] = "read"
  /\ \/ /\ Open(d)
        /\ \E k \in Simple :
             draft' = [draft EXCEPT ![d] = [@ EXCEPT !.content = [kind |-> k, by |-> Worker, cand |-> NoCandidates],
                                                     !.prep = "ready", !.editing = FALSE]]
        /\ prepare' = [prepare EXCEPT ![d] = "prepared"]
     \/ /\ draft' = IF Is(d, {"draft"}) THEN [draft EXCEPT ![d].prep = "parse_failed"] ELSE draft
        /\ prepare' = [prepare EXCEPT ![d] = "no"]
     \/ ~Open(d) /\ prepare' = [prepare EXCEPT ![d] = "no"] /\ draft' = draft
  /\ UNCHANGED <<inboxVars, job, made, consent>>

\* The preview is put in the outbox, then server_tx_mark_line_pending_previewed.
MarkPreviewed(d) ==
  /\ prepare[d] = "prepared"
  /\ draft' = IF Is(d, {"draft"}) THEN [draft EXCEPT ![d].prep = "previewed"] ELSE draft
  /\ prepare' = [prepare EXCEPT ![d] = "no"]
  /\ UNCHANGED <<inboxVars, job, made, consent>>

\* The run dies with the row claimed.
LoseDraftRun(d) ==
  /\ prepare[d] # "no" /\ Spend("trouble")
  /\ prepare' = [prepare EXCEPT ![d] = "no"]
  /\ UNCHANGED <<message, inbox, run, story, draft, job, made, consent>>

-----------------------------------------------------------------------------
(***************************************************************************)
(* process-pending-actions, second half: confirmed rows                    *)
(***************************************************************************)

\* server_tx_claim_pending_actions_batch: rows past their time are closed
\* first; an executing row whose lease is over is taken again.
Swept == [f \in DraftId |-> IF draft[f].status = "confirmed" /\ draft[f].overdue
                              THEN [draft[f] EXCEPT !.status = "expired"] ELSE draft[f]]
\* Mutant: a row whose worker died is not taken again.
DueOnce(d) == Is(d, {"confirmed"}) /\ ~draft[d].wait
Due(d)     == DueOnce(d) \/ (Is(d, {"executing"}) /\ draft[d].lapsed)
ClaimConfirmed(x, d) ==
  /\ job[x].pc = "idle" /\ ~draft[d].overdue /\ Due(d)
  /\ draft' = [Swept EXCEPT ![d] = [Swept[d] EXCEPT !.status = "executing", !.lapsed = FALSE,
                                                    !.wait = FALSE, !.attempts = @ + 1]]
  /\ job' = [job EXCEPT ![x] = [draft |-> d, token |-> draft[d].attempts + 1, content |-> draft[d].content,
                                calendar |-> draft[d].calendar, todo |-> <<>>, pc |-> "check"]]
  /\ UNCHANGED <<inboxVars, prepare, made, consent>>

\* Nothing to claim: the sweep is all the run does.
SweepOverdue ==
  /\ Swept # draft /\ draft' = Swept
  /\ UNCHANGED <<inboxVars, prepare, job, made, consent>>

\* A candidate that is still in the review, as one part of its execution.
PartOf(d, c, k) == IF k \in Active(c) THEN <<<<d[1], k>>>> ELSE <<>>

\* execute: an unclear row is no executable kind; a review needs active
\* candidates with nothing missing; then they are taken one after another.
StartExecution(x) ==
  LET c == job[x].content
      refused == \/ c.kind = "unclear"
                 \/ c.kind \in Review /\ (Active(c) = {} \/ \E k \in Active(c) : c.cand[k] = "missing")
  IN  /\ job[x].pc = "check"
      /\ job' = [job EXCEPT ![x] = [@ EXCEPT !.pc = IF refused THEN "failing" ELSE "execute",
                                             !.todo = IF refused THEN <<>>
                                                      ELSE IF c.kind \notin Review THEN <<job[x].draft>>
                                                      ELSE PartOf(job[x].draft, c, "c1") \o PartOf(job[x].draft, c, "c2")]]
      /\ UNCHANGED <<inboxVars, draft, prepare, made, consent>>

\* Mutant: what may be on the list already is left alone.
DecisionForUser(x) == IF job[x].content.kind \in Review
                      THEN LET c == job[x].content.cand[Head(job[x].todo)[2]] IN IF c = "undecided" THEN "existing" ELSE c
                      ELSE "new"
Decision(x) == IF job[x].content.kind \in Review THEN job[x].content.cand[Head(job[x].todo)[2]] ELSE "new"

\* One effect, or its recorded result when the operation was executed before.
Made(x) == IF made[Head(job[x].todo)].state = "none"
           THEN [made EXCEPT ![Head(job[x].todo)] = [state |-> "made", content |-> job[x].content,
                                                     asked |-> job[x].calendar, calendar |-> job[x].calendar]]
           ELSE made

\* The receipt is of another payload: IDEMPOTENCY_CONFLICT.
Conflict(x) == /\ Decision(x) \notin {"undecided", "existing"}
               /\ made[Head(job[x].todo)].state # "none" /\ made[Head(job[x].todo)].asked # job[x].calendar

ExecuteOp(x) ==
  /\ job[x].pc = "execute" /\ job[x].todo # <<>>
  /\ CASE Decision(x) = "undecided" \/ Conflict(x) -> job' = [job EXCEPT ![x].pc = "failing"] /\ made' = made
       [] Decision(x) = "existing" -> job' = [job EXCEPT ![x].todo = Tail(@)] /\ made' = made
       [] OTHER                    -> job' = [job EXCEPT ![x].todo = Tail(@)] /\ made' = Made(x)
  /\ UNCHANGED <<inboxVars, draft, prepare, consent>>

\* The call is refused, or its answer is lost after it took effect: both are
\* an error to the worker.
FailOp(x) ==
  /\ job[x].pc = "execute" /\ job[x].todo # <<>> /\ Decision(x) \notin {"undecided", "existing"}
  /\ Spend("trouble")
  /\ made' \in {made, Made(x)}
  /\ job' = [job EXCEPT ![x].pc = "failing"]
  /\ UNCHANGED <<message, inbox, run, story, draft, prepare, consent>>

HoldsDraft(x) == Is(job[x].draft, {"executing"}) /\ draft[job[x].draft].attempts = job[x].token

\* server_tx_complete_pending_action: only with the token of the claim.
CompleteJob(x) ==
  /\ job[x].pc = "execute" /\ job[x].todo = <<>>
  /\ draft' = IF HoldsDraft(x) THEN [draft EXCEPT ![job[x].draft] = [@ EXCEPT !.status = "succeeded", !.lapsed = FALSE]]
              ELSE draft
  /\ job' = [job EXCEPT ![x] = NoJob]
  /\ UNCHANGED <<inboxVars, prepare, made, consent>>

\* server_tx_fail_pending_action: again later, or dead.
FailJob(x) ==
  /\ job[x].pc = "failing"
  /\ LET d == job[x].draft
         last == draft[d].attempts >= MaxExecutions
     IN  draft' = IF HoldsDraft(x)
                  THEN [draft EXCEPT ![d] = [@ EXCEPT !.status = IF last THEN "dead" ELSE "confirmed",
                                                      !.lapsed = FALSE, !.wait = ~last]]
                  ELSE draft
  /\ job' = [job EXCEPT ![x] = NoJob]
  /\ UNCHANGED <<inboxVars, prepare, made, consent>>

CrashJob(x) ==
  /\ job[x].pc # "idle" /\ Spend("trouble")
  /\ job' = [job EXCEPT ![x] = NoJob]
  /\ UNCHANGED <<message, inbox, run, story, draft, prepare, made, consent>>

Executing(d) == \E x \in Job : job[x].draft = d /\ job[x].token = draft[d].attempts

DraftLeaseLapses(d) ==
  /\ Is(d, {"executing"}) /\ ~draft[d].lapsed
  /\ draft' = [draft EXCEPT ![d].lapsed = TRUE]
  /\ IF Executing(d) THEN story.late /\ Spend("trouble") ELSE UNCHANGED left
  /\ UNCHANGED <<message, inbox, run, story, prepare, job, made, consent>>

\* next_attempt_at comes; expires_at passes.
ExecutionDue(d) ==
  /\ Is(d, {"confirmed"}) /\ draft[d].wait
  /\ draft' = [draft EXCEPT ![d].wait = FALSE]
  /\ UNCHANGED <<inboxVars, prepare, job, made, consent>>

TimePasses(d) ==
  /\ story.overdue /\ Is(d, {"draft", "confirmed", "executing"}) /\ ~draft[d].overdue
  /\ draft' = [draft EXCEPT ![d].overdue = TRUE]
  /\ UNCHANGED <<inboxVars, prepare, job, made, consent>>

PendingStep ==
  \/ \E d \in DraftId : \/ AppStep(d) \/ ClaimDraft(d) \/ PrepareDraft(d) \/ MarkPreviewed(d) \/ LoseDraftRun(d)
                        \/ DraftLeaseLapses(d) \/ ExecutionDue(d) \/ TimePasses(d)
                        \/ \E x \in Job : ClaimConfirmed(x, d)
  \/ \E x \in Job : StartExecution(x) \/ ExecuteOp(x) \/ FailOp(x) \/ CompleteJob(x) \/ FailJob(x) \/ CrashJob(x)
  \/ SweepOverdue

JobStep(x) == \/ \E d \in DraftId : ClaimConfirmed(x, d)
              \/ StartExecution(x) \/ ExecuteOp(x) \/ CompleteJob(x) \/ FailJob(x)
DraftClock == \E d \in DraftId : ExecutionDue(d) \/ (~Executing(d) /\ DraftLeaseLapses(d))

\* Runs are started again and again, by cron and by a kick; the calls end and
\* time passes.  A row past its time whose run is gone is never taken again.
workVars == <<inboxVars, pendingVars>>
PendingFairness ==
  /\ \A x \in Job : WF_workVars(JobStep(x))
  /\ WF_workVars(DraftClock) /\ WF_workVars(SweepOverdue)
=============================================================================
