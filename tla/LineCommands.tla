---------------------------- MODULE LineCommands ----------------------------
(***************************************************************************)
(* What a LINE message or button does at once, without a draft: a task is  *)
(* completed, recorded as not done or reopened, claimed, released or taken *)
(* over, given an owner; a shopping item is bought, put back or claimed; a *)
(* whole routine session is answered; the driver of a day is changed.      *)
(*                                                                         *)
(* Each is one server function with an operation id whose result is kept:  *)
(* the same operation of the same member again returns the recorded result *)
(* and changes nothing.  A button carries the revision its card showed.    *)
(* The operation id is derived from the event, except that a report about  *)
(* a whole day uses the day and the task.                                  *)
(***************************************************************************)
EXTENDS LineInbox

CONSTANTS
  Task,         \* whole tasks of the household for one day
  ShoppingItem, \* items of the shopping list
  MaxRevision   \* bound: changes of one task or item

Target == Task \cup ShoppingItem
Nobody == "nobody"
Owner0 == Sender \cup {"anyone", "unassigned"}

ASSUME TargetAssumption == /\ Task \cap ShoppingItem = {} /\ IsFiniteSet(Task) /\ IsFiniteSet(ShoppingItem)
                           /\ MaxRevision \in Nat \ {0}

VARIABLES
  object,   \* task_instances and shopping_items
  receipt,  \* mutation receipts and canonical operation receipts, with their results
  button,   \* the buttons in the chats, old cards included
  answered, \* routine_reconciliation_operations with their snapshots
  preview,  \* line_transport_assignment_previews, by the event that prepared them
  reported  \* history: what was told to be completed, for which event

commandVars == <<object, receipt, button, answered, preview, reported>>

ObjectStatus == {"open", "done", "not_done", "cancelled"}
NoPreview    == [status |-> "none", by |-> Nobody, target |-> Nobody, to |-> Nobody,
                 shown |-> [status |-> "open", revision |-> 0, owner |-> "anyone", claimant |-> Nobody, waiting |-> FALSE]]

CommandInit ==
  /\ object = [t \in Target |-> [status |-> "open", revision |-> 1, owner |-> story.owner[t],
                                 claimant |-> Nobody, waiting |-> FALSE]]
  /\ receipt = {} /\ button = {} /\ answered = {} /\ reported = {}
  /\ preview = [e \in Event |-> NoPreview]

-----------------------------------------------------------------------------
(* One task or item *)

MineOrFree(c) == object[c.target].owner = "anyone" => object[c.target].claimant \in {c.by, Nobody}
Unclaimed(o)  == [o EXCEPT !.claimant = Nobody]

\* What each server function asks of the row, besides the revision.
Needs(c) ==
  LET o == object[c.target]
  IN  CASE c.action = "complete"      -> o.status = "open" /\ MineOrFree(c)
        [] c.action = "purchase"      -> o.status = "open" /\ MineOrFree(c) /\ o.owner \in {"anyone", "unassigned", c.by}
        [] c.action = "not_done"      -> o.status = "open"
        [] c.action \in {"reopen", "unbuy"} -> o.status = "done"
        [] c.action = "not_done_undo" -> o.status = "not_done"
        [] c.action = "claim"    -> o.status = "open" /\ o.owner = "anyone" /\ o.claimant = Nobody
        [] c.action = "release"  -> o.status = "open" /\ o.owner = "anyone" /\ o.claimant = c.by
        [] c.action = "takeover" -> o.status = "open" /\ o.owner = "anyone" /\ o.claimant \notin {Nobody, c.by}
        [] c.action \in {"take", "leave_open"} -> o.status = "open" /\ o.owner = "unassigned"
        \* "wait" and "resume": server_tx_set_task_waiting takes no p_source, the
        \* call names no function.
        [] OTHER -> FALSE

\* What it leaves.
Leaves(c) ==
  LET o == [object[c.target] EXCEPT !.revision = @ + 1]
  IN  CASE c.action \in {"complete", "purchase"} -> [Unclaimed(o) EXCEPT !.status = "done", !.waiting = FALSE]
        [] c.action = "not_done"           -> [Unclaimed(o) EXCEPT !.status = "not_done", !.waiting = FALSE]
        [] c.action \in {"reopen", "unbuy", "not_done_undo"} -> [o EXCEPT !.status = "open"]
        [] c.action \in {"claim", "takeover"} -> [o EXCEPT !.claimant = c.by]
        [] c.action = "release"            -> Unclaimed(o)
        [] c.action = "take"               -> [Unclaimed(o) EXCEPT !.owner = c.by]
        [] c.action = "leave_open"         -> [Unclaimed(o) EXCEPT !.owner = "anyone"]

Recorded(c) == {r \in receipt : r.by = c.by /\ r.op = c.op}
Result(c)   == CHOOSE r \in Recorded(c) : TRUE
Replayed(c) == \E r \in Recorded(c) : r.action = c.action /\ r.target = c.target

\* A revision of 0 stands for a command that carries none.
Fresh(c)    == /\ Recorded(c) = {}
               /\ Needs(c)
               /\ c.revision \in {0, object[c.target].revision}
               /\ object[c.target].revision < MaxRevision
Accepted(c) == Replayed(c) \/ Fresh(c)

Perform(c) ==
  /\ Accepted(c)
  /\ IF Replayed(c) THEN UNCHANGED <<object, receipt>>
     ELSE /\ object' = [object EXCEPT ![c.target] = Leaves(c)]
          /\ receipt' = receipt \cup {[by |-> c.by, op |-> c.op, action |-> c.action, target |-> c.target,
                                       revision |-> object'[c.target].revision]}
  /\ UNCHANGED <<answered, preview>>

Button(s, action, t, revision) ==
  [by |-> s, action |-> action, target |-> t, revision |-> revision,
   seen |-> IF t \in Target THEN object[t] ELSE NoPreview.shown]

-----------------------------------------------------------------------------
(* A whole routine session *)

\* server_tx_reconcile_routine_session_v2, "all done": the open tasks of the
\* session that wait for nothing; completed are those the member has to do.
InSession      == {t \in Task : object[t].status = "open" /\ ~object[t].waiting}
OwnOf(s, S)    == {t \in S : object[t].owner = s \/ object[t].claimant = s}
AnsweredBy(op) == {r \in answered : r.op = op}
CanAllDone(c)  == \/ AnsweredBy(c.op) # {}
                  \/ InSession # {} /\ \A t \in OwnOf(c.by, InSession) : object[t].revision < MaxRevision
AllDone(c) ==
  /\ CanAllDone(c)
  /\ IF AnsweredBy(c.op) # {} THEN UNCHANGED <<object, answered>>
     ELSE /\ object' = [t \in Target |-> IF t \in OwnOf(c.by, InSession)
                                         THEN [object[t] EXCEPT !.status = "done", !.claimant = Nobody, !.revision = @ + 1]
                                         ELSE object[t]]
          /\ answered' = answered \cup {[op |-> c.op, by |-> c.by, tasks |-> InSession, before |-> object,
                                         after |-> object', undone |-> FALSE]}
  /\ UNCHANGED <<receipt, preview>>

\* server_tx_undo_routine_reconciliation: every task the answer recorded must
\* be as the answer left it; then each is as it was, under a new revision.
\* The claims of the tasks are not among what is kept.
\* Mutant: the status is compared, the revision is not.
CanUndoStatus(c) ==
  \E r \in answered : /\ r.op = c.undoes /\ r.by = c.by /\ ~r.undone
                      /\ \A t \in r.tasks : object[t].status = r.after[t].status /\ object[t].revision < MaxRevision
CanUndoAll(c) ==
  \E r \in answered : /\ r.op = c.undoes /\ r.by = c.by /\ ~r.undone
                      /\ \A t \in r.tasks : /\ object[t].revision = r.after[t].revision /\ object[t].status = r.after[t].status
                                            /\ object[t].revision < MaxRevision
UndoAll(c) ==
  /\ CanUndoAll(c)
  /\ LET r == CHOOSE x \in answered : x.op = c.undoes
     IN  /\ object' = [t \in Target |-> IF t \in r.tasks
                                        THEN [object[t] EXCEPT !.status = r.before[t].status, !.waiting = r.before[t].waiting,
                                                               !.revision = @ + 1]
                                        ELSE object[t]]
         /\ answered' = (answered \ {r}) \cup {[r EXCEPT !.undone = TRUE]}
  /\ UNCHANGED <<receipt, preview>>

-----------------------------------------------------------------------------
(* The driver of a day: prepared, shown, confirmed *)

\* server_tx_prepare_line_transport_assignment_v1: the member's open preview
\* is superseded.
CanPrepare(c) == \/ preview[c.event].status # "none"
                 \/ /\ c.target \in Task
                    /\ object[c.target].status = "open" /\ object[c.target].revision = c.revision
                    /\ object[c.target].owner # c.to
Prepare(c) ==
  /\ CanPrepare(c)
  /\ preview' = IF preview[c.event].status # "none" THEN preview
                ELSE [e \in Event |->
                        IF e = c.event THEN [status |-> "draft", by |-> c.by, target |-> c.target, to |-> c.to,
                                             shown |-> object[c.target]]
                        ELSE IF preview[e].by = c.by /\ preview[e].status = "draft"
                             THEN [preview[e] EXCEPT !.status = "superseded"] ELSE preview[e]]
  /\ UNCHANGED <<object, receipt, answered>>

\* server_tx_decide_line_transport_assignment_v1: an agreement is applied
\* only to the task as it was shown; a second tap finds the result.
\* Mutant: the task need only be open and have the owner it had.
CanDecideByOwner(c) ==
  LET p == preview[c.event]
      o == object[p.target]
  IN  \/ p.status = c.decision
      \/ /\ p.status = "draft"
         /\ c.decision = "succeeded" => o.owner = p.shown.owner /\ o.status = "open" /\ o.revision < MaxRevision
CanDecide(c) ==
  LET p == preview[c.event]
      o == object[p.target]
  IN  \/ p.status = c.decision
      \/ /\ p.status = "draft"
         /\ c.decision = "succeeded" => /\ o.owner = p.shown.owner /\ o.revision = p.shown.revision
                                        /\ o.status = "open" /\ o.revision < MaxRevision
Decide(c) ==
  /\ CanDecide(c)
  /\ preview' = [preview EXCEPT ![c.event].status = c.decision]
  /\ LET p == preview[c.event]
     IN  object' = IF c.decision = "succeeded" /\ p.status = "draft"
                   THEN [object EXCEPT ![p.target] = [Unclaimed(object[p.target]) EXCEPT !.owner = p.to, !.revision = @ + 1]]
                   ELSE object
  /\ UNCHANGED <<receipt, answered>>

-----------------------------------------------------------------------------
\* The answer: what was done is told.  An undo button is bound to the revision
\* of the result, also of a replayed one; the undo of "not done" carries none.
Inverse1 == [complete |-> "reopen", purchase |-> "unbuy", not_done |-> "not_done_undo"]
Offered(c) ==
  CASE c.rpc = "reply"    -> c.buttons
    [] c.rpc = "all_done" -> {Button(c.by, "undo_all", c.op, 0)}
    [] c.rpc = "prepare"  -> IF preview'[c.event].status = "draft" /\ preview'[c.event].shown.revision = c.revision
                             THEN {Button(c.by, a, <<"driver", c.event>>, 0) : a \in {"agree", "disagree"}} ELSE {}
    [] c.rpc = "command"  -> IF c.quiet \/ c.action \notin DOMAIN Inverse1 THEN {}
                             ELSE {Button(c.by, Inverse1[c.action], c.target,
                                          IF c.action = "not_done" THEN 0
                                          ELSE IF Replayed(c) THEN Result(c).revision
                                          ELSE object[c.target].revision + 1)}
Answer(c, e) ==
  /\ button' = button \cup Offered(c)
  /\ reported' = IF c.rpc # "command" \/ c.quiet THEN reported
                 ELSE reported \cup {[event |-> e, target |-> c.target, action |-> c.action]}

-----------------------------------------------------------------------------
\* The other screens change the same tasks and items.
HouseholdStep ==
  /\ \E t \in Target, s \in Sender :
       LET o == [object[t] EXCEPT !.revision = @ + 1]
       IN  /\ object[t].revision < MaxRevision /\ object[t].status # "cancelled"
           /\ object' \in {[object EXCEPT ![t] = x] :
                             x \in {[Unclaimed(o) EXCEPT !.status = what] : what \in ObjectStatus \ {object[t].status}}
                                   \cup (IF o.status = "open" THEN {[Unclaimed(o) EXCEPT !.owner = s]} ELSE {})
                                   \cup (IF o.status = "open" /\ o.owner = "anyone" THEN {[o EXCEPT !.claimant = s]} ELSE {})
                                   \cup (IF o.status = "open" /\ t \in Task THEN {[o EXCEPT !.waiting = ~@]} ELSE {})}
  /\ Spend("household") /\ UNCHANGED <<message, inbox, run, story, receipt, button, answered, preview, reported>>
=============================================================================
