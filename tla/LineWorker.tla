----------------------------- MODULE LineWorker -----------------------------
(***************************************************************************)
(* process-line-inbox: what the worker makes of an event.  A handler reads *)
(* the state once (Read) and then makes its server calls one by one        *)
(* (CallServer); anything may happen in between.  Whatever the language    *)
(* model answers is possible, and another answer when the event is         *)
(* handled again, so the handlers below are sets of call sequences.        *)
(*                                                                         *)
(* A call that is refused is logged and answered with a sentence; the      *)
(* event is done all the same.  `otherwise' says how the handler goes on:  *)
(* it stops, takes the next call, or tries the phrase handlers.            *)
(***************************************************************************)
EXTENDS PendingActions, LineCommands

\* The buttons that carry a command or what it is about.
Taps == {"reopen", "unbuy", "not_done_undo", "claim", "release", "takeover", "ask_takeover", "take", "leave_open",
         "wait", "resume", "answer_all", "undo_all", "agree", "disagree"}
Words == {"item", "list", "starter", "fix", "drop",
          "confirm", "hidden", "special", "cancel", "edit", "change", "kind", "cancel_candidate", "resolve", "undo_add",
          "done", "missed", "all_done", "bought", "complete", "purchase", "purchase_all",
          "waiting", "claims", "routine", "decide", "driver"} \cup Taps
ASSUME StoriesAssumption == Stories \subseteq Story(Words, [Target -> Owner0])

vars == <<inboxVars, pendingVars, commandVars>>

Init == InboxInit /\ PendingInit /\ CommandInit

-----------------------------------------------------------------------------
(***************************************************************************)
(* Calls                                                                   *)
(***************************************************************************)

DraftCall(rpc, d, content, editing, otherwise) ==
  [rpc |-> rpc, d |-> d, content |-> content, editing |-> editing, otherwise |-> otherwise]
Create(d, content)          == DraftCall("create", d, content, FALSE, "stop")
Confirm(d)                  == DraftCall("confirm", d, NoContent, FALSE, "stop")
Cancel(d)                   == DraftCall("cancel", d, NoContent, FALSE, "stop")
Update(d, content, editing) == DraftCall("update", d, content, editing, "stop")
UndoAdd(d)                  == DraftCall("undo", d, NoContent, FALSE, "stop")
SetCalendar(d, v)           == [rpc |-> "calendar", d |-> d, to |-> v, otherwise |-> "stop"]

Command(s, op, action, target, revision, quiet) ==
  [rpc |-> "command", by |-> s, op |-> op, action |-> action, target |-> target, revision |-> revision,
   quiet |-> quiet, otherwise |-> "next"]

\* A card with buttons, about what was read a moment ago.
Reply(buttons) == [rpc |-> "reply", buttons |-> buttons, otherwise |-> "stop"]

Content(k, e)     == [kind |-> k, by |-> e, cand |-> NoCandidates]
ReviewOf(k, e, c) == [kind |-> k, by |-> e, cand |-> c]

-----------------------------------------------------------------------------
(***************************************************************************)
(* Free text that makes a draft                                            *)
(***************************************************************************)

\* Plain shopping skips the confirmation: confirmed at once, with a button
\* that takes it back.
QuickAdd(d) == <<Confirm(d)>>
AndQuickAdd(d, quick) == IF quick THEN QuickAdd(d) ELSE <<>>

\* The model's draft goes into the row as it is.
UnderstoodDraft(e, kinds) ==
  {<<Create(<<e, "understood">>, Content(k, e))>> \o AndQuickAdd(<<e, "understood">>, k = "shopping") : k \in kinds}

\* The candidates the text is taken apart into; one may lack something or
\* look like something that exists.
Candidates == {c \in [Candidate -> {"new", "missing", "undecided", "none"}] : c["c1"] # "none"}
Complete2(c) == \A k \in Candidate : c[k] = "new"

MultiIntentReview(e, readings) ==
  {<<Create(<<e, "text">>, ReviewOf(k, e, c))>> \o AndQuickAdd(<<e, "text">>, k = "list" /\ Complete2(c)) :
     k \in Review, c \in readings}

\* A single complete candidate becomes a row under the candidate's own id;
\* one that is not complete becomes a review of one.
SingleCandidate(e, kinds) ==
  {<<Create(<<e, "c1">>, Content(k, e))>> \o AndQuickAdd(<<e, "c1">>, k = "shopping") : k \in kinds}
    \cup MultiIntentReview(e, {c \in Candidates : c["c2"] = "none" /\ c["c1"] # "new"})

\* A menu word ("a task", "an event"): a row without a title, which the next
\* message names.
BeginClarification(d, k, e) == Update(d, Content(k, e), TRUE)
Starter(e) == {<<Create(<<e, "text">>, Content("unclear", e)), BeginClarification(<<e, "text">>, k, e)>> : k \in Simple}

-----------------------------------------------------------------------------
(***************************************************************************)
(* Free text about a draft                                                 *)
(***************************************************************************)

Mine(s)   == {d \in DraftId : ~Is(d, {"absent"}) /\ Owner(d) = s}
Newest(s) == {d \in Mine(s) : \A f \in Mine(s) : draft[f].born <= draft[d].born}
Editing(s) == {d \in Mine(s) : Open(d) /\ draft[d].editing}

CancelCandidate(d, k) ==
  LET c == [draft[d].content EXCEPT !.cand[k] = "cancelled"]
  IN  <<Update(d, c, draft[d].editing)>> \o IF Active(c) = {} THEN <<Cancel(d)>> ELSE <<>>

\* A correction or a cancellation in words, about the sender's newest row.
\* A row that is not a draft any more is only named; a review loses one
\* candidate if the words name one.
AboutRow(e, drop, d) ==
  IF ~Is(d, {"draft"}) THEN {<<>>}
  ELSE IF draft[d].content.kind \in Review
       THEN {<<>>} \cup IF drop THEN {CancelCandidate(d, k) : k \in Active(draft[d].content)} ELSE {}
  ELSE IF drop THEN {<<Cancel(d)>>}
  ELSE {<<Update(d, [draft[d].content EXCEPT !.by = e], FALSE)>>}
PendingReferent(e, drop) == UNION {AboutRow(e, drop, d) : d \in Newest(From(e))}

\* The text edits a row whose card asked for it (the last one; here any).
ApplyTextEdit(e) ==
  {<<Update(d, Content(k, e), FALSE)>> : d \in Editing(From(e)), k \in Simple} \cup {<<>>}

\* The model edits the newest draft; when that is refused the phrase handlers
\* get the message.
OpenNewest(s) == {d \in Newest(s) : Open(d)}
UnderstoodEdit(e) ==
  {<<[Update(d, Content(k, e), FALSE) EXCEPT !.otherwise = "fallback"]>> :
     d \in {f \in OpenNewest(From(e)) : draft[f].content.kind \notin Review}, k \in Simple}
UnderstoodCancel(e) == {<<Cancel(d)>> : d \in OpenNewest(From(e))}

-----------------------------------------------------------------------------
(***************************************************************************)
(* Buttons on a card                                                       *)
(***************************************************************************)

\* getEditablePending: an open row, or the answer that it is settled.
Tapped(e, plans(_)) == IF Open(message[e].target) THEN plans(message[e].target) ELSE {<<>>}

ClarifyKind(e, d)  == {<<BeginClarification(d, k, e)>> : k \in Simple}
EditPending(e, d)  == {<<Update(d, draft[d].content, TRUE)>>}
\* Nothing changes when the row has no kind yet, or nobody has the role named.
ChangePending(e, d) ==
  {<<>>} \cup {<<Update(d, Content(k, e), FALSE)>> : k \in IF draft[d].content.kind \in Simple THEN Simple ELSE {}}
CancelOne(e, d) == IF draft[d].content.kind \in Review
                   THEN {CancelCandidate(d, k) : k \in {c \in Candidate : draft[d].content.cand[c] # "none"}} ELSE {<<>>}

\* Only a candidate with a match; one that was cancelled stays cancelled.
ResolveDuplicate(e, d) ==
  {<<>>} \cup {<<Update(d, [draft[d].content EXCEPT !.cand[k] = decision], draft[d].editing)>> :
                 k \in {c \in Candidate : draft[d].content.cand[c] \in {"undecided", "existing", "update", "separate"}},
                 decision \in {"existing", "update", "separate"}}

-----------------------------------------------------------------------------
(***************************************************************************)
(* Messages and buttons that act at once                                   *)
(***************************************************************************)

\* The task, item or button a tap is about.
Tapped1(e) == message[e].target[1]

OpenTasks == {t \in Task : object[t].status = "open"}
OpenItems == {i \in ShoppingItem : object[i].status = "open"}
Each(S, call(_)) == LET order == SetToSeq(S) IN [i \in DOMAIN order |-> call(order[i])]

CompleteTask(e, route, t) == Command(From(e), <<route, e, t>>, "complete", t, 0, FALSE)
CouldNotDo(e, t) == Command(From(e), <<"understand", e, t>>, "not_done", t, 0, FALSE)
Purchase(e, route, i, quiet) == Command(From(e), <<route, e, i>>, "purchase", i, object[i].revision, quiet)
PurchaseAll(e, S) == Each(S, LAMBDA i : Purchase(e, "shopping", i, TRUE))

\* A short report: the one open task it fits, or a question which one.
CompletionReport(e) == {<<CompleteTask(e, "report", t)>> : t \in OpenTasks} \cup {<<>>}

\* A report about the whole day: every open task, or every one but one.  The
\* operation id is that of the day and the task, whoever reports and when.
DayCompletion(e) ==
  {Each(S, LAMBDA t : [CompleteTask(e, "day", t) EXCEPT !.op = <<"day", 0, t>>]) :
     S \in {OpenTasks} \cup {OpenTasks \ {t} : t \in OpenTasks}}

\* What the model names: one item under the event's own id, several as a batch.
MarkBought(e) == {<<Purchase(e, "understand", i, FALSE)>> : i \in OpenItems}
PurchaseReport(e) == {<<>>, PurchaseAll(e, OpenItems)} \cup {<<Purchase(e, "shopping", i, FALSE)>> : i \in OpenItems}

\* The button names the item; its revision is read now.
PurchaseById(e) == IF Tapped1(e) \in OpenItems THEN {<<Purchase(e, "postback", Tapped1(e), FALSE)>>}
                   ELSE {<<>>}

\* A button's own command: it carries the revision its card showed.
Tap(e, route) == LET b == Tapped1(e)
                 IN  {<<Command(From(e), <<route, e>>, b.action, b.target, b.revision, FALSE)>>}
SetWaiting(e)       == Tap(e, "line-waiting")
AssignUnassigned(e) == Tap(e, "line-unassigned-assignment")
MutateClaim(e)      == Tap(e, IF Tapped1(e).target \in Task THEN "line-task-anyone" ELSE "line-shopping")
TakeBack(e)         == Tap(e, "line-postback")

\* The lists of lineMustComplete.ts: waiting, what anyone may do, the routine
\* session, and (lineAssignmentFlow.ts) what has nobody to do it.
Cards(s, S, actionOf(_)) == {<<Reply({Button(s, actionOf(t), t, object[t].revision) : t \in S})>>}
OpenWaiting(e) == Cards(From(e), OpenTasks, LAMBDA t : IF object[t].waiting THEN "resume" ELSE "wait")
ClaimAction(s, t, other) == CASE object[t].claimant = Nobody -> "claim"
                              [] object[t].claimant = s      -> "release"
                              [] OTHER                       -> other
OpenShopping(e) == Cards(From(e), {i \in OpenItems : object[i].owner = "anyone"},
                         LAMBDA i : ClaimAction(From(e), i, "takeover"))
OpenAnyoneTasks(e) == Cards(From(e), {t \in OpenTasks : object[t].owner = "anyone"},
                            LAMBDA t : ClaimAction(From(e), t, "ask_takeover"))
OpenReconciliation(e) == {<<Reply({Button(From(e), "answer_all", <<"session", 0>>, 0)})>>}
OpenAssignmentDecision(e) ==
  LET S == {t \in OpenTasks : object[t].owner = "unassigned"}
  IN  {<<Reply({Button(From(e), a, t, object[t].revision) : t \in S, a \in {"take", "leave_open"}})>>}

\* A takeover of a task is asked about again, if the task is as the card showed it.
PromptTakeover(e) ==
  LET b == Tapped1(e)
      o == object[b.target]
  IN  IF /\ o.revision = b.revision /\ o.status = "open" /\ o.owner = "anyone" /\ o.claimant \notin {Nobody, From(e)}
      THEN {<<Reply({Button(From(e), "takeover", b.target, o.revision)})>>} ELSE {<<>>}

\* The whole session, and its undo.
AnswerAll(e)  == {<<[rpc |-> "all_done", by |-> From(e), op |-> <<"reconcile", e>>, otherwise |-> "stop"]>>}
UndoAnswer(e) == {<<[rpc |-> "undo_all", by |-> From(e), undoes |-> Tapped1(e).target, otherwise |-> "stop"]>>}

\* The driver of a day: the task the words name, as it is now.
OpenTransportPreview(e) ==
  {<<[rpc |-> "prepare", by |-> From(e), event |-> e, target |-> t, to |-> s, revision |-> object[t].revision,
      otherwise |-> "stop"]>> : t \in OpenTasks, s \in Sender}
DecideTransport(e) ==
  {<<[rpc |-> "decide", event |-> Tapped1(e).target[2], otherwise |-> "stop",
      decision |-> IF message[e].word = "agree" THEN "succeeded" ELSE "cancelled"]>>}

-----------------------------------------------------------------------------
(***************************************************************************)
(* Dispatch                                                                *)
(***************************************************************************)

\* handlePostback
Postback(e) ==
  CASE message[e].word = "confirm"          -> Tapped(e, LAMBDA d : {<<Confirm(d)>>})
    [] message[e].word = "cancel"           -> {<<Cancel(message[e].target)>>}
    [] message[e].word = "undo_add"         -> {<<UndoAdd(message[e].target)>>}
    [] message[e].word \in {"hidden", "special"} -> {<<SetCalendar(message[e].target, message[e].word)>>}
    [] message[e].word = "edit"             -> Tapped(e, LAMBDA d : EditPending(e, d))
    [] message[e].word = "change"           -> Tapped(e, LAMBDA d : ChangePending(e, d))
    [] message[e].word = "kind"             -> Tapped(e, LAMBDA d : ClarifyKind(e, d))
    [] message[e].word = "cancel_candidate" -> Tapped(e, LAMBDA d : CancelOne(e, d))
    [] message[e].word = "resolve"          -> Tapped(e, LAMBDA d : ResolveDuplicate(e, d))
    [] message[e].word = "complete"         -> {<<CompleteTask(e, "postback", Tapped1(e))>>}
    [] message[e].word = "ask_takeover"     -> PromptTakeover(e)
    [] message[e].word = "answer_all"       -> AnswerAll(e)
    [] message[e].word = "undo_all"         -> UndoAnswer(e)
    [] message[e].word \in {"agree", "disagree"} -> DecideTransport(e)
    [] message[e].word = "purchase"         -> PurchaseById(e)
    [] message[e].word = "purchase_all"     -> {PurchaseAll(e, OpenItems)}
    [] message[e].word \in {"wait", "resume"}               -> SetWaiting(e)
    [] message[e].word \in {"take", "leave_open"}           -> AssignUnassigned(e)
    [] message[e].word \in {"claim", "release", "takeover"} -> MutateClaim(e)
    [] OTHER                                -> TakeBack(e)

\* handleText, the language model's half: what a usable plan may do.
Understood(e) ==
  CASE message[e].word = "item"   -> UnderstoodDraft(e, {"shopping", "task"})
    [] message[e].word = "fix"    -> UnderstoodEdit(e) \cup UnderstoodDraft(e, {"task"})
    [] message[e].word = "drop"   -> UnderstoodCancel(e)
    [] message[e].word = "done"   -> {<<CompleteTask(e, "understand", t)>> : t \in OpenTasks}
    [] message[e].word = "missed" -> {<<CouldNotDo(e, t)>> : t \in OpenTasks}
    [] message[e].word = "bought" -> MarkBought(e)
    [] OTHER                      -> {}

\* handleText, the phrase handlers: no model, no usable answer, or handed back.
Fallback(e) ==
  CASE message[e].word = "item"     -> IF Editing(From(e)) # {} THEN ApplyTextEdit(e) ELSE SingleCandidate(e, {"shopping", "task"})
    [] message[e].word = "list"     -> MultiIntentReview(e, {c \in Candidates : c["c2"] # "none"})
    [] message[e].word = "starter"  -> Starter(e)
    [] message[e].word \in {"fix", "drop"} -> IF Mine(From(e)) = {} THEN {<<>>}
                                              ELSE PendingReferent(e, message[e].word = "drop")
                                                     \cup IF message[e].word = "fix" THEN ApplyTextEdit(e) ELSE {}
    [] message[e].word = "done"     -> CompletionReport(e)
    [] message[e].word = "all_done" -> DayCompletion(e)
    [] message[e].word = "bought"   -> PurchaseReport(e)
    [] OTHER                        -> {<<>>}

\* handleText, before the model is asked: the driver of a day, then the fixed menu words.
Fixed == {"driver", "waiting", "claims", "routine", "decide"}
MenuWord(e) ==
  CASE message[e].word = "driver"  -> OpenTransportPreview(e) \cup {<<>>}
    [] message[e].word = "waiting" -> OpenWaiting(e)
    [] message[e].word = "claims"  -> OpenShopping(e) \cup OpenAnyoneTasks(e)
    [] message[e].word = "routine" -> OpenReconciliation(e)
    [] message[e].word = "decide"  -> OpenAssignmentDecision(e)

Texts == {"item", "list", "starter", "fix", "drop", "done", "missed", "all_done", "bought"}

-----------------------------------------------------------------------------
(***************************************************************************)
(* The users                                                               *)
(***************************************************************************)

\* A button exists once the row does; the buttons of an answer once it is
\* sent.  Old cards and buttons keep working.
Say(e) ==
  \E s \in story.by[e], word \in story.says[e] :
    /\ \/ word \in Texts \cup Fixed \cup {"purchase_all"} /\ Send(e, [from |-> s, word |-> word, target |-> <<>>])
       \/ /\ word \in {"confirm", "cancel", "edit", "change", "kind", "cancel_candidate", "resolve", "undo_add"}
          /\ \E d \in Mine(s) : /\ word = "undo_add" => draft[d].content.kind \in {"shopping", "list"} /\ consent[d] # {}
                                /\ Send(e, [from |-> s, word |-> word, target |-> d])
       \/ /\ word \in {"hidden", "special"}
          /\ \E d \in Mine(s) : /\ draft[d].content.kind = "task" /\ consent[d] # {}
                                /\ Send(e, [from |-> s, word |-> word, target |-> d])
       \/ word = "complete" /\ \E t \in Task : Send(e, [from |-> s, word |-> word, target |-> <<t>>])
       \/ word = "purchase" /\ \E i \in ShoppingItem : Send(e, [from |-> s, word |-> word, target |-> <<i>>])
       \/ /\ word \in Taps
          /\ \E b \in {x \in button : x.by = s /\ x.action = word} : Send(e, [from |-> s, word |-> word, target |-> <<b>>])
    /\ UNCHANGED <<inbox, run, story, left, pendingVars, commandVars>>

-----------------------------------------------------------------------------
(***************************************************************************)
(* The run                                                                 *)
(***************************************************************************)

\* A text first closes the sender's overdue drafts (the read of the newest
\* row does).  A model that answers nothing usable leaves the phrase handlers.
Read(w) ==
  LET e == Item(w).event
  IN  /\ run[w].pc \in {"read", "fallback"}
      /\ \E plan \in IF message[e].word \in Fixed THEN MenuWord(e)
                     ELSE IF message[e].word \notin Texts THEN Postback(e)
                     ELSE Fallback(e) \cup IF run[w].pc = "read" THEN Understood(e) ELSE {} :
           run' = [run EXCEPT ![w] = [@ EXCEPT !.pc = "calls", !.plan = plan]]
      /\ IF message[e].word \in Texts THEN ExpireDrafts(From(e)) ELSE UNCHANGED pendingVars
      /\ UNCHANGED <<message, inbox, story, left, commandVars>>

\* What each server function asks.
CanDo(c) == \/ c.rpc \in {"create", "reply"}
            \/ c.rpc = "confirm"  /\ CanConfirm(c.d)
            \/ c.rpc = "cancel"   /\ CanCancel(c.d)
            \/ c.rpc = "update"   /\ CanUpdate(c.d, c.content)
            \/ c.rpc = "undo"     /\ CanUndo(c.d)
            \/ c.rpc = "calendar" /\ CanChoose(c.d)
            \/ c.rpc = "command"  /\ Accepted(c)
            \/ c.rpc = "all_done" /\ CanAllDone(c)
            \/ c.rpc = "undo_all" /\ CanUndoAll(c)
            \/ c.rpc = "prepare"  /\ CanPrepare(c)
            \/ c.rpc = "decide"   /\ CanDecide(c)

DoToDraft(c) == CASE c.rpc = "create"  -> CreatePending(c.d, c.content)
                  [] c.rpc = "confirm" -> ConfirmPending(c.d)
                  [] c.rpc = "cancel"  -> CancelPending(c.d)
                  [] c.rpc = "update"  -> UpdatePending(c.d, c.content, c.editing)
                  [] c.rpc = "undo"    -> UndoQuickShopping(c.d)
                  [] c.rpc = "calendar" -> ChooseCalendar(c.d, c.to)
DoAtOnce(c) == CASE c.rpc = "command"  -> Perform(c)
                 [] c.rpc = "all_done" -> AllDone(c)
                 [] c.rpc = "undo_all" -> UndoAll(c)
                 [] c.rpc = "prepare"  -> Prepare(c)
                 [] c.rpc = "decide"   -> Decide(c)
                 [] c.rpc = "reply"    -> UNCHANGED <<object, receipt, answered, preview>>

\* The call, and what is then told and offered.
OnDraft == {"create", "confirm", "cancel", "update", "undo", "calendar"}
Do(c) == IF c.rpc \in OnDraft THEN DoToDraft(c) /\ UNCHANGED <<object, receipt, answered, preview>>
         ELSE DoAtOnce(c) /\ UNCHANGED pendingVars
Tell(c, e) == IF c.rpc \in OnDraft \cup {"undo_all", "decide"} THEN UNCHANGED <<button, reported>> ELSE Answer(c, e)

Refused(w) ==
  LET c == Head(run[w].plan)
  IN  run' = CASE c.otherwise = "stop"     -> [run EXCEPT ![w].plan = <<>>]
               [] c.otherwise = "next"     -> [run EXCEPT ![w].plan = Tail(@)]
               [] OTHER                  -> [run EXCEPT ![w] = [@ EXCEPT !.pc = "fallback", !.plan = <<>>]]

\* The answer comes back.
CallServer(w) ==
  /\ run[w].pc = "calls" /\ run[w].plan # <<>>
  /\ LET c == Head(run[w].plan)
     IN  IF CanDo(c)
         THEN /\ Do(c)
              /\ run' = [run EXCEPT ![w].plan = Tail(@)]
              /\ Tell(c, Item(w).event)
         ELSE Refused(w) /\ UNCHANGED <<pendingVars, commandVars>>
  /\ UNCHANGED <<message, inbox, story, left>>

\* The call takes effect or not and its answer is lost: to the handler it is refused.
LoseAnswer(w) ==
  /\ run[w].pc = "calls" /\ run[w].plan # <<>> /\ Spend("trouble")
  /\ Refused(w)
  /\ LET c == Head(run[w].plan)
     IN  \/ CanDo(c) /\ Do(c) /\ UNCHANGED <<button, reported>>
         \/ UNCHANGED <<pendingVars, commandVars>>
  /\ UNCHANGED <<message, inbox, story>>

-----------------------------------------------------------------------------
Next ==
  \/ \E e \in Event : Say(e)
  \/ InboxStep /\ UNCHANGED <<pendingVars, commandVars>>
  \/ \E w \in Run : Read(w) \/ CallServer(w) \/ LoseAnswer(w)
  \/ PendingStep /\ UNCHANGED commandVars
  \/ HouseholdStep /\ UNCHANGED pendingVars

Spec == Init /\ [][Next]_vars

\* Runs are started every minute and after every delivery; the functions end;
\* time passes.  Users need not write and nothing need go wrong.
RunStep(w) ==
  \/ Read(w) \/ CallServer(w)
  \/ (ClaimBatch(w) \/ Complete(w) \/ Fail(w)) /\ UNCHANGED <<pendingVars, commandVars>>
FairSpec ==
  /\ Spec /\ PendingFairness /\ WF_inboxVars(InboxClock)
  /\ \A w \in Run : WF_vars(RunStep(w))

-----------------------------------------------------------------------------
(***************************************************************************)
(* Properties                                                              *)
(***************************************************************************)

TypeOK ==
  /\ InboxTypeOK
  /\ \A d \in DraftId : /\ draft[d].status \in {"absent", "draft", "executing", "confirmed"} \cup Closed
                        /\ draft[d].mark \in Event \cup {0}
  /\ \A x \in Job : job[x].pc \in {"idle", "check", "execute", "failing"}
  /\ \A t \in Target : object[t].status \in ObjectStatus /\ object[t].revision \in 1 .. MaxRevision

\* An operation was confirmed by the owner of its draft, with what was made; what the
\* calendar of its task is now was chosen, too.
Consented(op) == \E d \in DraftId : /\ d[1] = op[1] /\ made[op].content \in consent[d]
                                   /\ op \in OpsOf(d, made[op].content)
                                   /\ made[op].asked \in draft[d].chosen
ShownAsChosen(op) == made[op].calendar # made[op].asked => op \in DraftId /\ made[op].calendar \in draft[op].chosen

\* Whatever process-pending-actions made was confirmed by its owner, with the
\* very content that was made: no edit, preparation or later message reaches a
\* row between the confirmation and the execution, but for the calendar of an
\* event, which is that of the confirmation or one its owner has tapped since.
ExecutedAsConfirmed ==
  \A op \in Op : made[op].state # "none" => Consented(op) /\ ShownAsChosen(op)

\* A row is only called done when each of its parts was made, or was on the
\* list before: a failed part leaves it to be tried again (execute, complete).
SucceededIsComplete ==
  \A d \in DraftId : Is(d, {"succeeded"}) =>
    \A op \in OpsOf(d, draft[d].content) :
      \/ made[op].state # "none"
      \/ draft[d].content.kind \in Review /\ draft[d].content.cand[op[2]] = "existing"

\* Corrections of a draft take effect in the order they were written, however
\* they are delivered, handled again or mixed with the app's.  Two cases are
\* excepted.  A draft nobody corrected has no event time, so an older message
\* delivered late may still edit it.  And a run that outlived its lease has
\* its edit stamped with the time of the event that is handled by then.
OnTime(w) == run[w].pc = "calls" /\ Holds(w) /\ Live(Item(w).event)
Corrected(d) == draft[d].content.by \in 1 .. draft[d].mark
CorrectionsInOrder ==
  [][\A d \in DraftId : Corrected(d) /\ draft'[d].content.by > 0 =>
       \/ draft'[d].content.by >= draft[d].content.by
       \/ \E w \in Run : run'[w] # run[w] /\ ~OnTime(w)]_vars

\* Taking back "all done" overwrites nothing that was done to the session's
\* tasks after the answer, in LINE or elsewhere, and touches no other task.
UndoErasesNothing ==
  [][\A r \in answered : ~r.undone /\ [r EXCEPT !.undone = TRUE] \in answered' =>
       \A t \in Target : IF t \in r.tasks THEN object[t] = r.after[t] ELSE object'[t] = object[t]]_vars

\* The driver of a day only changes when the member agrees to the newest
\* question put to them, about the task as it was described in it.
AgreedAsShown ==
  [][\A e \in Event : preview[e].status = "draft" /\ preview'[e].status = "succeeded" =>
       /\ object[preview[e].target] = preview[e].shown
       /\ \A f \in Event : preview[f].by = preview[e].by /\ preview[f].status = "draft" => f = e]_vars

\* A confirmed row is executed, given up or closed in the end; only a row that
\* is claimed when its time passes and whose worker dies is left executing.
ConfirmedSettles ==
  []<>(\A d \in DraftId : Is(d, {"confirmed", "executing"}) => draft[d].overdue /\ draft[d].lapsed)
=============================================================================
