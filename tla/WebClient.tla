------------------------------ MODULE WebClient ------------------------------
(***************************************************************************)
(* How the web client sends a command and what it makes of the answer.     *)
(*                                                                         *)
(* One person (User) has one screen of the app open on one item of the     *)
(* household; the other adult (Partner) uses a device of his own.  A press *)
(* prepares an attempt under its logical key (commandAttempt.ts), runs it  *)
(* (apiClient.ts: session, fetch with a deadline, body), and settles it    *)
(* from the answer.  The request may arrive after the client has given up  *)
(* on it, the answer may be lost, the session may not be ready, the page   *)
(* may be reloaded or its tab closed, an attempt kept for a day expires,   *)
(* and the screen may show an older state than the server's.               *)
(*                                                                         *)
(* The server answers in one step (Endpoints): it replays the receipt of   *)
(* an operation it knows and refuses the same operation with another       *)
(* payload; a refused command leaves no receipt.                           *)
(***************************************************************************)
EXTENDS ConciergeScreens

CONSTANTS Scenes,           \* where an instance starts and its bounds:
                            \*   [screen, state, presses, trouble, elsewhere, loads]
          MaxPresses        \* bound: presses of the user in any scene

\* The panels of the app that are modelled.
Screens == {"row", "checklist", "waiting", "assignment", "progress", "evidence", "form", "schedule",
            "goods", "batch", "ownership", "anyone", "additions", "today", "request", "send", "note",
            "checkin", "day", "google", "plan", "conflict", "nursery", "household", "invite", "roles",
            "children", "setting", "concierge"}

\* The rows a panel is opened on.  (The concierge may meet an open task or item.)
StatesOf(screen) ==
    CASE screen \in {"row", "checklist", "waiting", "assignment", "progress", "evidence", "form",
                     "schedule", "today", "checkin"} -> TaskState
      [] screen \in {"goods", "batch", "ownership", "anyone", "additions"} -> ShoppingState
      [] screen \in {"request", "send"} -> RequestState
      [] screen = "note" -> HandoverState
      [] screen = "day" -> DayState
      [] screen \in {"google", "plan", "conflict", "nursery"} -> ReviewState
      [] screen \in {"household", "invite"} -> SetupState
      [] screen = "roles" -> RoleState
      [] screen \in {"children", "setting"} -> SettingState
      [] screen = "concierge" -> TaskState \union ShoppingState

\* A panel is opened on a row of its kind.
ASSUME ScenesAssumption ==
    /\ MaxPresses \in Nat
    /\ \A s \in Scenes : s.screen \in Screens /\ s.state \in StatesOf(s.screen)
                         /\ s.presses \in 0..MaxPresses

VARIABLES scene,      \* the scene that is played
          session,    \* whether the browser keeps sessionStorage
          item,       \* the row on the server
          author,     \* who made its current state: an operation, Partner or Nobody
          receipts,   \* operation -> [endpoint, body, reply, from], the last
                      \* two with the revision after and before
          wire,       \* requests that have not reached the server yet
          shown,      \* the row on the screen
          loads,      \* reads of the row under way: [n, read, row]
          latest,     \* the number of the latest load
          attempts,   \* logical key -> [op, endpoint, body, expired]
          forms,      \* logical key of a mounted form or of a candidate ->
                      \*   [op, locked: the command committed to, saved]
          calls,      \* executions of attempts under way
          offer,      \* the undo on the screen: [op, command], or empty
          doubt,      \* presses whose result the user was never told
          again,      \* presses repeated while in doubt: [first, second, forgot]
          presses,    \* bounded by the scene, like the next two:
          trouble,    \* lost answers, failed sessions, reloads, expiries
          elsewhere   \* commands of the partner

server == <<item, author, receipts>>
display == <<shown, loads, latest>>
counters == <<presses, trouble, elsewhere>>
vars == <<scene, session, item, author, receipts, wire, shown, loads, latest, attempts,
          forms, calls, offer, doubt, again, presses, trouble, elsewhere>>

Op == 1..MaxPresses       \* a press numbers the call it starts and the id it may draw
Nobodys == 0              \* no call, no operation
WaitingFor == [code |-> None, rev |-> 0]

Without(f, k) == [x \in DOMAIN f \ {k} |-> f[x]]
With(f, k, v) == [x \in DOMAIN f \union {k} |-> IF x = k THEN v ELSE f[x]]

\* A panel of the screen at a time.
Offered(row, me) ==
    CASE scene.screen = "row" -> TaskButtons(row, me)
      [] scene.screen = "checklist" -> handleToggleSubtask(row, me)
      [] scene.screen = "waiting" -> handleWaitingSubmit(row) \union handleResumeWaiting(row)
      [] scene.screen = "assignment" -> handleAssignmentSubmit(row, me)
      [] scene.screen = "progress" -> WorkUpdateForm(row)
      [] scene.screen = "evidence" -> handleEvidenceSubmit(row)
      [] scene.screen = "form" -> TaskForm(row)
      [] scene.screen = "schedule" -> toggleCheck(row) \union comment
      [] scene.screen = "goods" -> primaryAction(row) \union menu(row)
      [] scene.screen = "batch" -> purchaseSelected(row)
      [] scene.screen = "ownership" -> ownership(row, me)
      [] scene.screen = "anyone" -> changeOwner(row, me)
      [] scene.screen = "additions" -> QuickAddShopping \union AddShoppingItemForm \union createTask
      [] scene.screen = "today" -> resolveAssignment(row, me) \union saveActualCorrection(row)
      [] scene.screen = "request" -> RequestButtons(row, me)
      [] scene.screen = "send" -> SendRequestForm \union ComposeHandoverForm
      [] scene.screen = "note" -> HandoverActions(row, me)
      [] scene.screen = "checkin" -> CheckinPage(row)
      [] scene.screen = "day" -> DayTransport(row)
      [] scene.screen = "google" -> resolveGoogleReview(row)
      [] scene.screen = "plan" -> confirmEventPlan(row)
      [] scene.screen = "conflict" -> respondReview(row)
      [] scene.screen = "nursery" -> NurseryReview(row)
      [] scene.screen = "household" -> HouseholdGate(row, me)
      [] scene.screen = "invite" -> InviteSection(row, me)
      [] scene.screen = "roles" -> FamilyRoles
      [] scene.screen = "children" -> ChildrenSettings \union LineLinkSection
      [] scene.screen = "setting" -> Setting(row)
      [] scene.screen = "concierge" -> ConciergePage(row, me)

OnShopping == scene.screen \in {"goods", "batch", "ownership", "anyone", "additions"}
OnTasks == scene.screen \in {"row", "checklist", "waiting", "assignment", "progress", "evidence",
                             "form", "schedule", "today"}

InConcierge == scene.screen = "concierge"

\* The only candidate of the list that is not saved yet, while it is not being
\* matched again.
Unsaved(c) == loads = {} /\ \A k \in DOMAIN forms : c.key = k /\ ~forms[k].saved

\* A candidate that was committed stays the command it was committed as; before that
\* the user may edit it.
Confirmable(c) == Unsaved(c) /\ \A k \in DOMAIN forms : forms[k].locked # {} => c \in forms[k].locked

\* What the partner may do to the same row meanwhile.
Partners(row) ==
    (IF InConcierge THEN {} ELSE Offered(row, Partner))
    \union CASE row.state \in ShoppingState -> primaryAction(row) \union menu(row)
             [] row.state \in TaskState -> TaskButtons(row, Partner)
             [] OTHER -> {}

\* The task lists and the household load with a sequence number and drop every answer but the
\* latest one's; the other lists have none.
DropsOldLoads == OnTasks \/ scene.screen \in {"household", "invite", "roles"}

-----------------------------------------------------------------------------
(* The attempt kept under a logical key. *)

NewAttempt(op, c) == [op |-> op, endpoint |-> c.endpoint, body |-> c.body, expired |-> FALSE]

\* A press, a mounted form and a candidate keep no attempt, or keep it under an id
\* of their own.
Unkept == {"fresh", "form"}
WithItsId == {"form", "own"}

Kept(c) == c.via \notin Unkept /\ c.key \in DOMAIN attempts

IdFor(c) == IF c.via \in WithItsId /\ c.key \in DOMAIN forms THEN forms[c.key].op ELSE presses + 1

\* The command as it is sent: a form that resumes shows and sends what was kept.
Resumed(c) ==
    IF c.via = "resumes" /\ Kept(c) /\ ~attempts[c.key].expired
    THEN [c EXCEPT !.body = attempts[c.key].body] ELSE c

\* Mutant: every press draws a new operation id.
prepareAlwaysAnew(c) == NewAttempt(presses + 1, c)

\* An attempt that is still kept must be for the same payload.  The link of an
\* expired one still gives its operation id to the next payload.
prepareCommandAttempt(c) ==
    IF ~Kept(c) \/ (c.via = "resumes" /\ attempts[c.key].expired) THEN NewAttempt(IdFor(c), c)
    ELSE IF attempts[c.key].expired THEN NewAttempt(attempts[c.key].op, c)
    ELSE attempts[c.key]

\* Mutant: a kept attempt is run whatever the payload is now.
ConflictsOfEndpoint(c) == prepareCommandAttempt(c).endpoint # c.endpoint

Conflicts(c) == LET a == prepareCommandAttempt(c)
                IN  a.endpoint # c.endpoint \/ a.body # c.body

Keep(key, via, attempt) == IF via \in Unkept THEN attempts ELSE With(attempts, key, attempt)
Drop(call) == IF call.via \in Unkept THEN attempts ELSE Without(attempts, call.key)

AttemptOf(call) == [op |-> call.op, endpoint |-> call.endpoint, body |-> call.body, expired |-> FALSE]

-----------------------------------------------------------------------------
(* What the user knows of a press: recorded to state the properties.       *)

\* forgot: why its operation is not kept any more, by the "client" itself, or since
\* the "page" and its storage are gone or a day has passed.
Wish(call) == [op |-> call.op, key |-> call.key, via |-> call.via, body |-> call.body, forgot |-> None]
SameWish(w, c) == w.key = c.key /\ w.via = c.via /\ w.body = c.body

\* The page still has the operation of a wish: its attempt, or the form or the
\* candidate it is the operation of.
Remembered(w, kept, keptForms) ==
    IF w.via \in WithItsId
    THEN w.key \in DOMAIN keptForms /\ keptForms[w.key].op = w.op
    ELSE w.via # "fresh" /\ w.key \in DOMAIN kept /\ kept[w.key].op = w.op /\ ~kept[w.key].expired

Unsure(some) ==
    LET news == {Wish(call) : call \in some}
    IN  news \union {w \in doubt : \A n \in news : <<n.op, n.body>> # <<w.op, w.body>>}
Told(call) == {w \in doubt : ~SameWish(w, call)}

Forget(wishes, kept, keptForms, why) ==
    {IF w.forgot # None \/ Remembered(w, kept, keptForms) THEN w ELSE [w EXCEPT !.forgot = why] :
        w \in wishes}

Repeats(op, c) ==
    {[first |-> w.op, second |-> op, forgot |-> w.forgot] : w \in {w \in doubt : SameWish(w, c) /\ w.op # op}}

\* A request whose caller is gone may still arrive.
\* Mutant: it would still find its caller.
OrphanedNever(requests, gone) == requests

Orphaned(requests, gone) ==
    {IF r.call \in gone THEN [r EXCEPT !.call = Nobodys] ELSE r : r \in requests}

-----------------------------------------------------------------------------
Init ==
    /\ scene \in Scenes
    /\ item = [state |-> scene.state, rev |-> 1]
    /\ session \in BOOLEAN
    /\ author = Nobody
    /\ receipts = <<>>
    /\ wire = {}
    /\ shown = item
    /\ loads = {} /\ latest = 0
    /\ attempts = <<>> /\ forms = <<>>
    /\ calls = {} /\ offer = {}
    /\ doubt = {} /\ again = {}
    /\ presses = 0 /\ trouble = 0 /\ elsewhere = 0

(* The press of a button: useCommandAttempt and the preparation. *)

\* One command per key at a time, as long as its button stays on the screen.
Running(c) == \E call \in calls : call.key = c.key /\ call.endpoint = c.endpoint /\ ~call.left

Begin(c, undoes) ==
    LET a == prepareCommandAttempt(c)
        call == [n |-> presses + 1, op |-> a.op, key |-> c.key, endpoint |-> a.endpoint,
                 body |-> a.body, asked |-> c.body, via |-> c.via, undo |-> c.undo, undoes |-> undoes,
                 sent |-> FALSE, left |-> FALSE, reply |-> WaitingFor]
    IN  /\ presses < scene.presses
        /\ ~Running(c)
        /\ ~Conflicts(c)
        /\ presses' = presses + 1
        /\ attempts' = Keep(c.key, c.via, a)
        /\ forms' = IF c.via \notin WithItsId THEN forms
                    ELSE With(forms, c.key, [op |-> a.op, saved |-> FALSE,
                                             locked |-> IF c.via = "own" THEN {c} ELSE {}])
        /\ calls' = calls \union {call}
        /\ again' = again \union Repeats(a.op, c)

Press ==
    /\ \E c \in Offered(shown, User) : (InConcierge => Confirmable(c)) /\ Begin(Resumed(c), Nobodys)
    /\ UNCHANGED <<scene, session, server, wire, display, offer, doubt, trouble, elsewhere>>

\* The undo of a task names the revision its completion was answered with; the
\* undo of a purchase reads the item again.
UndoCommands(o) ==
    CASE o.undo = "reopen" ->
           {Attempted(<<"reopen", o.rev>>, "complete-task", Body("reopen", None, o.rev, None))}
      [] o.undo = "could_not_do_undo" ->
           {Attempted(<<"could-not-do:undo", o.rev>>, "complete-task",
                      Body("could_not_do_undo", None, o.rev, None))}
      [] OTHER -> useShoppingUndo(item, o.undo)

PressUndo ==
    /\ \E o \in offer : \E c \in UndoCommands(o) : Begin(c, o.op)
    /\ UNCHANGED <<scene, session, server, wire, display, offer, doubt, trouble, elsewhere>>

\* (It goes away after eight seconds: not pressed any more.)

(* callEdgeFunction. *)

Trouble == trouble < scene.trouble /\ trouble' = trouble + 1

\* No session in time: nothing was sent now, and the attempt is dropped even if
\* an earlier execution of it ended in doubt.
NotSent ==
    /\ Trouble
    /\ \E call \in calls :
          /\ ~call.sent
          /\ calls' = calls \ {call}
          /\ attempts' = Drop(call)
          /\ doubt' = Forget(doubt, Drop(call), forms, "client")
    /\ UNCHANGED <<scene, session, server, wire, display, forms, offer, again, presses, elsewhere>>

Send ==
    /\ \E call \in calls :
          /\ ~call.sent
          /\ calls' = (calls \ {call}) \union {[call EXCEPT !.sent = TRUE]}
          /\ wire' = wire \union {[call |-> call.n, op |-> call.op, endpoint |-> call.endpoint,
                                   body |-> call.body, undoes |-> call.undoes]}
    /\ UNCHANGED <<scene, session, server, display, attempts, forms, offer, doubt, again, counters>>

\* The deadline passes, the connection breaks or the answer is not readable,
\* before or after the server did its work: the result is unknown.
Lost ==
    /\ Trouble
    /\ \E call \in calls :
          /\ call.sent /\ call.reply.code = None
          /\ calls' = calls \ {call}
          /\ attempts' = Keep(call.key, call.via, AttemptOf(call))
          /\ wire' = Orphaned(wire, {call.n})
          /\ doubt' = Forget(Unsure({call}), Keep(call.key, call.via, AttemptOf(call)), forms, "client")
    /\ UNCHANGED <<scene, session, server, display, forms, offer, again, presses, elsewhere>>

\* After a success the screen offers the undo and loads again.
OfferOf(call) ==
    IF call.undo = None THEN offer
    ELSE {[op |-> call.op, undo |-> call.undo, rev |-> call.reply.rev]}

NextLoad == [n |-> latest + 1, read |-> FALSE, row |-> shown]

AnswerDone ==
    /\ \E call \in calls :
          /\ Outcome(call.reply.code) = "done"
          /\ calls' = calls \ {call}
          /\ attempts' = Drop(call)
          /\ offer' = IF call.undoes # Nobodys THEN {} ELSE OfferOf(call)
          /\ forms' = IF call.via = "own" THEN [forms EXCEPT ![call.key].saved = TRUE] ELSE forms
          /\ doubt' = Forget(Told(call), Drop(call), forms, "client")
    /\ IF InConcierge THEN UNCHANGED <<loads, latest>>
                      ELSE loads' = loads \union {NextLoad} /\ latest' = latest + 1
    /\ UNCHANGED <<scene, session, server, wire, shown, again, counters>>

AnswerRejected ==
    /\ \E call \in calls :
          /\ call.reply.code # None /\ Outcome(call.reply.code) = "rejected"
          /\ calls' = calls \ {call}
          /\ attempts' = Drop(call)
          /\ doubt' = Forget(Told(call), Drop(call), forms, "client")
    /\ UNCHANGED <<scene, session, server, wire, display, forms, offer, again, counters>>

\* A refusal outside the catalogue of codes reads like a failure of the server.
AnswerUnknown ==
    /\ \E call \in calls :
          /\ call.reply.code # None /\ Outcome(call.reply.code) = "unknown"
          /\ calls' = calls \ {call}
          /\ attempts' = Keep(call.key, call.via, AttemptOf(call))
          /\ doubt' = Forget(Unsure({call}), Keep(call.key, call.via, AttemptOf(call)), forms, "client")
    /\ UNCHANGED <<scene, session, server, wire, display, forms, offer, again, counters>>

(* The server. *)

Landed(op) == op \in DOMAIN receipts

Answered(r, reply) ==
    {IF call.n = r.call THEN [call EXCEPT !.reply = reply] ELSE call : call \in calls}

Serves(r) ==
    LET answer == ServeAll(r.endpoint, item, r.body, User)
        reply == [code |-> answer.code, rev |-> answer.item.rev]
    IN  IF answer.code = "OK"
        THEN /\ item' = answer.item
             /\ author' = IF answer.item # item THEN r.op ELSE author
             /\ receipts' = With(receipts, r.op,
                                 [endpoint |-> r.endpoint, body |-> r.body, reply |-> reply,
                                  from |-> item.rev])
             /\ calls' = Answered(r, reply)
        ELSE UNCHANGED server /\ calls' = Answered(r, reply)

Replays(r) ==
    LET old == receipts[r.op]
        precheck == ServeAll(r.endpoint, item, r.body, User)
    IN  /\ UNCHANGED server
        /\ calls' = Answered(r,
              IF r.endpoint \in ChecksBeforeReceipt /\ precheck.code # "OK"
                THEN [code |-> precheck.code, rev |-> item.rev]
              ELSE IF old.endpoint # r.endpoint \/ old.body # r.body
                THEN [code |-> "IDEMPOTENCY_CONFLICT", rev |-> item.rev]
              ELSE old.reply)

Process ==
    /\ \E r \in wire :
          /\ wire' = wire \ {r}
          /\ IF Landed(r.op) THEN Replays(r) ELSE Serves(r)
    /\ UNCHANGED <<scene, session, display, attempts, forms, offer, doubt, again, counters>>

\* The partner uses the same screen on a device of his own.
Elsewhere ==
    /\ elsewhere < scene.elsewhere /\ elsewhere' = elsewhere + 1
    /\ \E c \in Partners(item) :
          LET answer == ServeAll(c.endpoint, item, c.body, Partner)
          IN  /\ answer.code = "OK" /\ answer.item # item
              /\ item' = answer.item
    /\ author' = Partner
    /\ UNCHANGED <<scene, session, receipts, wire, display, attempts, forms, calls, offer, doubt,
                   again, presses, trouble>>

(* The screen and the page. *)

\* A realtime event, a return to the page or a failed command loads the row again; an
\* edit of a candidate has it matched again.
StartLoad ==
    /\ latest < scene.loads
    /\ shown # item
    /\ InConcierge => \A k \in DOMAIN forms : forms[k].locked = {}
    /\ loads' = loads \union {NextLoad}
    /\ latest' = latest + 1
    /\ UNCHANGED <<scene, session, server, wire, shown, attempts, forms, calls, offer, doubt, again,
                   counters>>

ReadLoad ==
    /\ \E l \in loads : ~l.read /\ loads' = (loads \ {l}) \union {[l EXCEPT !.read = TRUE, !.row = item]}
    /\ UNCHANGED <<scene, session, server, wire, shown, latest, attempts, forms, calls, offer, doubt,
                   again, counters>>

Applies(l) == DropsOldLoads => l.n = latest

EndLoad ==
    /\ \E l \in loads :
          /\ l.read
          /\ loads' = loads \ {l}
          /\ shown' = IF Applies(l) THEN l.row ELSE shown
    /\ UNCHANGED <<scene, session, server, wire, latest, attempts, forms, calls, offer, doubt, again,
                   counters>>

\* The user leaves the list and comes back: its buttons are new, the calls go on.
Leave ==
    /\ \E call \in calls : ~call.left /\ call.via \notin WithItsId
    /\ calls' = {IF call.via \in WithItsId THEN call ELSE [call EXCEPT !.left = TRUE] : call \in calls}
    /\ UNCHANGED <<scene, session, server, wire, display, attempts, forms, offer, doubt, again, counters>>

PageGone(kept, keptForms, seen) ==
    /\ Trouble
    /\ attempts # <<>> \/ forms # <<>>
    /\ attempts' = kept
    /\ forms' = keptForms
    /\ LET unsure == Forget(Unsure({call \in calls : call.sent}), attempts, forms, "client")
       IN  doubt' = Forget(unsure, kept, keptForms, "page")
    /\ wire' = Orphaned(wire, {call.n : call \in calls})
    /\ calls' = {} /\ offer' = {} /\ loads' = {}
    /\ shown' = seen
    /\ UNCHANGED <<scene, session, server, latest, again, presses, elsewhere>>

\* sessionStorage survives a reload, if the browser lets the page use it.  The
\* candidates survive in the history entry as they were first matched, with their
\* ids, but not what was edited or saved of them; a form is mounted anew.
Organized == [state |-> scene.state, rev |-> 1]

Reload ==
    LET kept == IF session THEN attempts ELSE <<>>
    IN  IF InConcierge
        THEN PageGone(kept, [k \in DOMAIN forms |-> [forms[k] EXCEPT !.locked = {}, !.saved = FALSE]],
                      Organized)
        ELSE PageGone(kept, <<>>, item)

\* (Without the page there are no candidates left to confirm.)
CloseTab == ~InConcierge /\ PageGone(<<>>, <<>>, item)

\* A day later: nothing of it is on its way any more.
Expire ==
    /\ Trouble
    /\ \E k \in DOMAIN attempts :
          /\ ~attempts[k].expired
          /\ \A call \in calls : call.key # k
          /\ \A r \in wire : r.op # attempts[k].op
          /\ attempts' = [attempts EXCEPT ![k].expired = TRUE]
          /\ doubt' = Forget(doubt, attempts', forms, "page")
    /\ UNCHANGED <<scene, session, server, wire, display, forms, calls, offer, again, presses, elsewhere>>

Next == \/ Press \/ PressUndo
        \/ NotSent \/ Send \/ Lost \/ AnswerDone \/ AnswerRejected \/ AnswerUnknown
        \/ Process \/ Elsewhere
        \/ StartLoad \/ ReadLoad \/ EndLoad
        \/ Leave \/ Reload \/ CloseTab \/ Expire

Spec == Init /\ [][Next]_vars

-----------------------------------------------------------------------------
(* Properties. *)

\* Whatever is done to it, a row stays one of the panel's kind.
Row == [state : StatesOf(scene.screen), rev : Nat]
Texts == Text \union Roles \union {None, "self", "partner", "unknown", "undo"}
Arg == {None, "self", "partner", "unassigned", "anyone", "check", "on", "off", Nobody, User, Partner}
       \union Box \union AllSteps
Actions == {None, "complete", "codmon_submitted", "reopen", "could_not_do", "could_not_do_undo", "cancel",
            "tick", "untick", "set", "update", "resume", "claim", "release", "takeover", "agreed",
            "request", "evidence", "record_progress", "add_comment", "save", "create", "correct",
            "assign", "add", "accept", "decline", "checking", "consult", "confirm_terms", "edit_terms",
            "followup", "send", "read", "end", "partner_handled", "failed", "cancelled", "clear_day",
            "set_override", "delete_override", "save_template", "accept_google", "keep_family",
            "confirm", "respond_conflict_review", "resolve", "join", "finish_later", "configure",
            "complete_step", "save_context", "invite", "reissue_invite", "role", "link", "schedule",
            "preference", "reminder_settings", "categories", "terms", "cell", "actual"}
Bodies == [action : Actions, arg : Arg, rev : Nat, text : Texts]

TypeOK ==
    /\ item \in Row /\ shown \in Row
    /\ author \in {Nobody, Partner} \union Op
    /\ \A k \in DOMAIN attempts : attempts[k].op \in Op /\ attempts[k].body \in Bodies
    /\ \A op \in DOMAIN receipts : op \in Op /\ receipts[op].body \in Bodies
    /\ \A call \in calls : call.n \in Op /\ call.op \in Op /\ call.undoes \in {Nobodys} \union Op
    /\ \A r \in wire : r.call \in {Nobodys} \union {call.n : call \in calls}
    /\ Cardinality(offer) <= 1
    /\ \A l \in loads : l.n <= latest

\* A press answered with success did what that press asked for, whatever was
\* sent, lost or kept under its key before.
SuccessIsYours ==
    \A call \in calls :
       Outcome(call.reply.code) = "done" /\ call.reply.code # None
          => /\ Landed(call.op)
             /\ receipts[call.op].endpoint = call.endpoint /\ receipts[call.op].body = call.asked

\* Commands the server does not protect by a revision that each effect moves on.
Unprotected(receipt) ==
    receipt.body.rev = 0 \/ receipt.endpoint = "create-assignment-change-request"

TookEffectTwice(a) ==
    /\ Landed(a.first) /\ Landed(a.second)
    /\ receipts[a.first].body = receipts[a.second].body

\* A press repeated while the result of the first is not known takes effect at
\* most once in all, unless the client lost the attempt of an unprotected command.
SameWishOnce ==
    \A a \in again : TookEffectTwice(a) => a.forgot # None /\ Unprotected(receipts[a.first])

\* As long as the page and its day last, a press repeated in doubt takes effect
\* at most once: recovery reuses the operation.
RetryIsTheSameCommand == \A a \in again : TookEffectTwice(a) => a.forgot = "page"

\* An undo of a task takes back the record it was offered for, never a later one.
UndoHitsOwnRecord ==
    [][\A r \in wire :
          ~OnShopping /\ r.undoes # Nobodys /\ ~Landed(r.op) /\ r.op \in DOMAIN receipts'
             => author = r.undoes]_vars

\* A press answered from a receipt was made on a screen that did not show the
\* receipt's effect yet: what is told as done now was not done and undone before.
\* (Keys of these screens name no revision: a kept one is answered as it was even
\* when the two have changed their minds since.)
WithoutRevision == {"checkin", "day", "household", "roles", "children", "setting"}

AnsweredForNow(call) ==
    call.via = "attempt" /\ call.undoes = Nobodys /\ Landed(call.op)
       /\ receipts[call.op].from < receipts[call.op].reply.rev
          => shown.rev < receipts[call.op].reply.rev

SuccessIsFresh ==
    [][scene.screen \notin WithoutRevision
         => \A call \in calls' : (\A old \in calls : old.n # call.n) => AnsweredForNow(call)]_vars

=============================================================================
